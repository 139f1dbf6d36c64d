-------------------------- MODULE MCConnectorSupervisor --------------------------
EXTENDS ConnectorSupervisor

CONSTANTS discord, file, p1, p2, p3, p4

MCConnectors == {discord, file}
MCPids == {p1, p2, p3, p4}
=============================================================================
