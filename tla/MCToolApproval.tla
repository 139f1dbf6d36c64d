----------------------------- MODULE MCToolApproval -----------------------------
EXTENDS ToolApproval

CONSTANTS c1, c2, run_command, k1, k2

MCConversations == {c1, c2}
MCTools == {run_command}
MCClients == {k1, k2}
=============================================================================
