--------------------------- MODULE MCConversationStore ---------------------------
EXTENDS ConversationStore

CONSTANTS tracker, runner, connector, clear, tool, archive

MCWriters == {tracker, runner, connector, clear, tool, archive}

MCKind == [w \in MCWriters |->
             CASE w = tracker -> "tracker" [] w = runner -> "runner"
               [] w = connector -> "connector" [] w = clear -> "clear"
               [] w = tool -> "tool" [] OTHER -> "archive"]
=============================================================================
