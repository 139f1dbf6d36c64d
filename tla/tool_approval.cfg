SPECIFICATION FairSpec
CONSTANTS
  c1 = c1
  c2 = c2
  run_command = run_command
  k1 = k1
  k2 = k2
  Conversations <- MCConversations
  Tools <- MCTools
  GlobalAllowed = {}
  Clients <- MCClients
  All = All
  None = None
  Slots = 2
  MaxCalls = 2
  MaxBinds = 2
  MaxAnswers = 3
INVARIANTS
  TypeOK
  RunsOnlyWhenGranted
  PromptIsSomewhere
PROPERTIES
  FirstAnswerDecides
  AnsweredPromptsSettle
CHECK_DEADLOCK FALSE
