SPECIFICATION Spec
CONSTANTS
  c1 = c1
  m1 = m1
  m2 = m2
  m3 = m3
  image = image
  None = None
  Conversations = {c1}
  Messages = {m1, m2, m3, image}
  ConvOf <- WithImage
  NoText = {image}
  BusCapacity = 2
  MaxTurns = 2
SYMMETRY
  MCSymmetry
INVARIANTS
  TypeOK
  OneLoopPerConversation
  CancelHitsTheRunningLoop
  TurnsDoNotInterleave
  PersistedInArrivalOrder
  MessagesConserved
PROPERTY
  ImplementsTurns
CHECK_DEADLOCK FALSE
