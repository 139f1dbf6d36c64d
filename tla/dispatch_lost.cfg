SPECIFICATION Spec
CONSTANTS
  c1 = c1
  m1 = m1
  m2 = m2
  m3 = m3
  image = image
  None = None
  Conversations = {c1}
  Messages = {m1, m2, m3}
  ConvOf <- OneConversation
  NoText = {}
  BusCapacity = 2
  MaxTurns = 1
INVARIANT
  BufferedMessagesSurvive
CHECK_DEADLOCK FALSE
