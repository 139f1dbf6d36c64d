SPECIFICATION Spec
CONSTANTS
  tracker = tracker
  runner = runner
  connector = connector
  clear = clear
  tool = tool
  archive = archive
  Writers <- MCWriters
  Kind <- MCKind
  Absent = Absent
  Empty = Empty
  Torn = Torn
  Indices = {9}
  MaxOperations = 3
  MaxCrashes = 1
INVARIANTS
  TypeOK
  RecordIsReadable
  NothingIsInvented
PROPERTIES
  AtomicUnlessRaced
CHECK_DEADLOCK FALSE
