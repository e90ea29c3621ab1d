SPECIFICATION Spec
CONSTANTS
  Rooms = {a, b}
  a = a
  b = b
  None = None
  Own = a
  Edits = {"addService", "removeMember"}
  MaxOps = 2
INVARIANTS
  FreshAfterWrite
  LastMarkWins
  JoinedListedOnce
CHECK_DEADLOCK FALSE
PROPERTIES
  BlankSheetIsExplained
