SPECIFICATION RoomSpec
CONSTANTS
  m1 = m1
  m2 = m2
  u1 = u1
  u2 = u2
  x1 = x1
  q1 = q1
  q2 = q2
  LastDay = 1
  Date <- MCDate
  RoomIds = {m1}
  Users = {u1, u2}
  Services = {x1}
  Requests = {q1, q2}
  NULL = NULL
  BillingDays = {1, 2}
  HoursPerDay = 2
  Limited = {u1}
  FreeRoomLimit = 1
  MaxErasures = 1
SYMMETRY Symmetry
INVARIANTS
  NoOrphans
  OwnerIsMember
  CooldownHonoured
PROPERTIES
  JoinKeepsPaidMarks
CHECK_DEADLOCK FALSE
