SPECIFICATION BillSpec
CONSTANTS
  m1 = m1
  m2 = m2
  u1 = u1
  u2 = u2
  x1 = x1
  q1 = q1
  q2 = q2
  LastDay = 4
  Date <- MCDate
  RoomIds = {m1}
  Users = {u1}
  Services = {}
  Requests = {}
  NULL = NULL
  BillingDays = {1, 2, 3}
  HoursPerDay = 4
  Limited = {u1}
  FreeRoomLimit = 1
  MaxErasures = 0
  ResetHours = 2
  reminderHour = 2
  MaxFaults = 1
  MaxStops = 1
INVARIANTS
  ResetOnBillingDay
  ReminderBeforeReset
  ToldOnce
PROPERTIES
  ResetOncePerDay
CHECK_DEADLOCK FALSE
