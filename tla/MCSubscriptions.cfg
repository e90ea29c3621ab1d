SPECIFICATION Spec
CONSTANTS
  s1 = s1
  s2 = s2
  t1 = t1
  t2 = t2
  r1 = r1
  r2 = r2
  Subs = {s1}
  Taps = {t1, t2}
  TapSub <- MCTapSub
  Requests = {r1, r2}
  NULL = NULL
  Periods = {"weekly", "monthly"}
  PeriodDays <- MCPeriodDays
  SlotsPerDay = 3
  FreeSubsLimit = 2
  MaxDay = 0
  Horizon = 2
  MaxDeliveries = 1
INVARIANTS
  DeletedStaysDeleted
  EndlessTrialExplained
PROPERTIES
  DoubleTapShiftsOnce
CHECK_DEADLOCK FALSE
