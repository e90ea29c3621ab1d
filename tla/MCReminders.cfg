SPECIFICATION RSpec
CONSTANTS
  s1 = s1
  s2 = s2
  t1 = t1
  r1 = r1
  Subs = {s1}
  Taps = {t1}
  TapSub <- MCTapSub
  Requests = {r1}
  NULL = NULL
  Periods = {"weekly"}
  PeriodDays <- MCPeriodDays
  SlotsPerDay = 3
  FreeSubsLimit = 1
  MaxDay = 1
  Horizon = 1
  MaxDeliveries = 1
  PrefTimes = {1}
  DedupSlots = 1
  MaxFaults = 1
INVARIANTS
  OnePingPerDate
  SuppressedWasSent
CHECK_DEADLOCK FALSE
