SPECIFICATION FairSpec
CONSTANTS
  u1 = u1
  c1 = c1
  c2 = c2
  h1 = h1
  h2 = h2
  w1 = w1
  w2 = w2
  Users = {u1}
  Charges = {c1}
  Handlers = {h1, h2}
  Workers = {w1, w2}
  NULL = NULL
  MonthLen = 1
  MaxTime = 2
  MaxFaults = 2
INVARIANTS
  CreditedOnce
  CryptoNeverLost
  UntouchedRowsLapsed
  NoticePerDowngrade
PROPERTIES
  ImplementsLedger
  CryptoEventuallySettled
  LapsedEventuallyCleared
