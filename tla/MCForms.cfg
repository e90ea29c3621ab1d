SPECIFICATION MCSpec
CONSTANTS
  Brands = {m, n}
  m = m
  n = n
  Currencies = {c, d}
  c = c
  d = d
  MaxPicked = 3
  MaxSaves = 2
  Ids = {a, b}
  a = a
  b = b
  None = None
  Days = {10}
  Today = 10
  StoredZone = 13
  GuessedZone = 0
  MaxForms = 2
  MaxRequests = 2
  MaxAdds = 2
INVARIANTS
  OneCreateInFlight
  OneRowPerForm
  UntouchedDateKept
  NoteTellsApart
CHECK_DEADLOCK FALSE
