SPECIFICATION MCSpec
CONSTANTS
  FreeSubs = 1
  FreeRooms = 1
  MaxItems = 1
  Fields = {"locale", "timezone"}
  Values = {"UTC", "home", "away"}
  BrowserZone = "home"
  MaxPatches = 2
  MaxProfiles = 1
  MaxFlows = 3
  MaxOpenings = 2
  Travels <- SwipeTravels
  Speeds = {0, 6}
  MaxSnaps = 2
  Pool <- ListPool
  ViewQueries = {"ab"}
  Categories = {"music"}
  MonthLength = 30
  Now = 100
  LiveRates <- ListRates
  StaticRates <- ListStatic
  Display = "eur"
  RoomPool <- ListRooms
  MaxShown = 2
INVARIANTS
  PickedZoneKept
CHECK_DEADLOCK FALSE
