SPECIFICATION FairSpec
CONSTANTS
  bot1 = bot1
  bot2 = bot2
  api1 = api1
  api2 = api2
  LastUser = 2
  BotCampaigns = {bot1, bot2}
  ApiCampaigns = {api1, api2}
  Audience <- MCAudience
  ApiKey = ApiKey
  MaxRuns = 2
  PoolSize = 2
  ChanCap = 1
  BatchSize = 1
  MaxAttempts = 2
  MaxKeys = 1
  MaxBusy = 1
  MaxFaults = 1
  NULL = NULL
INVARIANTS
  RunKeepsItsLock
  NobodyTwice
  ReportCountsAll
  ReachesEveryone
PROPERTY EveryRunEnds
CHECK_DEADLOCK FALSE
