CONSTANTS
  withContext = withContext
  withoutContext = withoutContext
  bots = bots
  token = token
  tokenNeg = tokenNeg
  valid = valid
  Calls = {v1, v2}
  Creds = {token}
  Instances = {withContext}
  Realm <- OneRealm
  Include <- OneInclude
  HashCacheKey = TRUE
  NegOf <- OneNegOf
  Unsendable = {}
  ConfigTTL <- MCConfigTTL
  ConfigNegativeTTL = 0
  DefaultTTL <- MCDefaultTTL
  DefaultNegativeTTL = 1
  Timeout = 1
  Lag = 1
  TimerCoversBody = FALSE
  ServerContexts = {"included"}
  Grants = {valid}
  LongAgo <- MCLongAgo
  InitialAccounts <- AnyStart
  Changing <- Disablings
  Horizon = 1
  NoEntry = NoEntry
  Miss = Miss
  NoVerdict = NoVerdict
  None = None
SPECIFICATION FairSpec
PROPERTY EveryCallReturns
CHECK_DEADLOCK FALSE
