CONSTANTS
  withContext = withContext
  withoutContext = withoutContext
  bots = bots
  token = token
  tokenNeg = tokenNeg
  valid = valid
  Calls = {v1, v2}
  Creds = {token}
  Instances = {withContext}
  Realm <- OneRealm
  Include <- OneInclude
  HashCacheKey = TRUE
  NegOf <- OneNegOf
  Unsendable = {}
  ConfigTTL <- MCConfigTTL
  ConfigNegativeTTL = 0
  DefaultTTL <- MCDefaultTTL
  DefaultNegativeTTL = 1
  Timeout = 1
  Lag = 0
  TimerCoversBody = TRUE
  ServerContexts = {"included"}
  Grants = {valid}
  LongAgo <- MCLongAgo
  InitialAccounts <- AnyStart
  Changing <- Revocations
  Horizon = 3
  NoEntry = NoEntry
  Miss = Miss
  NoVerdict = NoVerdict
  None = None
SYMMETRY Symmetric
SPECIFICATION Spec
INVARIANTS TypeOK Staleness RevocationWindow RejectionWindow InfraNotCached Accounting
PROPERTY ImplementsContract
CHECK_DEADLOCK FALSE
