CONSTANTS
  withContext = withContext
  withoutContext = withoutContext
  bots = bots
  token = token
  tokenNeg = tokenNeg
  valid = valid
  Calls = {v1, v2}
  Creds = {token, tokenNeg}
  Instances = {withContext, withoutContext, bots}
  Realm <- SharedRealm
  Include <- SharedInclude
  HashCacheKey = FALSE
  NegOf <- SharedNegOf
  Unsendable <- SharedUnsendable
  ConfigTTL <- MCConfigTTL
  ConfigNegativeTTL = 0
  DefaultTTL <- MCDefaultTTL
  DefaultNegativeTTL = 1
  Timeout = 0
  Lag = 0
  TimerCoversBody = TRUE
  ServerContexts = {"included"}
  Grants = {valid}
  LongAgo <- MCLongAgo
  InitialAccounts <- UniformStart
  Changing = {}
  Horizon = 0
  NoEntry = NoEntry
  Miss = Miss
  NoVerdict = NoVerdict
  None = None
SYMMETRY Symmetric
SPECIFICATION Spec
INVARIANTS Isolation EntriesKeyed
CHECK_DEADLOCK FALSE
