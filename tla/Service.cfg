CONSTANTS
  withContext = withContext
  withoutContext = withoutContext
  token = token
  valid = valid
  one = one
  two = two
  Calls = {r1, r2}
  Creds = {token}
  Instances = {withContext, withoutContext}
  Realm <- MCRealm
  Include <- MCInclude
  HashCacheKey = TRUE
  NegOf <- MCNegOf
  Unsendable = {}
  ConfigTTL <- MCConfigTTL
  ConfigNegativeTTL = 0
  DefaultTTL <- MCDefaultTTL
  DefaultNegativeTTL = 1
  Timeout = 1
  Lag = 0
  TimerCoversBody = TRUE
  ServerContexts = {"included", "unknown_server"}
  Grants = {valid}
  LongAgo <- MCLongAgo
  InitialAccounts <- MCInitialAccounts
  Changing <- MCChanging
  Horizon = 0
  NoEntry = NoEntry
  Miss = Miss
  NoVerdict = NoVerdict
  None = None
  Routes <- MCRoutes
  Spaces = {one, two}
  Holds <- MCHolds
  SpaceHeaders = {one}
SPECIFICATION FairServiceSpec
INVARIANTS ServiceTypeOK HeaderHonoured OutcomesFounded
PROPERTY EveryRequestEnds
CHECK_DEADLOCK FALSE
