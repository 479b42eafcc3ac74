CONSTANTS
  name = name
  s1 = s1
  s2 = s2
  both = both
  one = one
  plain = plain
  old = old
  bot = bot
  Calls = {r1, r2}
  Names = {name}
  Empty = Empty
  Accounts <- MCAccounts
  Grants = {both, one, plain, old, bot}
  Window <- MCWindow
  LongAgo <- MCLongAgo
  InitialAccounts <- MCInitialAccounts
  NoVerdict = NoVerdict
  None = None
  Routes <- MCRoutes
  Registered = {"session", "bot"}
  Presented <- MCPresented
  SpaceHeaders = {None, s2}
  Spaces = {s1, s2}
  Holds <- MCHolds
  ContextOf <- MCContextOf
  Changing <- MCChanging
  Horizon = 1
SYMMETRY Symmetric
SPECIFICATION Spec
INVARIANTS TypeOK SpaceHeld OwnSpace KeptPristine AnswersTrue
PROPERTIES ActsOnValues
CHECK_DEADLOCK FALSE
