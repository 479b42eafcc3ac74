CONSTANTS
  name = name
  home = home
  away = away
  odd = odd
  read = read
  write = write
  Names = {name}
  Empty = Empty
  Requests = {r1}
  Routes <- MCRoutes
  Actions = {read, write}
  Spaces = {home, away, odd}
  Malformed = {odd}
  Presented <- MCPresented
  Markers = {"absent", "true", "other"}
  Standings <- MCStandings
  NoAction = NoAction
  BlankAction = BlankAction
  BlankSpace = BlankSpace
  None = None
SPECIFICATION FairSpec
INVARIANTS TypeOK PermittedAsAsked DeniedByServer ResolveAccounting
PROPERTIES EveryResolveSettles DecidesAtOnce
CHECK_DEADLOCK FALSE
