CONSTANTS
  secret = secret
  short = short
  collab = collab
  weak = weak
  modern = modern
  Issuers = {i1, i2}
  Conns = {c1}
  Users = {u}
  Docs = {d1, d2}
  Roles = {writer}
  Secrets = {secret, short}
  LongSecrets = {secret}
  Servers = {collab, weak, modern}
  SigKey <- MCSigKey
  SigAlg <- MCSigAlg
  IssuerKey = secret
  IssuerAlg = "HS256"
  TTLs <- MCTTLs
  DefaultTTL = 2
  Second = 2
  Exact = 4
  FirstEpoch = 3
  MaxEpoch = 5
  Horizon = 3
  None = None
SYMMETRY Symmetric
SPECIFICATION Spec
INVARIANTS RevocationReaches
CHECK_DEADLOCK FALSE
