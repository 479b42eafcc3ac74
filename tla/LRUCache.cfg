CONSTANTS
  short = short
  forever = forever
  Keys = {a, b, d}
  Values = {short, forever}
  Ttl <- MCTtl
  Callers = {c1, c2}
  NoEntry = NoEntry
  Miss = Miss
  NoSet = NoSet
  MaxSize = 2
  Horizon = 3
SYMMETRY Symmetric
SPECIFICATION Spec
INVARIANTS TypeOK Bounded
PROPERTIES WorkingSetKept KeepsContract
CHECK_DEADLOCK FALSE
