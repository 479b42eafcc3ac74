CONSTANTS
  Sends = {s1}
  Secrets = {old, new}
  Clients <- MCClients
  MaxHops = 1
  None = None
SPECIFICATION FairSpec
INVARIANTS TypeOK TokenStays RejectedForCause
PROPERTIES EverySendReturns DeliversOnce
CHECK_DEADLOCK FALSE
