\* One subscription whose node becomes unhealthy.
CONSTANTS
  NumPrimary = 1
  NumBackup = 1
  NumCl = 1
  MaxElLag = 0
  MaxClLag = 0
  MaxFailures = 1
  MaxHeight = 0
  FailureWrap = 2
  newHeads = newHeads
  s1 = s1
  s2 = s2
  RpcId <- MCRpcId
  Params <- MCParams
  SubId <- MCSubId
  UniqueIds = TRUE
  ReuseIds = FALSE
  HungWs = {}
  MaxRequests = 1
  MaxOut = 1
SPECIFICATION WSpec
INVARIANT EventsUseClientId
