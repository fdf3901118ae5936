\* Which node a connection ends up on: two nodes, no subscriptions.
CONSTANTS
  NumPrimary = 1
  NumBackup = 1
  NumCl = 1
  MaxElLag = 0
  MaxClLag = 0
  MaxFailures = 1
  MaxHeight = 0
  FailureWrap = 2
  newHeads = newHeads
  s1 = s1
  s2 = s2
  RpcId <- MCRpcId
  Params <- MCParams
  SubId <- MCSubId
  UniqueIds = FALSE
  ReuseIds = FALSE
  HungWs = {}
  MaxRequests = 0
  MaxOut = 1
SPECIFICATION WFairSpec
INVARIANT WTypeOK
PROPERTIES IsWsConnection SettlesOnHealthyNode CloseEndsConnection
