\* Two subscriptions of different kinds, asked for under the same request id,
\* the second after the first has been answered.
CONSTANTS
  NumPrimary = 1
  NumBackup = 1
  NumCl = 1
  MaxElLag = 0
  MaxClLag = 0
  MaxFailures = 1
  MaxHeight = 0
  FailureWrap = 2
  newHeads = newHeads
  logs = logs
  s1 = s1
  s2 = s2
  s3 = s3
  RpcId = {1}
  Params <- MCParams
  SubId <- MCSubId
  UniqueIds = TRUE
  ReuseIds = TRUE
  MaxRequests = 2
  MaxOut = 1
SPECIFICATION CSpec
INVARIANT EventsAreOfTheirSubscription
\* A connection that was refused or has closed does nothing more.
CHECK_DEADLOCK FALSE
