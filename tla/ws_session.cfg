\* One connection over two nodes; three client requests, two kinds of
\* subscription, and subscription ids that are never assigned twice.
CONSTANTS
  NumPrimary = 1
  NumBackup = 1
  NumCl = 1
  MaxElLag = 0
  MaxClLag = 0
  MaxFailures = 1
  MaxHeight = 0
  FailureWrap = 2
  newHeads = newHeads
  logs = logs
  s1 = s1
  s2 = s2
  s3 = s3
  RpcId <- MCRpcId
  Params <- MCParams
  SubId <- MCSubId
  UniqueIds = TRUE
  ReuseIds = FALSE
  MaxRequests = 3
  MaxOut = 1
SPECIFICATION GSpec
SYMMETRY Interchangeable
INVARIANTS
  CTypeOK TrackerMatchesClient NoSubscriptionForgotten EventsAreOfTheirSubscription
  GaugeFollowsTracker
PROPERTY ClosesAreExplained
\* A connection that was refused or has closed does nothing more.
CHECK_DEADLOCK FALSE
