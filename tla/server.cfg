\* One EL and one CL request under the fairness of the runtime; clients that
\* finish sending and reading, nodes that answer or fail their checks.
CONSTANTS
  NumPrimary = 1
  NumBackup = 1
  NumCl = 1
  MaxElLag = 0
  MaxClLag = 0
  MaxFailures = 1
  MaxHeight = 0
  FailureWrap = 2
  HungEl = {}
  HungCl = {}
  ElRequest = {e1}
  ClRequest = {c1}
  Stalled = {}
SPECIFICATION ServerFairSpec
INVARIANT PTypeOK
PROPERTIES RefusalIsExplained FailoverTakesEffect
PROPERTIES RequestsAreAnswered ShutdownCompletes MonitorNeverStarves
\* The process that has exited does nothing more.
CHECK_DEADLOCK FALSE
