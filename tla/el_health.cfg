\* One primary and one backup EL node, three failed checks to the verdict, an
\* allowed lag of 1 and heights that exceed it.
CONSTANTS
  NumPrimary = 1
  NumBackup = 1
  NumCl = 1
  MaxElLag = 1
  MaxClLag = 0
  MaxFailures = 3
  MaxHeight = 2
  FailureWrap = 5
  HungEl = {}
  HungCl = {}
SPECIFICATION HSpec
INVARIANTS TypeOK NothingStale ElOutageNeedsDeadLeader
PROPERTIES ElDebounced KeepsInterface
