\* Two CL nodes that may answer their slot while refusing health; one EL node;
\* no check hangs.
CONSTANTS
  NumPrimary = 1
  NumBackup = 0
  NumCl = 2
  MaxElLag = 0
  MaxClLag = 1
  MaxFailures = 2
  MaxHeight = 2
  FailureWrap = 3
  HungEl = {}
  HungCl = {}
SPECIFICATION HFairSpec
INVARIANTS ClOutageNeedsSickLeader
PROPERTIES ClDebounced DeadNodeIsDropped RecoveredNodeServes
