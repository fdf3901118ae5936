\* A status request at a time beside a monitor none of whose checks hangs.
CONSTANTS
  NumPrimary = 1
  NumBackup = 1
  NumCl = 1
  MaxElLag = 0
  MaxClLag = 0
  MaxFailures = 1
  MaxHeight = 1
  FailureWrap = 2
  HungEl = {}
  HungCl = {}
SPECIFICATION SFairSpec
PROPERTIES HeadsExplainLags FlagExplainsNodes StatusAnswered
