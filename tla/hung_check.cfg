\* The primary EL node may accept a health check and never answer it.
CONSTANTS
  NumPrimary = 1
  NumBackup = 1
  NumCl = 1
  MaxElLag = 0
  MaxClLag = 0
  MaxFailures = 2
  MaxHeight = 1
  FailureWrap = 3
  HungEl = {1}
  HungCl = {}
SPECIFICATION FairSpec
PROPERTY MonitoringIsContinuous
