\* One EL request in the window between the EL pass and the failover flag.
CONSTANTS
  NumPrimary = 1
  NumBackup = 1
  NumCl = 1
  MaxElLag = 0
  MaxClLag = 0
  MaxFailures = 1
  MaxHeight = 0
  FailureWrap = 2
  HungEl = {}
  HungCl = {}
  ElRequest = {e1}
  ClRequest = {}
SPECIFICATION PSpec
PROPERTY HealthyBackupServes
