\* Three connections over two nodes.
CONSTANTS
  NumPrimary = 1
  NumBackup = 1
  NumCl = 1
  MaxElLag = 0
  MaxClLag = 0
  MaxFailures = 1
  MaxHeight = 0
  FailureWrap = 2
  Conn = {c1, c2, c3}
SPECIFICATION MSpec
INVARIANTS MTypeOK ConnectionsCounted UpGaugeIsTrue MissingGaugeIsExplained
