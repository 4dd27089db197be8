CONSTANTS
  Columns = {"accident_severity", "date"}
  Values = {v1, v2}
  Severity = "accident_severity"
  MaxObjects = 2
  MaxClicks = 1
SPECIFICATION Spec
SYMMETRY Symmetry
CONSTRAINT Few
INVARIANTS HoldersAgree MapFollowsSelection DoubleClickIgnored ShownIsSelected
CHECK_DEADLOCK FALSE
