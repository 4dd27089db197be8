CONSTANTS
  None = None
  MaxShots = 4
  MaxCopies = 2
SPECIFICATION Spec
INVARIANTS LoadingIsParity ImageOfChoice
