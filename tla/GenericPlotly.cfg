CONSTANTS
  MaxPlots = 5
  Plots <- MCPlots
  Figures = {"f1"}
  Revisions = {}
  Handlers = {"h1"}
  None = None
  Given <- MCGiven
  Throwing = {}
  MaxUpdates = 1
SPECIFICATION GenericSpec
INVARIANTS OnlyTheLastRender
CHECK_DEADLOCK FALSE
