CONSTANTS
  Plots = {p1}
  Figures = {"f1", "f2"}
  Revisions = {"r1"}
  Handlers = {"h1", "h2"}
  None = None
  Given <- MCGiven
  Throwing = {"init", "update", "error", "purge"}
  MaxUpdates = 3
SPECIFICATION FairSpec
INVARIANTS ListenersMatch NothingLeftBehind SettledShowsProps
PROPERTIES PurgeIsLast FigureReached
CHECK_DEADLOCK FALSE
