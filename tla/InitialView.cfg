SPECIFICATION Spec
CONSTANTS
  Default <- MCDefault
  ViewportProps <- MCViewportProps
  Views <- MCViews
  Queries <- MCQueries
INVARIANTS
  OneEntryAdded
  PlaceSurvivesReload
