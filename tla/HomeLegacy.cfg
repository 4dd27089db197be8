SPECIFICATION Spec
CONSTANTS
  Inline <- MCInline
  URLs <- MCURLs
  GeoURLs <- MCGeoURLs
  Files <- MCFiles
  GeoFiles <- MCGeoFiles
  Columns <- MCColumns
  Selections <- MCSelections
  Join <- MCJoin
  Hits <- MCHits
  PropsSet <- MCProps
  NoData = NoData
  Blank = Blank
  NoURL = NoURL
  BadURL = BadURL
  NoGeo = NoGeo
  NoColumn = NoColumn
  NoSelect = NoSelect
  AutoBatch = FALSE
  Silence = TRUE
  MaxEvents = 4
CHECK_DEADLOCK FALSE
INVARIANTS
  MaskOverDataAlerts
  LineNeedsLayer
PROPERTIES
  
  FallsBehindLoudly
  HostPartsLoudly
