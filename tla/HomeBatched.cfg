SPECIFICATION FairSpec
CONSTANTS
  Inline <- MCInline
  URLs <- MCURLs
  GeoURLs <- MCGeoURLs
  Files <- MCFiles
  GeoFiles <- MCGeoFiles
  Columns <- MCColumns
  Selections <- MCSelections
  Join <- MCJoin
  Hits <- MCHits
  PropsSet <- MCProps
  NoData = NoData
  Blank = Blank
  NoURL = NoURL
  BadURL = BadURL
  NoGeo = NoGeo
  NoColumn = NoColumn
  NoSelect = NoSelect
  AutoBatch = TRUE
  Silence = FALSE
  MaxEvents = 3
CHECK_DEADLOCK FALSE
PROPERTIES
  LoadEnds
  HeldLinePinsMap
