CONSTANTS
  Years <- YearsMC
  Features <- FeaturesMC
  Limit = 2
  Few = 2
  MaxFeatures = 5
SPECIFICATION StatsSpec
INVARIANTS CountsAddUp PointsMatch DomainColours LimitsShow
CHECK_DEADLOCK FALSE
