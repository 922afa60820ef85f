SPECIFICATION Spec
CONSTANTS
  NA = NA
  Refused = Refused
  Unsold = Unsold
  i1 = i1
  i2 = i2
  i3 = i3
  i4 = i4
  MinCount = 2
PROPERTIES
  ImputationIsTraceable
  SeriesHoldTogether
  AggregatesAddUp
  SuppressionExact
  LinksLoseNothing
  PaymentsFollowIndex
  ProjectionsHoldUp
  LevelIsRecovered
  RevisionsAddUp
  ScreensAreFair
  WindowsHoldTogether
  FormulaeReverse
  GapIsTheSeason
  MiddleIsStable
