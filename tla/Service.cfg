SPECIFICATION Spec
CONSTANTS
  Cities <- MCCities
  Repeated <- MCRepeated
  OverviewCities <- MCOverviewCities
  CompareCities <- MCCompareCities
  Handlers <- MCHandlers
  Resources <- MCResources
  Settings <- MCSettings
  Parametrised <- MCParametrised
  MaxRequests = 2
INVARIANTS
  TogglesHold
  OwnEntry
  OutageIsSaid
  ForeignNotShown
  RowsAgree
  PartsDegrade
PROPERTY EveryRequestEnds
CHECK_DEADLOCK FALSE
