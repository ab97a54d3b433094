SPECIFICATION FairSpec
CONSTANTS
  NCnet = 12
  NNet = 3
  max_passes = 4
  Problems <- MCProblems
INVARIANTS
  TypeOK
  DemandAccounting
  RouteTrees
  RoutedNetsConnected
  SuccessIsLegal
  Asserts
PROPERTIES
  NearestTargetFirst
  ImplementsRouting
  RouteTerminates
