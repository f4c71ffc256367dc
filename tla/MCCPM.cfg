SPECIFICATION MCSpec
CONSTANTS
  None = None
  Node = {"a", "b", "c"}
  Declared <- ThreeActivities
  Calendars = {"5D", "7D"}
  Lattice <- TwoLattices
  ProjectCalendar = "5D"
  Inputs <- AllNetworks
INVARIANTS
  KahnInv
  RootsKeepDeclarationOrder
  CPMTypeOK
  CPMInv
  StartIsLeast
  FieldOutranksPlan
  ForwardPassIsLongestPath
  MissedCapIsNegativeFloat
  OverrideNeverLater
  LateFinishCapped
  TotalFloatIsExact
  FreeFloatCanBeSpent
  AlapKeepsPlainLinks
PROPERTIES
  AlapOnlyLater
  SortTerminates
  ImplementsTopologicalOrder
