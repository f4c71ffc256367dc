SPECIFICATION MCSpec
CONSTANTS
  None = None
  Node = {"a", "b", "c"}
  Declared <- ThreeActivities
  Calendars = {"5D", "7D"}
  Lattice <- TwoLattices
  ProjectCalendar = "5D"
  Inputs <- AlapRedrawnNetworks
INVARIANT
  AlapHoldsFinish
