SPECIFICATION MCSpec
CONSTANTS
  None = None
  Node = {"a", "b", "c", "d"}
  Declared <- FourActivities
  IdOrder <- FourActivities
  Requests <- WorkRequests
  MaxAttempts = 12
  Calendars = {"5D", "7D"}
  Lattice <- TwoLattices
  ProjectCalendar = "5D"
  Cases <- WorkCases
  Scenes = {"health"}
  Asked <- AllStudies
  Bare = Bare
  Unreadable = Unreadable
  MaxLines = 2
  Assessed <- SoundNetworks
  Reviews <- WhatCallersBring
  HighFloat = 3
  LongDuration = 2
  ProbeDays = 5
  Grain = 60
  MonthLength = 10
  YearLength = 2
  DaysOfWeek = 7
INVARIANT
  SoundNetworkPasses
