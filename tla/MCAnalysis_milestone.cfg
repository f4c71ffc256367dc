SPECIFICATION MCSpec
CONSTANTS
  None = None
  Node = {"a", "b", "c", "d"}
  Declared <- FourActivities
  IdOrder <- FourActivities
  Requests <- MilestoneRequests
  MaxAttempts = 12
  Calendars = {"5D", "7D"}
  Lattice <- TwoLattices
  ProjectCalendar = "5D"
  Cases <- MilestoneCases
  Scenes = {"levelling"}
  Asked <- AllStudies
  Bare = Bare
  Unreadable = Unreadable
  MaxLines = 2
  Assessed <- AssessedNetworks
  Reviews <- WhatCallersBring
  HighFloat = 3
  LongDuration = 2
  ProbeDays = 5
  Grain = 60
  MonthLength = 10
  YearLength = 2
  DaysOfWeek = 7
INVARIANTS
  FinishNeverMoves
