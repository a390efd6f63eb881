CONSTANTS
  step = step
  Nil = Nil
  Timers <- MCTimers
  StepTimer = step
  HalfRange = 5
  MaxLate = 1
  QueueSize = 2
  CountRange = 4
  MinStopInterval = 2
  Requests <- MCRequests
  Horizon = 3
  ResetAhead = 0
  MaxMoves = 3
  Careless = {}
SPECIFICATION FairSpec
INVARIANTS
  TypeOK
  ActiveIsArmed
  PositionIsAxis
PROPERTIES
  ImplementsStepPlan
  StepsSpaced
  MovesFinish
