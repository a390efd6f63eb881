CONSTANTS
  Timers = {t1, t2, t3}
  Stoppable = {t1}
  Nil = Nil
  HalfRange = 5
  TimerPastThreshold = 1
  MaxPast = 1
  Horizon = 2
  MaxLate = 2
  HardwareClock = FALSE
SPECIFICATION FairSpec
PROPERTIES
  DueTimerRuns
  DispatchEnds
