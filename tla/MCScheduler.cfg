CONSTANTS
  Timers = {t1, t2, t3}
  Stoppable = {t1}
  Nil = Nil
  HalfRange = 6
  TimerPastThreshold = 1
  MaxPast = 1
  Horizon = 3
  MaxLate = 2
  HardwareClock = TRUE
SPECIFICATION Spec
SYMMETRY TimerSymmetry
INVARIANTS
  TypeOK
  ListSound
  Sorted
PROPERTIES
  ImplementsTimerQueue
