CONSTANTS
  Nil = Nil
  Timers = {fan, heater}
  Pins = {fan, heater}
  HalfRange = 6
  MaxLate = 1
  DefaultOn = {fan}
  Limited = {heater}
  MaxDuration = 2
  OnTicks = {0, 1, 4}
  Cycles = {0, 3}
  Ahead = 1
  Careless = {}
SPECIFICATION FairSpec
INVARIANTS
  TypeOK
  ShutdownHolds
  EndsInTime
PROPERTIES
  DutyKept
  PulsesGoOn
