CONSTANTS
  Nil = Nil
  ReportTimer = report_timer
  ExpireTimer = expire_timer
  SampleTimer = sample_timer
  Timers = {report_timer, expire_timer, sample_timer}
  HalfRange = 4
  MaxLate = 1
  ReportTicks = 2
  SampleTicks = 1
  SampleCount = 2
  RestTicks = 2
  Ahead = 1
  MaxSignals = 1
  Careless = {}
SPECIFICATION FairSpec
INVARIANTS
  TypeOK
  FirstTriggerWins
PROPERTIES
  TriggerNeedsSamples
  TriggerReported
  TimeoutTriggers
