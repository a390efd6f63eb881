CONSTANTS
  Nil = Nil
  Timers = {adc, pwm, valve, end}
  HalfRange = 3
  MaxLate = 1
  AdcTimer = adc
  PwmTimer = pwm
  Valve = valve
  EndTimer = end
  DriverTimer = end
  Raw = {1, 2}
  SampleCount = 2
  SampleTicks = 1
  RestTicks = 1
  MinValue = 0
  MaxValue = 2
  RangeCheckCount = 1
  SumRange = 4
  PwmValues = {0, 1}
  PwmDefault = 0
  MaxPwmDuration = 1
  EndSampleCount = 2
  EndSampleTicks = 1
  EndRestTicks = 1
  Threshold = 2
  Hysteresis = 1
  Distances = {1, 2, 5}
  Failed = Failed
  WordRange = 8
  PollRates = {1}
  Ahead = 1
  Careless = {}
  Configurations <- AdcAlone
SPECIFICATION FairSpec
PROPERTY
  ResumesSampling
