CONSTANTS
  NumParams = 1
  Values = {off, on}
  Default = off
  Pollers = {poll}
  Commanders = {c1}
  MaxRetries = 1
  UnavailableAfter = 2
  FailureCap = 2
  Identify = Identify
  NoValue = NoValue
  off = off
  on = on
  Interval = 1
  Jobs <- TurnOn
SPECIFICATION FairCoordinatorSpec
PROPERTY KnobIsShown
