CONSTANTS
  NumParams = 1
  Values = {off, on}
  Default = off
  Pollers = {poll}
  Commanders = {c1, c2}
  MaxRetries = 2
  UnavailableAfter = 2
  FailureCap = 2
  Identify = Identify
  NoValue = NoValue
  off = off
  on = on
  Interval = 1
  Jobs <- OnOrIdentify
SPECIFICATION FairCoordinatorSpec
INVARIANTS
  CoordinatorTypeOK NeverInterleave SilentIsUnavailable NeverFabricated
PROPERTIES
  PublishesFresh CallsEnd NoRefreshOnClosedSocket ShownDebounced GoneIsShown Converges
