SPECIFICATION FairSpec
CONSTANTS
  Requests = {1, 2, 3, 4}
  Res = {1, 2, 9}
  FirstRes <- MCFirstRes
  Venues = {"v", "w"}
  Keys = {"load", "admin", "new"}
  KeyOf <- MCKeyOf
  FirstKeys = {"load", "admin"}
  MaxToken = 1
  Failures = {"timeout", "internal"}
  MaxFaults = 1
  MaxIdle = 1
  None = None
  Limits <- MCLimits
  MinAbove = 1
  Tolerance = 1
  Steps <- MCSteps
  Target <- MCTarget
  Second = 1
  Plan <- MCPlan
  Venue = "v"
  LoadKey = "load"
  MaxInFlight = 2
  Deadline = 1
  MaxClock = 1
  Operator = 4
  OperatorCalls <- MCCalls
  Scenarios <- MCScenarios
  Seen <- MCSeen
INVARIANT RevokedRefused AnsweredAtExit RecordsTrue ReportTrue
PROPERTY RunEnds
CHECK_DEADLOCK FALSE
