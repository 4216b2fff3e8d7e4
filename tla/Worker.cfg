SPECIFICATION ProgramSpec
CONSTANTS
  Loops = {"sweeper", "retention"}
  Tables <- MCTables
  Envs <- MCEnvs
  DesignLimit = 1
  PoolMax = 2
  MaxDue = 2
  MaxFaults = 1
  Churners = {c1}
  MaxOps = 2
  MaxSeconds = 1
  SampleEvery = 1
  Budget = 0
  MaxClock = 1
  Mixers = {m1, m2}
  Holds = {1}
  Parties = {4}
  Capacities = {2, 4}
  Units = {u1, u2}
  Combos = {{u1, u2}}
  Starts = {0}
  Length = 2
  Cap = 1
  OverlapSet = 4
INVARIANT SamplesTell AnswersExpected ExpiryAttributed VerdictFounded
PROPERTY StopEnds Drains
CHECK_DEADLOCK FALSE
