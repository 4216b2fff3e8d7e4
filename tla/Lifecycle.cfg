SPECIFICATION Spec
CONSTANTS
  Procs = {p1, p2}
  Res = {1, 2}
  Tokens = {t1, t2}
  Ttl = 1
  MaxClock = 1
  MaxId = 4
  Commands <- MCCommands
SYMMETRY Symmetry
INVARIANT AuditReplays EventsFollow ReceiptTrue
PROPERTY VersionRespected TokenRespected
