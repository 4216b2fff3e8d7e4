SPECIFICATION FairSpec
CONSTANTS
  Procs = {p1, p2}
  Workers = {w1}
  Keys = {k1}
  Requests <- MCRequests
  Canonical <- MCCanonical
  Ids = {i1}
  Refusals <- MCRefusals
  Window = 1
  PurgeLimit = 1
  MaxClock = 2
INVARIANT OutcomeStored
PROPERTY OncePerWindow AnswersAgree CallsEnd
