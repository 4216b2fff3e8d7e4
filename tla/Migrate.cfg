SPECIFICATION FairSpec
CONSTANTS
  Versions = {1, 2, 3}
  Files <- MCFiles
  Version <- MCVersion
  Releases <- MCReleases
  None = None
  Kind <- MCKind
  Index <- MCIndex
  Malformed = {"garbled"}
  Blocking = {"drop"}
  Indexes = {"i", "j"}
  Found <- MCFound
  Runners = {a, b}
  MaxAttempts = 2
  MaxStarts = 4
INVARIANT RecordedHolds DoneIsReady
PROPERTY InOrderOnce ForeignKept RunsEnd
CHECK_DEADLOCK FALSE
