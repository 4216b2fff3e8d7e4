SPECIFICATION Spec
CONSTANTS
  Venues = {"v", "w"}
  Rows <- MCRows
  Venue <- MCVenue
  Kind <- MCKind
  First <- MCFirst
  Commands <- MCCommands
  Writers = {p1, p2}
  Readers = {q1, q2}
  CacheMax = 1
  MaxVersion = 2
  None = None
SYMMETRY Symmetry
INVARIANT AnswersTrue CommandsKept
