-------------------------- MODULE OperationsProofs --------------------------
(***************************************************************************)
(* Proofs about the two components of operation: Configuration, which the  *)
(* administrators' commands change, and Programs, which run the sweeper's  *)
(* loop.  They share no state.                                             *)
(*                                                                         *)
(* Configuration, for any venues, rows, commands, writers and readers.     *)
(* Two invariants carry the properties.  For the readers: among the        *)
(* committed configuration, the snapshots and the cache, a version of a    *)
(* venue has one content.  For the writers: who has read a row that it     *)
(* will write back holds the venue lock, and only plain SQL has changed    *)
(* the row since.                                                          *)
(*                                                                         *)
(* Programs, for any loops, limits, pools, workers and intervals.  No loop *)
(* is in a batch without one of the connections that are out.  In a mixed  *)
(* run the due rows are the dead holds, and what the sweeper named is what *)
(* the audit log says it expired, what occupies a unit does not overlap,   *)
(* and the live reservations fit.  In a churn run the answers are those in *)
(* the samples and in the buffers: a sum over a sequence, for which the    *)
(* lemmas on folds are proved by induction on its length.                  *)
(***************************************************************************)
EXTENDS Configuration, Programs, TLAPS, FiniteSetTheorems, SequenceTheorems


\* A version of a venue, as somebody has it.
Current(v) == [venue |-> v, version |-> version[v], content |-> Content(v, rows)]
Snapshot(p) == [venue |-> reader[p].venue, version |-> reader[p].version,
                content |-> Content(reader[p].venue, reader[p].rows)]
Entry(v) == [venue |-> v, version |-> cache[v].version, content |-> cache[v].content]

Opened == {p \in Readers : ~Reading(p, "idle")}
Known ==
  {Current(v) : v \in Venues} \cup {Snapshot(p) : p \in Opened} \cup {Entry(v) : v \in DOMAIN cache}

\* No version is ahead of its venue's, and each has one content.
Faithful ==
  /\ \A x \in Known : x.venue \in Venues /\ x.version \in Nat /\ x.version <= version[x.venue]
  /\ \A x, y \in Known : x.venue = y.venue /\ x.version = y.version => x.content = y.content

Relations ==
  /\ DOMAIN rows = Rows /\ DOMAIN meant = Rows
  /\ version \in [Venues -> Nat]
  /\ DOMAIN lock = Venues
  /\ DOMAIN tx = Writers /\ DOMAIN reader = Readers
ReaderShape ==
  \A p \in Opened : {"pc", "venue", "version", "rows"} \subseteq DOMAIN reader[p]
                   /\ reader[p].pc \in {"asked", "loading", "answered"}

ReadInv == Relations /\ ReaderShape /\ Faithful /\ AnswersTrue

-----------------------------------------------------------------------------
(* Readers. *)

\* What is known later was known before, or is of a newer version.
LEMMA KnownKeeps ==
  ASSUME Faithful, UNCHANGED version, Known' \subseteq Known
  PROVE  Faithful'
BY DEF Faithful

\* A commit makes one venue's version newer than all that is known of it.
LEMMA CommitKnown ==
  ASSUME ReadInv, NEW w \in Writers, Commit(w), VenueOf(w) \in Venues, RowOf(w) \in Rows
  PROVE  Faithful'
<1>0. PICK v \in Venues, r \in Rows : v = VenueOf(w) /\ r = RowOf(w)
  OBVIOUS
<1>1. /\ v = Venue[r] /\ Kind[r] \in {"unit", "combo", "schedule", "blackout"}
      /\ \A q \in Rows : Venue[q] \in Venues
  BY <1>0, ConfigurationAssumption DEF VenueOf
<1>2. version' = [version EXCEPT ![v] = @ + 1] /\ rows' = [rows EXCEPT ![r] = tx[w].new]
  BY <1>0, <1>1 DEF Commit, Bumps
<1>3. UNCHANGED <<reader, cache>>
  BY DEF Commit, reads
<1>4. /\ version'[v] = version[v] + 1 /\ \A u \in Venues \ {v} : version'[u] = version[u]
      /\ version \in [Venues -> Nat]
  BY <1>2 DEF ReadInv, Relations
<1>5. ASSUME NEW u \in Venues \ {v} PROVE Current(u)' = Current(u)
  <2>1. \A q \in Cached : Venue[q] = u => rows'[q] = rows[q]
    BY <1>1, <1>2 DEF Cached, ReadInv, Relations
  <2>2. Content(u, rows)' = Content(u, rows)
    BY <2>1 DEF Content
  <2> QED BY <1>4, <2>2 DEF Current
<1>6. \A p \in Readers : Snapshot(p)' = Snapshot(p)
  BY <1>3 DEF Snapshot, Content
<1>7. \A u \in DOMAIN cache : Entry(u)' = Entry(u)
  BY <1>3 DEF Entry
<1>8. Opened' = Opened
  BY <1>3 DEF Opened, Reading
<1>9. Known' \subseteq Known \cup {Current(v)'}
  BY <1>3, <1>5, <1>6, <1>7, <1>8 DEF Known, Opened
<1>10. Current(v)'.venue = v /\ Current(v)'.version = version[v] + 1
  BY <1>4 DEF Current
<1>11. \A x \in Known : x.venue = v => x.version < version[v] + 1
  BY <1>4 DEF ReadInv, Faithful
<1>12. ASSUME NEW x \in Known'
       PROVE  x.venue \in Venues /\ x.version \in Nat /\ x.version <= version'[x.venue]
  BY <1>4, <1>9, <1>10 DEF ReadInv, Faithful
<1>13. ASSUME NEW x \in Known', NEW y \in Known', x.venue = y.venue, x.version = y.version
       PROVE  x.content = y.content
  <2>1. CASE x \in Known /\ y \in Known
    BY <1>13, <2>1 DEF ReadInv, Faithful
  <2>2. CASE x = Current(v)' /\ y \in Known
    BY <1>4, <1>10, <1>11, <1>13, <2>2 DEF ReadInv, Faithful
  <2>3. CASE y = Current(v)' /\ x \in Known
    BY <1>4, <1>10, <1>11, <1>13, <2>3 DEF ReadInv, Faithful
  <2> QED BY <1>9, <2>1, <2>2, <2>3
<1> QED BY <1>12, <1>13 DEF Faithful

\* A reader that opens, or asks for a list, takes what is committed.
LEMMA SnapshotKnown ==
  ASSUME ReadInv, NEW p \in Readers, NEW v \in Venues, UNCHANGED <<rows, version, cache>>,
         \A q \in Readers \ {p} : reader'[q] = reader[q], DOMAIN reader' = Readers,
         {"pc", "venue", "version", "rows"} \subseteq DOMAIN reader'[p],
         reader'[p].pc \in {"asked", "loading", "answered"},
         \/ reader'[p].venue = v /\ reader'[p].version = version[v] /\ reader'[p].rows = rows
         \/ /\ p \in Opened /\ reader'[p].venue = reader[p].venue
            /\ reader'[p].version = reader[p].version /\ reader'[p].rows = reader[p].rows
  PROVE  ReaderShape' /\ Faithful'
<1>1. \A q \in Readers \ {p} : Snapshot(q)' = Snapshot(q)
  BY DEF Snapshot, Content
<1>2. Snapshot(p)' \in Known
  <2>1. Snapshot(p)' = Current(v) \/ (p \in Opened /\ Snapshot(p)' = Snapshot(p))
    BY DEF Snapshot, Current, Content
  <2> QED BY <2>1 DEF Known
<1>3. /\ \A u \in Venues : Current(u)' = Current(u)
      /\ \A u \in DOMAIN cache : Entry(u)' = Entry(u)
  BY DEF Current, Entry, Content
<1>4. Opened' \subseteq Opened \cup {p}
  BY DEF Opened, Reading
<1>5. Known' \subseteq Known
  BY <1>1, <1>2, <1>3, <1>4 DEF Known, Opened
<1>6. ReaderShape'
  BY <1>4 DEF ReadInv, ReaderShape, Opened
<1> QED BY <1>5, <1>6, KnownKeeps DEF ReadInv

\* The readers' steps.
LEMMA ReadersKeep ==
  ASSUME ReadInv, NEW p \in Readers,
         Open(p) \/ Get(p) \/ Miss(p) \/ Load(p) \/ List(p) \/ ReadFails(p)
  PROVE  ReadInv'
<1>1. UNCHANGED <<rows, version, lock, tx, meant>> /\ DOMAIN reader' = Readers
  BY DEF Open, Get, Miss, Load, List, ReadFails, Answer, writing, ReadInv, Relations
<1>2. Relations'
  BY <1>1 DEF ReadInv, Relations
<1>3. \A q \in Readers \ {p} : reader'[q] = reader[q]
  BY DEF Open, Get, Miss, Load, List, ReadFails, Answer, ReadInv, Relations
<1>4. \A q \in Readers \ {p} : Reading(q, "answered")' =>
        reader'[q].got = Content(reader[q].venue, reader[q].rows)
  BY <1>3 DEF Reading, ReadInv, AnswersTrue
<1>5. CASE Open(p) \/ List(p)
  <2>1. PICK v \in Venues : /\ reader'[p].venue = v /\ reader'[p].version = version[v]
                            /\ reader'[p].rows = rows
                            /\ reader'[p].pc \in {"asked", "answered"}
                            /\ {"pc", "venue", "version", "rows"} \subseteq DOMAIN reader'[p]
                            /\ reader'[p].pc = "answered" => reader'[p].got = Content(v, rows)
    BY <1>5 DEF Open, List, ReadInv, Relations
  <2>2. ReaderShape' /\ Faithful'
    BY <1>1, <1>3, <1>5, <2>1, SnapshotKnown DEF Open, List
  <2>3. AnswersTrue'
    BY <1>3, <1>4, <2>1 DEF AnswersTrue, Reading, Content
  <2> QED BY <1>2, <2>2, <2>3 DEF ReadInv
<1>6. CASE Miss(p)
  <2>0. p \in Opened /\ Snapshot(p) \in Known
    BY <1>6 DEF Miss, Reading, Opened, Known
  <2>1. /\ p \in Opened /\ {"pc", "venue", "version", "rows"} \subseteq DOMAIN reader[p]
        /\ reader[p].venue \in Venues
    BY <2>0 DEF ReadInv, ReaderShape, Faithful, Snapshot
  <2>2. /\ reader'[p].pc = "loading" /\ reader'[p].venue = reader[p].venue
        /\ reader'[p].version = reader[p].version /\ reader'[p].rows = reader[p].rows
        /\ {"pc", "venue", "version", "rows"} \subseteq DOMAIN reader'[p]
    BY <1>6, <2>1 DEF Miss, ReadInv, Relations
  <2>3. ReaderShape' /\ Faithful'
    BY <1>1, <1>3, <1>6, <2>1, <2>2, SnapshotKnown DEF Miss
  <2>4. AnswersTrue'
    BY <1>3, <1>4, <2>2 DEF AnswersTrue, Reading, Content
  <2> QED BY <1>2, <2>3, <2>4 DEF ReadInv
<1>7. CASE Get(p)
  <2>1. /\ p \in Opened /\ Snapshot(p) \in Known /\ reader[p].venue \in Venues /\ Hit(p)
    BY <1>7 DEF Get, Reading, Opened, ReadInv, Faithful, Known, Snapshot
  <2>2. Entry(reader[p].venue) \in Known
    BY <2>1 DEF Hit, Known
  <2>3. cache[reader[p].venue].content = Content(reader[p].venue, reader[p].rows)
    BY <2>1, <2>2 DEF Hit, Entry, Snapshot, ReadInv, Faithful
  <2>4. /\ reader'[p].pc = "answered" /\ reader'[p].venue = reader[p].venue
        /\ reader'[p].version = reader[p].version /\ reader'[p].rows = reader[p].rows
        /\ {"pc", "venue", "version", "rows"} \subseteq DOMAIN reader'[p]
        /\ reader'[p].got = Content(reader[p].venue, reader[p].rows)
    BY <1>7, <2>3 DEF Get, Answer, ReadInv, Relations
  <2>5. ReaderShape' /\ Faithful'
    BY <1>1, <1>3, <1>7, <2>1, <2>4, SnapshotKnown DEF Get
  <2>6. AnswersTrue'
    BY <1>3, <1>4, <2>4 DEF AnswersTrue, Reading, Content
  <2> QED BY <1>2, <2>5, <2>6 DEF ReadInv
<1>8. CASE Load(p)
  <2>1. /\ p \in Opened /\ Snapshot(p) \in Known /\ reader[p].venue \in Venues
    BY <1>8 DEF Load, Reading, Opened, ReadInv, Faithful, Known, Snapshot
  <2>2. /\ reader'[p].pc = "answered" /\ reader'[p].venue = reader[p].venue
        /\ reader'[p].version = reader[p].version /\ reader'[p].rows = reader[p].rows
        /\ {"pc", "venue", "version", "rows"} \subseteq DOMAIN reader'[p]
        /\ reader'[p].got = Content(reader[p].venue, reader[p].rows)
    BY <1>8 DEF Load, Answer, Loaded, ReadInv, Relations
  <2>3. /\ DOMAIN cache' \subseteq DOMAIN cache \cup {reader[p].venue}
        /\ \A u \in DOMAIN cache' :
             cache'[u] = IF u = reader[p].venue
                         THEN [version |-> reader[p].version,
                               content |-> Content(reader[p].venue, reader[p].rows)] ELSE cache[u]
    BY <1>8 DEF Load, Loaded
  <2>4. \A u \in DOMAIN cache' : Entry(u)' \in Known
    BY <2>1, <2>3 DEF Entry, Snapshot, Known
  <2>5. /\ Snapshot(p)' = Snapshot(p) /\ \A q \in Readers \ {p} : Snapshot(q)' = Snapshot(q)
        /\ \A u \in Venues : Current(u)' = Current(u)
    BY <1>1, <1>3, <2>2 DEF Snapshot, Current, Content
  <2>6. Opened' \subseteq Opened
    BY <1>3, <2>1 DEF Opened, Reading
  <2>7. Known' \subseteq Known
    BY <2>1, <2>4, <2>5, <2>6 DEF Known, Opened
  <2>8. ReaderShape'
    BY <1>3, <2>2, <2>6 DEF ReadInv, ReaderShape, Opened
  <2>9. AnswersTrue'
    BY <1>3, <1>4, <2>2 DEF AnswersTrue, Reading, Content
  <2> QED BY <1>1, <1>2, <2>7, <2>8, <2>9, KnownKeeps DEF ReadInv
<1>9. CASE ReadFails(p)
  <2>1. reader'[p].pc = "idle" /\ UNCHANGED cache
    BY <1>9 DEF ReadFails, Idle, ReadInv, Relations
  <2>2. Opened' = Opened \ {p}
    BY <1>3, <2>1 DEF Opened, Reading
  <2>3. /\ \A q \in Readers \ {p} : Snapshot(q)' = Snapshot(q)
        /\ \A u \in Venues : Current(u)' = Current(u)
        /\ \A u \in DOMAIN cache : Entry(u)' = Entry(u)
    BY <1>1, <1>3, <2>1 DEF Snapshot, Current, Entry, Content
  <2>4. Known' \subseteq Known
    BY <2>1, <2>2, <2>3 DEF Known, Opened
  <2>5. ReaderShape'
    BY <1>3, <2>2 DEF ReadInv, ReaderShape, Opened
  <2>6. AnswersTrue'
    BY <1>3, <1>4, <2>1 DEF AnswersTrue, Reading, Content
  <2> QED BY <1>1, <1>2, <2>4, <2>5, <2>6, KnownKeeps DEF ReadInv
<1> QED BY <1>5, <1>6, <1>7, <1>8, <1>9

-----------------------------------------------------------------------------
(* Writers. *)

\* A command of the repository reads what plain SQL may have changed since: outside
\* these fields, and in every field of a service period, two rows are the same.
Agree(r, a, b) ==
  IF Kind[r] = "schedule" THEN a = b
  ELSE DOMAIN a = DOMAIN b /\ \A f \in DOMAIN a \ PlainFields(r) : a[f] = b[f]

\* Of each writer: its record; who has passed the venue lock holds it; what it has
\* read, and what it will write, agree with what was asked for.
WriterShape(w) ==
  ~At(w, "idle") =>
    /\ DOMAIN tx[w] = {"pc", "cmd", "cur", "new"} /\ tx[w].cmd \in Commands
    /\ tx[w].pc \in {"lock", "read", "write", "commit"}
Passed(w) == (At(w, "read") \/ At(w, "write") \/ At(w, "commit")) /\ tx[w].cmd.kind # "plain"
LockHeld(w) == Passed(w) => lock[VenueOf(w)] = w
ReadAgrees(w) ==
  At(w, "write") /\ ReadsFirst(tx[w].cmd) => Agree(RowOf(w), tx[w].cur, meant[RowOf(w)])
WrittenAgrees(w) ==
  At(w, "commit") => Agree(RowOf(w), tx[w].new, Apply(tx[w].cmd, meant[RowOf(w)]))
WriterInv(w) == WriterShape(w) /\ LockHeld(w) /\ ReadAgrees(w) /\ WrittenAgrees(w)

RowsAgree == \A r \in Rows : Agree(r, rows[r], meant[r])
OneUncommitted ==
  \A w, q \in Writers : At(w, "commit") /\ At(q, "commit") /\ VenueOf(w) = VenueOf(q) => w = q

WriteInv == RowsAgree /\ OneUncommitted /\ \A w \in Writers : WriterInv(w)

\* The same command keeps two rows that agree in agreement.
LEMMA ApplyAgrees ==
  ASSUME NEW c \in Commands, NEW a, NEW b, Agree(c.row, a, b)
  PROVE  Agree(c.row, Apply(c, a), Apply(c, b))
<1>1. CASE Kind[c.row] = "schedule"
  BY <1>1 DEF Agree
<1>2. CASE Kind[c.row] # "schedule" /\ c.kind = "create"
  BY <1>2 DEF Agree, Apply, Derived
<1>3. CASE Kind[c.row] # "schedule" /\ c.kind # "create"
  <2>1. Apply(c, a) = Set(a, c.set) /\ Apply(c, b) = Set(b, c.set)
    BY <1>3 DEF Apply, Derived
  <2>2. DOMAIN a = DOMAIN b /\ \A f \in DOMAIN a \ PlainFields(c.row) : a[f] = b[f]
    BY <1>3 DEF Agree
  <2>3. /\ DOMAIN Set(a, c.set) = DOMAIN Set(b, c.set)
        /\ \A f \in DOMAIN Set(a, c.set) \ PlainFields(c.row) : Set(a, c.set)[f] = Set(b, c.set)[f]
    BY <2>2 DEF Set
  <2> QED BY <1>3, <2>1, <2>3 DEF Agree
<1> QED BY <1>1, <1>2, <1>3

\* Plain SQL leaves the fields of agreement alone.
LEMMA PlainAgrees ==
  ASSUME NEW c \in Commands, c.kind = "plain", Kind[c.row] # "schedule",
         NEW a, NEW b, Agree(c.row, a, b)
  PROVE  Agree(c.row, a, Apply(c, b))
<1>1. Apply(c, b) = Set(b, c.set)
  BY DEF Apply, Derived
<1>2. DOMAIN c.set \subseteq PlainFields(c.row)
  BY DEF PlainFields
<1>3. DOMAIN a = DOMAIN b /\ \A f \in DOMAIN a \ PlainFields(c.row) : a[f] = b[f]
  BY DEF Agree
<1>4. /\ DOMAIN Set(b, c.set) = DOMAIN b
      /\ \A f \in DOMAIN b \ PlainFields(c.row) : Set(b, c.set)[f] = b[f]
  BY <1>2 DEF Set
<1> QED BY <1>1, <1>3, <1>4 DEF Agree

\* A step of w that commits nothing.
LEMMA QuietWriter ==
  ASSUME ReadInv, UNCHANGED <<rows, version, reader, cache>>,
         DOMAIN lock' = Venues, DOMAIN tx' = Writers, DOMAIN meant' = Rows
  PROVE  ReadInv'
<1>1. /\ \A v \in Venues : Current(v)' = Current(v)
      /\ \A p \in Readers : Snapshot(p)' = Snapshot(p)
      /\ \A v \in DOMAIN cache : Entry(v)' = Entry(v)
      /\ Opened' = Opened
  BY DEF Current, Snapshot, Entry, Opened, Content, Reading
<1>2. Known' \subseteq Known
  BY <1>1 DEF Known, Opened
<1>3. Relations' /\ ReaderShape'
  BY <1>1 DEF ReadInv, Relations, ReaderShape
<1>4. AnswersTrue'
  BY DEF ReadInv, AnswersTrue, Reading, Content
<1> QED BY <1>2, <1>3, <1>4, KnownKeeps DEF ReadInv

\* A step of another writer that commits nothing.
LEMMA OthersKeep ==
  ASSUME WriteInv, NEW q \in Writers, tx'[q] = tx[q], UNCHANGED <<rows, meant>>,
         \A v \in Venues : lock[v] = q => lock'[v] = q
  PROVE  WriterInv(q)'
<1>1. WriterInv(q)
  BY DEF WriteInv
<1>2. At(q, "idle")' = At(q, "idle") /\ RowOf(q)' = RowOf(q) /\ VenueOf(q)' = VenueOf(q)
      /\ Passed(q)' = Passed(q)
  BY DEF At, RowOf, VenueOf, Passed
<1>3. WriterShape(q)'
  BY <1>1 DEF WriterInv, WriterShape, At
<1>4. ReadAgrees(q)'
  BY <1>1, <1>2 DEF WriterInv, ReadAgrees, At, Agree
<1>5. WrittenAgrees(q)'
  BY <1>1, <1>2 DEF WriterInv, WrittenAgrees, At, Agree
<1>6. Passed(q) => VenueOf(q) \in Venues
  BY <1>1, ConfigurationAssumption DEF WriterInv, WriterShape, Passed, At, RowOf, VenueOf
<1>7. LockHeld(q)'
  BY <1>1, <1>2, <1>6 DEF WriterInv, LockHeld
<1> QED BY <1>3, <1>4, <1>5, <1>7 DEF WriterInv

\* A writer that begins, locks, reads, writes or gives up.
LEMMA WritersKeep ==
  ASSUME ReadInv, WriteInv, NEW w \in Writers,
         Begin(w) \/ Lock(w) \/ Read(w) \/ Write(w) \/ Abort(w)
  PROVE  ReadInv' /\ WriteInv'
<1>1. UNCHANGED <<rows, version, reader, cache, meant>>
  BY DEF Begin, Lock, Read, Write, Abort, reads
<1>2. /\ DOMAIN lock' = Venues /\ DOMAIN tx' = Writers
      /\ \A q \in Writers \ {w} : tx'[q] = tx[q]
  BY DEF Begin, Lock, Read, Write, Abort, Unlock, Goto, ReadInv, Relations
<1>3. ReadInv'
  BY <1>1, <1>2, QuietWriter DEF ReadInv, Relations
<1>4. RowsAgree'
  BY <1>1 DEF WriteInv, RowsAgree, Agree
<1>5. ASSUME NEW q \in Writers \ {w} PROVE WriterInv(q)'
  <2>1. \A v \in Venues : lock[v] = q => lock'[v] = q
    BY ConfigurationAssumption DEF Begin, Lock, Read, Write, Abort, Unlock, ReadInv, Relations
  <2> QED BY <1>1, <1>2, <2>1, OthersKeep
<1>6. WriterInv(w)
  BY DEF WriteInv
<1>7. CASE Begin(w)
  <2>1. PICK c \in Commands :
          tx'[w] = [pc |-> IF c.kind = "plain" THEN "write" ELSE "lock", cmd |-> c,
                    cur |-> Absent, new |-> Absent]
    BY <1>7 DEF Begin, ReadInv, Relations
  <2>2. WriterInv(w)'
    BY <2>1 DEF WriterInv, WriterShape, LockHeld, Passed, ReadAgrees, ReadsFirst, WrittenAgrees, At
  <2>3. OneUncommitted'
    BY <1>2, <2>1 DEF WriteInv, OneUncommitted, At, VenueOf, RowOf
  <2> QED BY <1>3, <1>4, <1>5, <2>2, <2>3 DEF WriteInv
<1>8. CASE Lock(w)
  <2>1. /\ tx'[w].pc = IF ReadsFirst(tx[w].cmd) THEN "read" ELSE "write"
        /\ tx'[w].cmd = tx[w].cmd /\ DOMAIN tx'[w] = DOMAIN tx[w] /\ tx[w].cmd \in Commands
        /\ DOMAIN tx[w] = {"pc", "cmd", "cur", "new"}
    BY <1>6, <1>8 DEF Lock, Goto, At, WriterInv, WriterShape, ReadInv, Relations
  <2>2. VenueOf(w) \in Venues /\ VenueOf(w)' = VenueOf(w)
    BY <2>1, ConfigurationAssumption DEF VenueOf, RowOf
  <2>3. lock'[VenueOf(w)] = w
    BY <1>8, <2>2 DEF Lock, ReadInv, Relations
  <2>4. WriterInv(w)'
    BY <2>1, <2>2, <2>3 DEF WriterInv, WriterShape, LockHeld, Passed, ReadAgrees, WrittenAgrees, At
  <2>5. OneUncommitted'
    BY <1>2, <2>1 DEF WriteInv, OneUncommitted, At, VenueOf, RowOf
  <2> QED BY <1>3, <1>4, <1>5, <2>4, <2>5 DEF WriteInv
<1>9. CASE Read(w)
  <2>1. DOMAIN tx[w] = {"pc", "cmd", "cur", "new"} /\ tx[w].cmd \in Commands /\ At(w, "read")
        /\ RowOf(w) \in Rows
    BY <1>6, <1>9, ConfigurationAssumption DEF Read, At, RowOf, WriterInv, WriterShape
  <2>2. /\ tx'[w].pc = "write" /\ tx'[w].cmd = tx[w].cmd /\ tx'[w].cur = rows[RowOf(w)]
        /\ DOMAIN tx'[w] = DOMAIN tx[w]
    BY <1>9, <2>1 DEF Read, ReadInv, Relations
  <2>3. RowOf(w)' = RowOf(w) /\ VenueOf(w)' = VenueOf(w) /\ UNCHANGED lock
    BY <1>9, <2>2 DEF RowOf, VenueOf, Read
  <2>4. Agree(RowOf(w), rows[RowOf(w)], meant[RowOf(w)])
    BY <2>1 DEF WriteInv, RowsAgree
  <2>5. ReadAgrees(w)'
    BY <1>1, <2>2, <2>3, <2>4 DEF ReadAgrees, Agree
  <2>6. LockHeld(w)'
    BY <1>6, <2>1, <2>2, <2>3 DEF WriterInv, LockHeld, Passed, At
  <2>7. WriterInv(w)'
    BY <2>1, <2>2, <2>5, <2>6 DEF WriterInv, WriterShape, WrittenAgrees, At
  <2>8. OneUncommitted'
    BY <1>2, <2>2 DEF WriteInv, OneUncommitted, At, VenueOf, RowOf
  <2> QED BY <1>3, <1>4, <1>5, <2>7, <2>8 DEF WriteInv
<1>10. CASE Write(w)
  <2>1. DOMAIN tx[w] = {"pc", "cmd", "cur", "new"} /\ tx[w].cmd \in Commands /\ At(w, "write")
        /\ RowOf(w) \in Rows /\ RowOf(w) = tx[w].cmd.row
    BY <1>6, <1>10, ConfigurationAssumption DEF Write, At, RowOf, WriterInv, WriterShape
  <2>2. /\ tx'[w].pc = "commit" /\ tx'[w].cmd = tx[w].cmd /\ tx'[w].new = Written(w)
        /\ DOMAIN tx'[w] = DOMAIN tx[w]
    BY <1>10, <2>1 DEF Write, ReadInv, Relations
  <2>3. RowOf(w)' = RowOf(w) /\ VenueOf(w)' = VenueOf(w) /\ UNCHANGED lock
    BY <1>10, <2>2 DEF RowOf, VenueOf, Write
  <2>4. PICK old : /\ Written(w) = Apply(tx[w].cmd, old)
                   /\ Agree(RowOf(w), old, meant[RowOf(w)])
    <3>1. CASE ReadsFirst(tx[w].cmd)
      BY <1>6, <2>1, <3>1 DEF Written, WriterInv, ReadAgrees
    <3>2. CASE ~ReadsFirst(tx[w].cmd)
      BY <2>1, <3>2 DEF Written, WriteInv, RowsAgree
    <3> QED BY <3>1, <3>2
  <2>5. Agree(RowOf(w), Written(w), Apply(tx[w].cmd, meant[RowOf(w)]))
    BY <2>1, <2>4, ApplyAgrees
  <2>6. WrittenAgrees(w)'
    BY <1>1, <2>2, <2>3, <2>5 DEF WrittenAgrees, Agree
  <2>7. LockHeld(w)'
    BY <1>6, <2>1, <2>2, <2>3 DEF WriterInv, LockHeld, Passed, At
  <2>8. WriterInv(w)'
    BY <2>1, <2>2, <2>6, <2>7 DEF WriterInv, WriterShape, ReadAgrees, At
  <2>9. OneUncommitted'
    <3>1. \A q \in Writers : At(q, "commit") => VenueOf(q) # VenueOf(w)
      BY <1>10 DEF Write
    <3>2. \A q \in Writers \ {w} : At(q, "commit")' = At(q, "commit") /\ VenueOf(q)' = VenueOf(q)
      BY <1>2 DEF At, VenueOf, RowOf
    <3> QED BY <2>3, <3>1, <3>2 DEF WriteInv, OneUncommitted
  <2> QED BY <1>3, <1>4, <1>5, <2>8, <2>9 DEF WriteInv
<1>11. CASE Abort(w)
  <2>1. tx'[w].pc = "idle"
    BY <1>11 DEF Abort, Unlock, Idle, ReadInv, Relations
  <2>2. WriterInv(w)'
    BY <2>1 DEF WriterInv, WriterShape, LockHeld, Passed, ReadAgrees, WrittenAgrees, At
  <2>3. OneUncommitted'
    BY <1>2, <2>1 DEF WriteInv, OneUncommitted, At, VenueOf, RowOf
  <2> QED BY <1>3, <1>4, <1>5, <2>2, <2>3 DEF WriteInv
<1> QED BY <1>7, <1>8, <1>9, <1>10, <1>11

\* A commit: the row becomes what was asked for.  Another writer with the same row in
\* hand has the lock, so that the one that commits is plain SQL.
LEMMA CommitKeeps ==
  ASSUME ReadInv, WriteInv, NEW w \in Writers, Commit(w)
  PROVE  ReadInv' /\ WriteInv'
<1>1. /\ At(w, "commit") /\ tx[w].cmd \in Commands /\ WriterInv(w)
      /\ RowOf(w) \in Rows /\ VenueOf(w) \in Venues /\ RowOf(w) = tx[w].cmd.row
  BY ConfigurationAssumption DEF Commit, WriteInv, WriterInv, WriterShape, At, RowOf, VenueOf
<1>2. PICK r \in Rows, v \in Venues, c \in Commands :
        r = RowOf(w) /\ v = VenueOf(w) /\ c = tx[w].cmd /\ r = c.row
  BY <1>1
<1>3. /\ rows' = [rows EXCEPT ![r] = tx[w].new] /\ meant' = [meant EXCEPT ![r] = Apply(c, @)]
      /\ tx' = [tx EXCEPT ![w] = Idle]
      /\ lock' = [u \in Venues |-> IF lock[u] = w THEN None ELSE lock[u]]
      /\ UNCHANGED <<reader, cache>>
  BY <1>2 DEF Commit, Unlock, reads
<1>4. /\ rows'[r] = tx[w].new /\ meant'[r] = Apply(c, meant[r])
      /\ \A q \in Rows \ {r} : rows'[q] = rows[q] /\ meant'[q] = meant[q]
      /\ tx'[w] = Idle /\ \A q \in Writers \ {w} : tx'[q] = tx[q]
  BY <1>3 DEF ReadInv, Relations
<1>5. ReadInv'
  <2>1. Faithful'
    BY <1>1, CommitKnown
  <2>2. Relations'
    <3>1. version' \in [Venues -> Nat]
      BY <1>2 DEF Commit, Bumps, ReadInv, Relations
    <3> QED BY <1>3, <3>1 DEF ReadInv, Relations
  <2>3. ReaderShape' /\ AnswersTrue'
    BY <1>3 DEF ReadInv, ReaderShape, AnswersTrue, Opened, Reading, Content
  <2> QED BY <2>1, <2>2, <2>3 DEF ReadInv
<1>6. Agree(r, tx[w].new, Apply(c, meant[r]))
  BY <1>1, <1>2 DEF WriterInv, WrittenAgrees
<1>7. RowsAgree'
  BY <1>4, <1>6 DEF WriteInv, RowsAgree, Agree
<1>8. WriterInv(w)'
  BY <1>4 DEF Idle, WriterInv, WriterShape, LockHeld, Passed, ReadAgrees, WrittenAgrees, At
<1>9. OneUncommitted'
  BY <1>4 DEF Idle, WriteInv, OneUncommitted, At, VenueOf, RowOf
<1>10. ASSUME NEW q \in Writers \ {w} PROVE WriterInv(q)'
  <2>1. WriterInv(q) /\ RowOf(q)' = RowOf(q) /\ VenueOf(q)' = VenueOf(q) /\ Passed(q)' = Passed(q)
    BY <1>4 DEF WriteInv, RowOf, VenueOf, Passed, At
  <2>2. ~At(q, "idle") => RowOf(q) \in Rows /\ VenueOf(q) \in Venues
    BY <2>1, ConfigurationAssumption DEF WriterInv, WriterShape, RowOf, VenueOf
  <2>3. WriterShape(q)'
    BY <1>4, <2>1 DEF WriterInv, WriterShape, At
  <2>4. LockHeld(q)'
    <3>1. Passed(q) => ~At(q, "idle")
      BY DEF Passed, At
    <3> QED BY <1>3, <2>1, <2>2, <3>1 DEF WriterInv, LockHeld
  <2>5. ReadAgrees(q)'
    <3>1. SUFFICES ASSUME At(q, "write"), ReadsFirst(tx[q].cmd)
                   PROVE  Agree(RowOf(q), tx[q].cur, meant'[RowOf(q)])
      BY <1>4, <2>1 DEF ReadAgrees, At, Agree
    <3>2. Agree(RowOf(q), tx[q].cur, meant[RowOf(q)]) /\ RowOf(q) \in Rows
      BY <2>1, <2>2, <3>1 DEF WriterInv, ReadAgrees, At
    <3>3. CASE RowOf(q) # r
      BY <1>4, <3>2, <3>3
    <3>4. CASE RowOf(q) = r
      <4>1. VenueOf(q) = v /\ lock[v] = q /\ Kind[r] # "schedule"
        BY <1>2, <2>1, <3>1, <3>4 DEF VenueOf, WriterInv, LockHeld, Passed, ReadsFirst, RowOf
      <4>2. c.kind = "plain"
        BY <1>1, <1>2, <4>1 DEF WriterInv, LockHeld, Passed
      <4>3. Agree(r, tx[q].cur, Apply(c, meant[r]))
        BY <1>2, <3>2, <3>4, <4>1, <4>2, PlainAgrees
      <4> QED BY <1>4, <3>4, <4>3
    <3> QED BY <3>3, <3>4
  <2>6. WrittenAgrees(q)'
    <3>1. SUFFICES ASSUME At(q, "commit")
                   PROVE  Agree(RowOf(q), tx[q].new, Apply(tx[q].cmd, meant'[RowOf(q)]))
      BY <1>4, <2>1 DEF WrittenAgrees, At, Agree
    <3>2. RowOf(q) # r /\ RowOf(q) \in Rows
      BY <1>1, <1>2, <2>2, <3>1 DEF WriteInv, OneUncommitted, At, VenueOf
    <3> QED BY <1>4, <2>1, <3>1, <3>2 DEF WriterInv, WrittenAgrees
  <2> QED BY <2>3, <2>4, <2>5, <2>6 DEF WriterInv
<1> QED BY <1>5, <1>7, <1>8, <1>9, <1>10 DEF WriteInv

-----------------------------------------------------------------------------
(* The specification. *)

LEMMA InitInv == Init => ReadInv /\ WriteInv
<1> SUFFICES ASSUME Init PROVE ReadInv /\ WriteInv
  OBVIOUS
<1>1. Relations /\ Opened = {} /\ DOMAIN cache = {}
  BY ConfigurationAssumption DEF Init, Relations, Opened, Reading, Idle
<1>2. Known = {Current(v) : v \in Venues}
  BY <1>1 DEF Known
<1>3. Faithful
  BY <1>1, <1>2 DEF Faithful, Current, Relations
<1>4. ReaderShape /\ AnswersTrue
  BY <1>1 DEF ReaderShape, AnswersTrue, Opened, Reading, Init, Idle
<1>5. RowsAgree
  BY ConfigurationAssumption DEF Init, RowsAgree, Agree
<1>6. \A w \in Writers : tx[w].pc = "idle"
  BY DEF Init, Idle
<1>7. OneUncommitted /\ \A w \in Writers : WriterInv(w)
  BY <1>6 DEF OneUncommitted, WriterInv, WriterShape, LockHeld, Passed, ReadAgrees, WrittenAgrees, At
<1> QED BY <1>1, <1>3, <1>4, <1>5, <1>7 DEF ReadInv, WriteInv

LEMMA NextInv == ReadInv /\ WriteInv /\ [Next]_vars => ReadInv' /\ WriteInv'
<1> SUFFICES ASSUME ReadInv, WriteInv, [Next]_vars PROVE ReadInv' /\ WriteInv'
  OBVIOUS
<1>1. CASE UNCHANGED vars
  <2>1. ReadInv'
    BY <1>1, QuietWriter DEF vars, ReadInv, Relations
  <2>2. WriteInv'
    BY <1>1 DEF vars, WriteInv, RowsAgree, OneUncommitted, WriterInv, WriterShape, LockHeld, Passed,
                ReadAgrees, WrittenAgrees, At, RowOf, VenueOf, Agree
  <2> QED BY <2>1, <2>2
<1>2. ASSUME NEW w \in Writers, Begin(w) \/ Lock(w) \/ Read(w) \/ Write(w) \/ Commit(w) \/ Abort(w)
      PROVE  ReadInv' /\ WriteInv'
  BY <1>2, WritersKeep, CommitKeeps
<1>3. ASSUME NEW p \in Readers, Open(p) \/ Get(p) \/ Miss(p) \/ Load(p) \/ List(p) \/ ReadFails(p)
      PROVE  ReadInv' /\ WriteInv'
  <2>1. UNCHANGED <<rows, version, lock, tx, meant>>
    BY <1>3 DEF Open, Get, Miss, Load, List, ReadFails, writing
  <2>2. WriteInv'
    BY <2>1 DEF WriteInv, RowsAgree, OneUncommitted, WriterInv, WriterShape, LockHeld, Passed,
                ReadAgrees, WrittenAgrees, At, RowOf, VenueOf, Agree
  <2> QED BY <1>3, <2>2, ReadersKeep
<1> QED BY <1>1, <1>2, <1>3 DEF Next

\* Readers and writers of the configuration keep the two invariants.
THEOREM ConfigurationInductive == Spec => [](ReadInv /\ WriteInv)
BY InitInv, NextInv, PTL DEF Spec

\* A reader is given its own snapshot's units and combinations (commands/availability.ts),
\* whatever the cache kept, lost or was overwritten with in between.
THEOREM ConfigurationAnswers == Spec => []AnswersTrue
<1>1. ReadInv => AnswersTrue
  BY DEF ReadInv
<1> QED BY <1>1, ConfigurationInductive, PTL

\* No admin command undoes another one's change (admin.ts, admin-units.ts), nor plain
\* SQL a field that it does not set itself.
THEOREM ConfigurationCommands == Spec => []CommandsKept
<1>1. ReadInv /\ WriteInv => CommandsKept
  BY DEF ReadInv, Relations, WriteInv, RowsAgree, Agree, CommandsKept
<1> QED BY <1>1, ConfigurationInductive, PTL

-----------------------------------------------------------------------------
(* Programs: the loops and the process. *)

PCs == {"off", "acquire", "batch", "sleep", "ended"}

Processes ==
  /\ stage \in Stages /\ limit \in Nat \ {0}
  /\ pc \in [Loops -> PCs]
  /\ stopped \in [Loops -> BOOLEAN] /\ paused \in BOOLEAN
  /\ out \in 0..PoolMax /\ faults \in 0..MaxFaults /\ lingering \in [Loops -> Nat]

\* The loops that have a connection for their batch.
Batching == {l \in Loops : pc[l] = "batch"}

LoopInv == Processes /\ Cardinality(Batching) <= out

LEMMA BatchingFinite == IsFiniteSet(Batching) /\ Cardinality(Batching) \in Nat
<1>1. Batching \in SUBSET Loops
  BY DEF Batching
<1> QED BY <1>1, WorkerAssumption, FS_Subset, FS_CardinalityType

\* A step that leaves the loops and the process where they are.
LEMMA LoopFrame ==
  ASSUME LoopInv, UNCHANGED <<stage, limit, pc, stopped, out>>,
         paused' \in BOOLEAN, faults' \in 0..MaxFaults, lingering' \in [Loops -> Nat]
  PROVE  LoopInv'
<1>1. Batching' = Batching
  BY DEF Batching
<1> QED BY <1>1 DEF LoopInv, Processes

LEMMA StopLoopsKeeps ==
  ASSUME LoopInv, StopLoops, stage' = stage \/ (stage = "running" /\ stage' = "stopping"),
         UNCHANGED <<limit, paused, out, faults, lingering>>
  PROVE  LoopInv'
<1>1. Batching' = Batching
  BY DEF Batching, StopLoops, LoopInv, Processes
<1>2. Processes'
  BY DEF StopLoops, LoopInv, Processes, PCs, Stages
<1> QED BY <1>1, <1>2 DEF LoopInv

LEMMA ProcessKeeps ==
  ASSUME LoopInv, Boot \/ Close \/ EndPool \/ Exit \/ Leave
  PROVE  LoopInv'
<1>1. CASE Boot
  <2>1. stage = "booting" /\ UNCHANGED <<stopped, paused, due, out, faults, lingering>>
    BY <1>1 DEF Boot
  <2>2. PICK e \in Envs : \/ ~Usable(e) /\ stage' = "exit2" /\ UNCHANGED <<limit, pc>>
                          \/ Usable(e) /\ stage' = "running" /\ limit' = Parsed(e)
                             /\ pc' = [l \in Loops |-> "acquire"]
    BY <1>1 DEF Boot
  <2>3. CASE stage' = "exit2" /\ UNCHANGED <<limit, pc>>
    <3>1. Batching' = Batching
      BY <2>3 DEF Batching
    <3> QED BY <2>1, <2>3, <3>1 DEF LoopInv, Processes, Stages
  <2>4. CASE Usable(e) /\ stage' = "running" /\ limit' = Parsed(e)
          /\ pc' = [l \in Loops |-> "acquire"]
    <3>1. Parsed(e) \in Nat \ {0}
      BY <2>4, WorkerAssumption DEF Parsed, Usable
    <3>2. Batching' = {}
      BY <2>4 DEF Batching
    <3>3. Cardinality(Batching') <= out
      BY <3>2, FS_EmptySet DEF LoopInv, Processes
    <3> QED BY <2>1, <2>4, <3>1, <3>3 DEF LoopInv, Processes, Stages, PCs, Batching
  <2> QED BY <2>2, <2>3, <2>4
<1>2. CASE Close \/ EndPool \/ Exit \/ Leave
  <2>1. UNCHANGED <<limit, pc, stopped, paused, out, faults, lingering>> /\ stage' \in Stages
    BY <1>2 DEF Close, EndPool, Exit, Leave, Stages
  <2>2. Batching' = Batching
    BY <2>1 DEF Batching
  <2> QED BY <2>1, <2>2 DEF LoopInv, Processes
<1> QED BY <1>1, <1>2

LEMMA AcquireKeeps ==
  ASSUME LoopInv, NEW l \in Loops, Acquire(l)
  PROVE  LoopInv'
<1>1. Batching' = Batching \cup {l} /\ l \notin Batching
  BY DEF Acquire, Batching, LoopInv, Processes
<1>2. Cardinality(Batching') <= out'
  <2>1. Cardinality(Batching') = Cardinality(Batching) + 1
    BY <1>1, BatchingFinite, FS_AddElement
  <2> QED BY <2>1, BatchingFinite DEF Acquire, LoopInv, Processes
<1>3. Processes'
  BY WorkerAssumption DEF Acquire, LoopInv, Processes, PCs
<1> QED BY <1>2, <1>3 DEF LoopInv

\* A loop that leaves its batch, with or without its connection.
LEMMA LeaveBatch ==
  ASSUME LoopInv, NEW l \in Loops, Alive, pc[l] \in {"acquire", "batch", "sleep"},
         NEW place \in PCs \ {"batch"},
         pc' = [pc EXCEPT ![l] = place], out' = out \/ (pc[l] = "batch" /\ out' = out - 1),
         UNCHANGED <<stage, limit, stopped, paused>>, faults' \in 0..MaxFaults,
         lingering' \in [Loops -> Nat]
  PROVE  LoopInv'
<1>1. Batching' = Batching \ {l}
  BY DEF Batching, LoopInv, Processes, PCs
<1>2. Cardinality(Batching') = IF l \in Batching THEN Cardinality(Batching) - 1 ELSE Cardinality(Batching)
  BY <1>1, BatchingFinite, FS_RemoveElement
<1>3. l \in Batching <=> pc[l] = "batch"
  BY DEF Batching
<1>4. l \in Batching => Cardinality(Batching) >= 1
  BY BatchingFinite, FS_EmptySet
<1>5. Cardinality(Batching') <= out' /\ out' \in 0..PoolMax
  BY <1>2, <1>3, <1>4, BatchingFinite, WorkerAssumption DEF LoopInv, Processes
<1>6. Processes'
  BY <1>5 DEF LoopInv, Processes
<1> QED BY <1>5, <1>6 DEF LoopInv

LEMMA TickKeeps ==
  ASSUME LoopInv, NEW l \in Loops, Tick(l)
  PROVE  LoopInv'
<1>1. PICK place \in {"sleep", "acquire"} : pc' = [pc EXCEPT ![l] = place]
  BY DEF Tick
<1> QED BY <1>1, LeaveBatch DEF Tick, LoopInv, Processes, PCs

LEMMA BatchKeeps ==
  ASSUME LoopInv, NEW l \in Loops, Batch(l) \/ Fail(l)
  PROVE  LoopInv'
<1>1. PICK place \in {"sleep", "acquire", "ended"} : pc' = [pc EXCEPT ![l] = place]
  BY DEF Batch, Fail, Rest
<1>2. faults' \in 0..MaxFaults
  BY WorkerAssumption DEF Batch, Fail, LoopInv, Processes
<1>3. /\ Alive /\ pc[l] \in {"acquire", "batch"} /\ UNCHANGED <<stage, limit, stopped, paused>>
      /\ out' = out \/ (pc[l] = "batch" /\ out' = out - 1)
  BY DEF Batch, Fail
<1>4. lingering' \in [Loops -> Nat]
  BY DEF Batch, Fail, LoopInv, Processes
<1> QED BY <1>1, <1>2, <1>3, <1>4, LeaveBatch DEF PCs

LEMMA LeftEndsKeeps ==
  ASSUME LoopInv, NEW l \in Loops, LeftEnds(l)
  PROVE  LoopInv'
<1>1. UNCHANGED <<stage, limit, pc, stopped, paused, out, faults>>
  BY DEF LeftEnds
<1>2. lingering' \in [Loops -> Nat]
  BY DEF LeftEnds, LoopInv, Processes
<1> QED BY <1>1, <1>2, LoopFrame DEF LoopInv, Processes

-----------------------------------------------------------------------------
(* The mixed run. *)

Assignments == {{u} : u \in Units} \cup Combos
HeldRow ==
  [status: {"held"}, expiry: {"far", "near", "past"}, asg: Assignments, start: Starts, party: Parties,
   token: Mixers \cup {"none"}, by: Mixers]
TakenRow == HeldRow \cup [status: {"confirmed"}, asg: Assignments, start: Starts, party: Parties]
Actors == {"system:sweeper", "system:conflict"}
ByActor(a) == [status |-> "expired", actor |-> a]
BookingRows == {Unused, [status |-> "cancelled"]} \cup TakenRow \cup {ByActor(a) : a \in Actors}

Operations ==
  [op: {"none", "ended", "hold_or_edit"}]
  \cup [op: {"confirm_or_mint", "cancel", "mint_confirm"}, id: Holds]

\* The rows of a table: what is held past its expiry, and who expired the others.
Dead(b) == {i \in Holds : b[i].status = "held" /\ b[i].expiry = "past"}
By(b, a) == {i \in Holds : b[i] = ByActor(a)}
Taken(r) == r.status \in {"held", "confirmed"}

Reservations(b) == b \in [Holds -> BookingRows]
Edge(b, S) == S \subseteq Holds /\ \A i \in S : b[i].status = "held" => b[i].expiry = "far"

\* No two reservations overlap on a unit, dead holds included, and the others fit.
Apart(b) ==
  \A i, j \in Holds : i # j /\ Taken(b[i]) /\ Taken(b[j]) => ~Meets(b[i], b[j].asg, b[j].start)
Fitting(b, c) == \A i \in Holds : Taken(b[i]) /\ i \notin Dead(b) => FitsIn(b[i], c)
Orderly(b, c) == Apart(b) /\ Fitting(b, c)

LEMMA RowShapes ==
  ASSUME NEW r \in BookingRows
  PROVE  \/ r.status = "free" /\ r = Unused
         \/ r.status = "cancelled"
         \/ r.status = "expired" /\ \E a \in Actors : r = ByActor(a)
         \/ r.status \in {"held", "confirmed"} /\ r \in TakenRow
BY DEF BookingRows, TakenRow, HeldRow, ByActor, Unused

LEMMA TakenNumbers ==
  ASSUME NEW r \in BookingRows, Taken(r)
  PROVE  r.start \in Nat /\ r.party \in Nat
<1>1. r \in TakenRow
  BY RowShapes DEF Taken
<1>2. r.start \in Starts /\ r.party \in Parties
  BY <1>1 DEF TakenRow, HeldRow
<1> QED BY <1>2, MixedAssumption

LEMMA HeldShape ==
  ASSUME NEW r \in BookingRows, r.status = "held"
  PROVE  r \in HeldRow
BY DEF BookingRows, TakenRow, HeldRow, ByActor, Unused

\* Reservations that end, or that stay where they are and fit unless they are dead.
LEMMA OrderlyStays ==
  ASSUME NEW b, NEW c, Orderly(b, c), NEW d,
         \A i \in Holds : Taken(d[i]) =>
           /\ Taken(b[i]) /\ d[i].asg = b[i].asg /\ d[i].start = b[i].start /\ d[i].party = b[i].party
           /\ i \in Dead(d) \/ i \notin Dead(b) \/ FitsIn(b[i], c)
  PROVE  Orderly(d, c)
<1>1. Apart(d)
  BY DEF Orderly, Apart, Meets
<1>2. Fitting(d, c)
  BY DEF Orderly, Fitting, FitsIn
<1> QED BY <1>1, <1>2 DEF Orderly

\* Another row, unless it is or becomes an expired one.
Put(b, i, r) == [b EXCEPT ![i] = r]

LEMMA Replaced ==
  ASSUME NEW b, Reservations(b), NEW i \in Holds, b[i].status # "expired",
         NEW r \in BookingRows, r.status # "expired"
  PROVE  /\ Reservations(Put(b, i, r)) /\ \A a \in Actors : By(Put(b, i, r), a) = By(b, a)
         /\ r.status = "held" /\ r.expiry = "past" => Dead(Put(b, i, r)) = Dead(b) \cup {i}
         /\ ~(r.status = "held" /\ r.expiry = "past") => Dead(Put(b, i, r)) = Dead(b) \ {i}
<1>1. PICK c : c = Put(b, i, r)
  OBVIOUS
<1>2. Reservations(c) /\ c[i] = r /\ \A j \in Holds \ {i} : c[j] = b[j]
  BY <1>1 DEF Reservations, Put
<1>3. \A a \in Actors : By(c, a) = By(b, a)
  BY <1>2 DEF By, ByActor
<1>4. /\ r.status = "held" /\ r.expiry = "past" => Dead(c) = Dead(b) \cup {i}
      /\ ~(r.status = "held" /\ r.expiry = "past") => Dead(c) = Dead(b) \ {i}
  BY <1>2 DEF Dead
<1> QED BY <1>1, <1>2, <1>3, <1>4

LEMMA ReplacedOrderly ==
  ASSUME NEW b, Reservations(b), NEW c, Orderly(b, c), NEW i \in Holds, NEW r \in BookingRows,
         Taken(r) =>
           /\ Taken(b[i]) /\ r.asg = b[i].asg /\ r.start = b[i].start /\ r.party = b[i].party
           /\ (r.status = "held" /\ r.expiry = "past") \/ i \notin Dead(b) \/ FitsIn(b[i], c)
  PROVE  Orderly(Put(b, i, r), c)
<1>1. PICK d : d = Put(b, i, r)
  OBVIOUS
<1>2. d[i] = r /\ \A j \in Holds \ {i} : d[j] = b[j]
  BY <1>1 DEF Reservations, Put
<1>3. \A j \in Holds \ {i} : j \in Dead(d) <=> j \in Dead(b)
  BY <1>2 DEF Dead
<1>4. i \in Dead(d) <=> r.status = "held" /\ r.expiry = "past"
  BY <1>2 DEF Dead
<1> QED BY <1>1, <1>2, <1>3, <1>4, OrderlyStays

\* Dead holds that are expired.
ExpiredIn(b, S, actor) == [i \in Holds |-> IF i \in S THEN ByActor(actor) ELSE b[i]]

LEMMA ExpiredRows ==
  ASSUME NEW b, Reservations(b), NEW S \in SUBSET Dead(b), NEW actor \in Actors
  PROVE  /\ Reservations(ExpiredIn(b, S, actor)) /\ Dead(ExpiredIn(b, S, actor)) = Dead(b) \ S
         /\ By(ExpiredIn(b, S, actor), actor) = By(b, actor) \cup S
         /\ \A a \in Actors \ {actor} : By(ExpiredIn(b, S, actor), a) = By(b, a)
         /\ \A E : Edge(b, E) => Edge(ExpiredIn(b, S, actor), E)
         /\ \A c : Orderly(b, c) => Orderly(ExpiredIn(b, S, actor), c)
<1> DEFINE d == ExpiredIn(b, S, actor)
<1>1. S \subseteq Holds /\ \A i \in Holds : d[i] = IF i \in S THEN ByActor(actor) ELSE b[i]
  BY DEF Dead, ExpiredIn
<1>2. Reservations(d)
  BY <1>1 DEF Reservations, BookingRows, ExpiredIn
<1>3. ByActor(actor).status = "expired" /\ \A a \in Actors : a # actor
        => ByActor(a) # ByActor(actor)
  BY DEF ByActor
<1>4. \A i \in S : b[i].status = "held" /\ \A a \in Actors : b[i] # ByActor(a)
  BY DEF Dead, ByActor
<1>5. Dead(d) = Dead(b) \ S
  BY <1>1, <1>3 DEF Dead
<1>6. By(d, actor) = By(b, actor) \cup S /\ \A a \in Actors \ {actor} : By(d, a) = By(b, a)
  BY <1>1, <1>3, <1>4 DEF By
<1>7. \A E : Edge(b, E) => Edge(d, E)
  BY <1>1, <1>3 DEF Edge
<1>8. ASSUME NEW c, Orderly(b, c) PROVE Orderly(d, c)
  <2>1. \A i \in Holds : Taken(d[i]) => d[i] = b[i] /\ i \notin S
    BY <1>1, <1>3 DEF Taken
  <2>2. \A i \in Holds : i \notin S => (i \in Dead(d) <=> i \in Dead(b))
    BY <1>5
  <2> HIDE DEF d
  <2> QED BY <1>8, <2>1, <2>2, OrderlyStays
<1> QED BY <1>2, <1>5, <1>6, <1>7, <1>8

LEMMA DeadFinite ==
  ASSUME NEW b
  PROVE  /\ IsFiniteSet(Dead(b)) /\ Cardinality(Dead(b)) \in Nat /\ Cardinality(Dead(b)) <= MaxDue
         /\ \A i : i \in Holds =>
              Cardinality(Dead(b) \cup {i}) = Cardinality(Dead(b)) + IF i \in Dead(b) THEN 0 ELSE 1
         /\ \A S \in SUBSET Dead(b) : /\ Cardinality(S) \in Nat
                                      /\ Cardinality(Dead(b) \ S) = Cardinality(Dead(b)) - Cardinality(S)
<1>1. Dead(b) \in SUBSET Holds /\ Cardinality(Holds) \in Nat /\ MaxDue \in Nat
  BY MixedAssumption, WorkerAssumption, FS_CardinalityType DEF Dead
<1>2. IsFiniteSet(Dead(b)) /\ Cardinality(Dead(b)) <= Cardinality(Holds)
  BY <1>1, MixedAssumption, FS_Subset
<1>3. Cardinality(Dead(b)) \in Nat
  BY <1>2, FS_CardinalityType
<1>4. ASSUME NEW i \in Holds
      PROVE  Cardinality(Dead(b) \cup {i}) = Cardinality(Dead(b)) + IF i \in Dead(b) THEN 0 ELSE 1
  BY <1>2, <1>3, FS_AddElement
<1>5. ASSUME NEW S \in SUBSET Dead(b)
      PROVE  /\ Cardinality(S) \in Nat
             /\ Cardinality(Dead(b) \ S) = Cardinality(Dead(b)) - Cardinality(S)
  <2>1. IsFiniteSet(S) /\ Dead(b) \cap S = S
    BY <1>2, FS_Subset
  <2> QED BY <1>2, <2>1, FS_Difference, FS_CardinalityType
<1> QED BY <1>1, <1>2, <1>3, <1>4, <1>5, MixedAssumption

\* An assignment has one unit or two.
LEMMA AssignmentSize ==
  ASSUME NEW a \in Assignments
  PROVE  IsFiniteSet(a) /\ Cardinality(a) \in {1, 2}
         /\ (a \in Combos => \A u : a # {u})
<1>1. CASE a \in Combos
  <2>1. IsFiniteSet(a) /\ Cardinality(a) = 2
    BY <1>1, MixedAssumption, FS_Subset
  <2>2. ASSUME NEW u, a = {u} PROVE FALSE
    <3>1. Cardinality({u}) = 1
      BY FS_Singleton
    <3> QED BY <2>1, <2>2, <3>1
  <2> QED BY <2>1, <2>2
<1>2. CASE \E u \in Units : a = {u}
  <2>1. IsFiniteSet(a) /\ Cardinality(a) = 1
    BY <1>2, FS_Singleton
  <2> QED BY <1>2, <2>1, MixedAssumption
<1> QED BY <1>1, <1>2 DEF Assignments

\* On a unit at most one reservation is in the way of a slot from each side, so that the
\* overlap set of a hold has four rows at the most.
LEMMA WayBounded ==
  ASSUME NEW b, Reservations(b), Apart(b), NEW a \in Assignments, NEW s \in Nat, NEW way,
         way = {i \in Holds : Taken(b[i]) /\ Meets(b[i], a, s)}
  PROVE  Cardinality(way) <= OverlapSet
<1> DEFINE at(i) == CHOOSE u \in b[i].asg \cap a : TRUE
           side(i) == IF b[i].start <= s THEN 0 ELSE 1
           f == [i \in way |-> <<at(i), side(i)>>]
<1>1. ASSUME NEW i \in way
      PROVE  at(i) \in b[i].asg /\ at(i) \in a /\ side(i) \in 0..1
  BY DEF Meets
<1>2. ASSUME NEW i \in way, NEW j \in way, i # j PROVE ~(at(i) = at(j) /\ side(i) = side(j))
  <2>1. SUFFICES ASSUME at(i) = at(j), side(i) = side(j) PROVE FALSE
    OBVIOUS
  <2>2. i \in Holds /\ j \in Holds /\ Taken(b[i]) /\ Taken(b[j]) /\ b[i].asg \cap b[j].asg # {}
    BY <1>1, <2>1
  <2> HIDE DEF at
  <2>3. b[i].start \in Nat /\ b[j].start \in Nat
    BY <2>2, TakenNumbers DEF Reservations
  <2>4. /\ b[i].start < s + Length /\ s < b[i].start + Length
        /\ b[j].start < s + Length /\ s < b[j].start + Length
    BY DEF Meets
  <2>5. b[i].start < b[j].start + Length /\ b[j].start < b[i].start + Length
    BY <2>1, <2>3, <2>4, MixedAssumption
  <2>6. Meets(b[i], b[j].asg, b[j].start)
    BY <2>2, <2>5 DEF Meets
  <2> QED BY <1>2, <2>2, <2>6 DEF Apart
<1>3. f \in [way -> a \X (0..1)]
  BY <1>1
<1>4. \A i, j \in way : f[i] = f[j] => i = j
  BY <1>2
<1>5. f \in Injection(way, a \X (0..1))
  BY <1>3, <1>4 DEF Injection, IsInjective
<1>6. IsFiniteSet(0..1) /\ Cardinality(0..1) = 2 /\ IsFiniteSet(a) /\ Cardinality(a) \in {1, 2}
  <2>1. IsFiniteSet(0..1) /\ Cardinality(0..1) = 2
    <3>1. 0..1 = {0} \cup {1} /\ {0} \cap {1} = {}
      OBVIOUS
    <3>2. IsFiniteSet({0}) /\ IsFiniteSet({1}) /\ Cardinality({0}) = 1 /\ Cardinality({1}) = 1
      BY FS_Singleton
    <3>3. IsFiniteSet({0} \cup {1}) /\ Cardinality({0} \cup {1}) = 2
      <4>1. 1 \notin {0} /\ {0} \cup {1} = {0, 1}
        OBVIOUS
      <4>2. IsFiniteSet({0} \cup {1}) /\ Cardinality({0} \cup {1})
              = IF 1 \in {0} THEN Cardinality({0}) ELSE Cardinality({0}) + 1
        BY <3>2, FS_AddElement
      <4> QED BY <3>2, <4>1, <4>2
    <3> QED BY <3>1, <3>3
  <2> QED BY <2>1, AssignmentSize
<1>7. IsFiniteSet(a \X (0..1)) /\ Cardinality(a \X (0..1)) = Cardinality(a) * 2
  BY <1>6, FS_Product
<1>8. IsFiniteSet(way) /\ Cardinality(way) <= Cardinality(a \X (0..1))
  BY <1>5, <1>7, FS_Injection
<1>9. Cardinality(way) \in Nat
  BY <1>8, FS_CardinalityType
<1> QED BY <1>6, <1>7, <1>8, <1>9, MixedAssumption

\* What a mixed run's tables, workers and ager are, and what the sweeper has named.
MixedShape ==
  /\ Reservations(booking) /\ Edge(booking, edge)
  /\ capacity \in [Units -> Nat] /\ Orderly(booking, capacity)
  /\ mixer \in [Mixers -> Operations] /\ known \subseteq Holds
  /\ AnswersExpected
  /\ ~failed => swept = By(booking, "system:sweeper")

Dues == due \in [AllTables -> 0..MaxDue]
DueDead == mixed # "none" => due["holds"] = Cardinality(Dead(booking))

\* A statement of the sweeper is left at the server only after an error of its loop.
LeftFailed == mixed # "none" /\ lingering["sweeper"] > 0 => failed

\* The run is stopped by its parts, and counts when the sweeper has ended.
MixedStages ==
  /\ mixed \in {"none", "running", "waiting", "stopping", "counted"}
  /\ mixed \in {"stopping", "counted"} => \A m \in Mixers : Doing(m, "ended")
  /\ mixed = "counted" => pc["sweeper"] = "ended"

MixedInv ==
  MixedShape /\ Dues /\ DueDead /\ LeftFailed /\ MixedStages /\ ExpiryAttributed /\ VerdictFounded

\* The answers so far, and one that is expected or refuses one hold too many.
Tolerated(op) == Expected(op) \cup {"too_many_live_holds"}

LEMMA AnswersKeep ==
  ASSUME NEW m \in Mixers, NEW op, NEW code \in Tolerated(op), mixer \in [Mixers -> Operations],
         AnswersExpected, Answers(m, op, code)
  PROVE  mixer' \in [Mixers -> Operations] /\ AnswersExpected' /\ unexpected \subseteq unexpected'
<1>1. mixer' \in [Mixers -> Operations]
  BY DEF Answers, Operations, Ready
<1>2. AnswersExpected' /\ unexpected \subseteq unexpected'
  BY DEF Answers, AnswersExpected, Tolerated
<1> QED BY <1>1, <1>2

\* A step of a worker: the run has not been stopped, whatever else the step does.
LEMMA WorkerStep ==
  ASSUME MixedInv, mixed # "none", NEW m \in Mixers, ~Doing(m, "ended"),
         UNCHANGED <<mixed, edge, swept, failed, lingering, report>>,
         Reservations(booking'), Edge(booking', edge),
           By(booking', "system:sweeper") = By(booking, "system:sweeper"),
         capacity' \in [Units -> Nat], Orderly(booking', capacity'),
         mixer' \in [Mixers -> Operations], AnswersExpected', unexpected \subseteq unexpected',
         known' \subseteq Holds, Dues', due'["holds"] = Cardinality(Dead(booking'))
  PROVE  MixedInv'
<1>1. mixed \notin {"stopping", "counted"}
  BY DEF MixedInv, MixedStages
<1>2. MixedShape'
  BY DEF MixedInv, MixedShape
<1>3. DueDead' /\ LeftFailed' /\ MixedStages' /\ ExpiryAttributed'
  BY <1>1 DEF MixedInv, MixedStages, DueDead, LeftFailed, ExpiryAttributed
<1>4. VerdictFounded'
  BY DEF MixedInv, VerdictFounded
<1> QED BY <1>2, <1>3, <1>4 DEF MixedInv

LEMMA DrawKeeps ==
  ASSUME MixedInv, mixed # "none", NEW m \in Mixers, Draw(m)
  PROVE  MixedInv'
<1>1. UNCHANGED <<booking, capacity, due, mixed, edge, swept, failed, unexpected, lingering, report>>
        /\ Doing(m, "none")
  BY DEF Draw, workerVars
<1>2. known \subseteq Holds /\ mixer \in [Mixers -> Operations]
  BY DEF MixedInv, MixedShape
<1>3. mixer' \in [Mixers -> Operations] /\ known' \subseteq Holds
  <2>1. CASE over /\ mixer' = [mixer EXCEPT ![m] = [op |-> "ended"]] /\ known' = known
    BY <1>2, <2>1 DEF Operations
  <2>2. CASE known' = known /\ mixer' = [mixer EXCEPT ![m] = [op |-> "hold_or_edit"]]
    BY <1>2, <2>2 DEF Operations
  <2>3. CASE \E op \in {"confirm_or_mint", "cancel"}, i \in known :
             /\ mixer' = [mixer EXCEPT ![m] = [op |-> op, id |-> i]]
             /\ known' = IF op = "cancel" THEN known \ {i} ELSE known
    BY <1>2, <2>3 DEF Operations
  <2> QED BY <2>1, <2>2, <2>3 DEF Draw
<1>4. AnswersExpected' /\ unexpected \subseteq unexpected'
  BY <1>1 DEF MixedInv, MixedShape, AnswersExpected
<1>5. ~Doing(m, "ended")
  BY <1>1 DEF Doing
<1>6. /\ Reservations(booking') /\ Edge(booking', edge) /\ Dues'
      /\ capacity' \in [Units -> Nat] /\ Orderly(booking', capacity')
      /\ due'["holds"] = Cardinality(Dead(booking'))
  BY <1>1 DEF MixedInv, MixedShape, Dues, DueDead
<1> QED BY <1>1, <1>3, <1>4, <1>5, <1>6, WorkerStep

\* The tables after some dead holds have been expired by an actor.
LEMMA ExpiryRows ==
  ASSUME MixedInv, mixed # "none", NEW S \in SUBSET DeadHolds, Gone(S), NEW actor \in Actors,
         NEW after, after = Expired(S, actor)
  PROVE  /\ Reservations(after) /\ Edge(after, edge) /\ Orderly(after, capacity)
         /\ By(after, actor) = By(booking, actor) \cup S
         /\ \A a \in Actors \ {actor} : By(after, a) = By(booking, a)
         /\ Dues' /\ due'["holds"] = Cardinality(Dead(after))
<1>1. DeadHolds = Dead(booking) /\ after = ExpiredIn(booking, S, actor)
  BY DEF DeadHolds, Held, Dead, Expired, ByActor, ExpiredIn
<1>2. S \in SUBSET Dead(booking) /\ Reservations(booking) /\ Edge(booking, edge)
        /\ Orderly(booking, capacity)
  BY <1>1 DEF MixedInv, MixedShape
<1>3. /\ Reservations(ExpiredIn(booking, S, actor)) /\ Dead(ExpiredIn(booking, S, actor)) = Dead(booking) \ S
      /\ By(ExpiredIn(booking, S, actor), actor) = By(booking, actor) \cup S
      /\ \A a \in Actors \ {actor} : By(ExpiredIn(booking, S, actor), a) = By(booking, a)
      /\ \A E : Edge(booking, E) => Edge(ExpiredIn(booking, S, actor), E)
      /\ \A c : Orderly(booking, c) => Orderly(ExpiredIn(booking, S, actor), c)
  BY <1>2, ExpiredRows
<1>4. Reservations(after) /\ Dead(after) = Dead(booking) \ S /\ Edge(after, edge)
        /\ Orderly(after, capacity)
  BY <1>1, <1>2, <1>3
<1>5. /\ By(after, actor) = By(booking, actor) \cup S
      /\ \A a \in Actors \ {actor} : By(after, a) = By(booking, a)
  BY <1>1, <1>3
<1>6. /\ Cardinality(S) \in Nat
      /\ Cardinality(Dead(after)) = Cardinality(Dead(booking)) - Cardinality(S)
      /\ Cardinality(Dead(after)) \in Nat
  BY <1>2, <1>4, DeadFinite
<1>7. "holds" \in AllTables
  BY SweepingAssumption DEF AllTables
<1>8. Dues' /\ due'["holds"] = Cardinality(Dead(after))
  BY <1>6, <1>7, DeadFinite, WorkerAssumption DEF Gone, MixedInv, Dues, DueDead
<1> QED BY <1>4, <1>5, <1>8

\* The ways a hold can end: none of them is refused for the size of its overlap set.
LEMMA HoldOnKeeps ==
  ASSUME MixedInv, mixed # "none", NEW m \in Mixers, ~Doing(m, "ended"), NEW op, NEW a \in Assignments,
         NEW s \in Starts, NEW p \in Parties, NEW dead \in SUBSET DeadHolds,
         HoldOn(m, op, a, s, p, dead),
         \/ op = "hold_unit" \/ (op = "hold_combo" /\ \A u : a # {u}),
         UNCHANGED <<mixed, capacity, edge, swept, failed, lingering, report>>
  PROVE  MixedInv'
<1>1. /\ known \subseteq Holds /\ mixer \in [Mixers -> Operations] /\ AnswersExpected
      /\ Reservations(booking) /\ Edge(booking, edge) /\ Orderly(booking, capacity)
      /\ capacity' \in [Units -> Nat] /\ Dues
      /\ due["holds"] = Cardinality(Dead(booking))
      /\ "system:conflict" \in Actors /\ "system:sweeper" \in Actors \ {"system:conflict"}
  BY DEF MixedInv, MixedShape, DueDead, Actors
<1>2. PICK way : way = {i \in Occupying : Meets(booking[i], a, s)}
  OBVIOUS
<1>3. PICK row : row = [status |-> "held", expiry |-> "far", asg |-> a, start |-> s, party |-> p,
                        token |-> "none", by |-> m]
  OBVIOUS
<1>4. Cardinality(way) <= OverlapSet
  <2>1. way = {i \in Holds : Taken(booking[i]) /\ Meets(booking[i], a, s)} /\ s \in Nat
    BY <1>2, MixedAssumption DEF Occupying, Taken
  <2> QED BY <1>1, <2>1, WayBounded DEF Orderly
<1>5. IsFiniteSet(way) /\ Cardinality(way) \in Nat
  <2>1. way \in SUBSET Holds
    BY <1>2 DEF Occupying
  <2> QED BY <2>1, MixedAssumption, FS_Subset, FS_CardinalityType
<1>6. \/ RolledBack(m, op, "too_many_live_holds")
      \/ ~FitsIn(row, capacity) /\ Stored(m, op, way \cap dead, "party_does_not_fit")
      \/ FitsIn(row, capacity) /\ Stored(m, op, way \cap dead, "hold_conflict")
      \/ FitsIn(row, capacity) /\ way \subseteq dead /\ Granted(m, op, way, row)
  BY <1>2, <1>3, <1>4, <1>5, MixedAssumption DEF HoldOn
<1>7. CASE RolledBack(m, op, "too_many_live_holds")
  <2>1. mixer' \in [Mixers -> Operations] /\ AnswersExpected' /\ unexpected \subseteq unexpected'
    BY <1>1, <1>7, AnswersKeep DEF RolledBack, Tolerated
  <2> QED BY <1>1, <1>7, <2>1, WorkerStep DEF RolledBack, Dues
<1>8. ASSUME NEW S, S = way \cap dead,
             NEW code \in {"party_does_not_fit", "hold_conflict"}, Stored(m, op, S, code),
             code = "party_does_not_fit" => ~FitsIn(row, capacity)
      PROVE  MixedInv'
  <2>1. op = "hold_combo" => code = "hold_conflict"
    BY <1>3, <1>8 DEF FitsIn
  <2>2. code \in Tolerated(op)
    BY <2>1 DEF Tolerated, Expected
  <2>3. mixer' \in [Mixers -> Operations] /\ AnswersExpected' /\ unexpected \subseteq unexpected'
    BY <1>1, <1>8, <2>2, AnswersKeep DEF Stored
  <2>4. S \in SUBSET DeadHolds /\ Gone(S) /\ booking' = Expired(S, "system:conflict")
    BY <1>8 DEF Stored
  <2>5. /\ Reservations(booking') /\ Edge(booking', edge) /\ Orderly(booking', capacity)
        /\ By(booking', "system:sweeper") = By(booking, "system:sweeper")
        /\ Dues' /\ due'["holds"] = Cardinality(Dead(booking'))
    BY <1>1, <2>4, ExpiryRows
  <2> QED BY <1>1, <1>8, <2>3, <2>5, WorkerStep DEF Stored
<1>9. CASE FitsIn(row, capacity) /\ way \subseteq dead /\ Granted(m, op, way, row)
  <2>1. PICK after : after = Expired(way, "system:conflict")
    OBVIOUS
  <2>2. PICK i \in Holds : /\ booking[i] = Unused /\ booking' = [after EXCEPT ![i] = row]
                           /\ known' = known \cup {i}
    BY <1>9, <2>1 DEF Granted
  <2>3. Gone(way) /\ Answers(m, op, "ok") /\ way \in SUBSET DeadHolds
    BY <1>9 DEF Granted
  <2>4. mixer' \in [Mixers -> Operations] /\ AnswersExpected' /\ unexpected \subseteq unexpected'
    BY <1>1, <2>3, AnswersKeep DEF Tolerated, Expected
  <2>5. /\ Reservations(after) /\ Edge(after, edge) /\ Orderly(after, capacity)
        /\ By(after, "system:sweeper") = By(booking, "system:sweeper")
        /\ Dues' /\ due'["holds"] = Cardinality(Dead(after))
    BY <1>1, <2>1, <2>3, ExpiryRows
  <2>6. row \in BookingRows /\ row.status = "held" /\ row.expiry = "far"
    BY <1>3 DEF BookingRows, TakenRow, HeldRow
  <2>7. after[i] = Unused /\ i \notin Dead(after) /\ after[i].status # "expired"
    <3>1. i \notin way
      BY <1>2, <2>2 DEF Occupying, Unused
    <3> QED BY <2>1, <2>2, <3>1 DEF Expired, Dead, Unused
  <2>8. /\ Reservations(booking') /\ By(booking', "system:sweeper") = By(after, "system:sweeper")
        /\ Dead(booking') = Dead(after)
    <3>1. ~(row.status = "held" /\ row.expiry = "past") /\ row.status # "expired"
      BY <2>6
    <3>2. Reservations(Put(after, i, row)) /\ (\A x \in Actors : By(Put(after, i, row), x) = By(after, x))
          /\ Dead(Put(after, i, row)) = Dead(after) \ {i}
      BY <2>5, <2>6, <2>7, <3>1, Replaced
    <3>3. booking' = Put(after, i, row)
      BY <2>2 DEF Put
    <3> QED BY <1>1, <2>7, <3>2, <3>3
  <2>9. Edge(booking', edge)
    BY <2>2, <2>5, <2>6 DEF Edge, Reservations
  <2>10. \A j \in Holds \ {i} : booking'[j] = after[j] /\ (Taken(after[j]) => after[j] = booking[j]
           /\ ~Meets(booking[j], a, s))
    <3>1. ASSUME NEW j \in Holds \ {i}, Taken(after[j])
          PROVE  after[j] = booking[j] /\ ~Meets(booking[j], a, s)
      <4>1. j \notin way /\ after[j] = booking[j]
        BY <2>1, <3>1 DEF Expired, Taken
      <4> QED BY <1>2, <3>1, <4>1 DEF Taken, Occupying
    <3>2. \A j \in Holds \ {i} : booking'[j] = after[j]
      BY <2>2, <2>5 DEF Reservations
    <3> QED BY <3>1, <3>2
  <2>11. booking'[i] = row /\ row.asg = a /\ row.start = s
    BY <1>3, <2>2, <2>5 DEF Reservations
  <2>12. Apart(booking')
    <3>1. ASSUME NEW j \in Holds, NEW k \in Holds, j # k, Taken(booking'[j]), Taken(booking'[k])
          PROVE  ~Meets(booking'[j], booking'[k].asg, booking'[k].start)
      <4>1. CASE j # i /\ k # i
        BY <2>5, <2>10, <3>1, <4>1 DEF Orderly, Apart
      <4>2. CASE k = i
        BY <2>10, <2>11, <3>1, <4>2
      <4>3. CASE j = i
        <5>1. booking'[j] = row /\ ~Meets(booking'[k], a, s)
          BY <2>10, <2>11, <3>1, <4>3
        <5> QED BY <2>11, <5>1 DEF Meets
      <4> QED BY <4>1, <4>2, <4>3
    <3> QED BY <3>1 DEF Apart
  <2>13. Fitting(booking', capacity)
    BY <1>9, <2>5, <2>8, <2>10, <2>11 DEF Orderly, Fitting
  <2>14. known' \subseteq Holds /\ Orderly(booking', capacity')
    BY <1>1, <2>2, <2>12, <2>13 DEF Orderly
  <2> QED BY <1>1, <2>4, <2>5, <2>8, <2>9, <2>14, WorkerStep
<1> QED BY <1>6, <1>7, <1>8, <1>9

LEMMA HoldItKeeps ==
  ASSUME MixedInv, mixed # "none", NEW m \in Mixers, HoldIt(m)
  PROVE  MixedInv'
<1>1. UNCHANGED <<mixed, capacity, edge, swept, failed, lingering, report>> /\ ~Doing(m, "ended")
  BY DEF HoldIt, loops, Doing
<1>2. PICK s \in Starts, p \in Parties, dead \in SUBSET DeadHolds :
        \/ \E u \in Units : HoldOn(m, "hold_unit", {u}, s, p, dead)
        \/ \E a \in Combos : HoldOn(m, "hold_combo", a, s, p, dead)
  BY DEF HoldIt
<1>3. CASE \E u \in Units : HoldOn(m, "hold_unit", {u}, s, p, dead)
  <2>1. PICK u \in Units : HoldOn(m, "hold_unit", {u}, s, p, dead)
    BY <1>3
  <2>2. {u} \in Assignments
    BY DEF Assignments
  <2> QED BY <1>1, <2>1, <2>2, HoldOnKeeps
<1>4. CASE \E a \in Combos : HoldOn(m, "hold_combo", a, s, p, dead)
  <2>1. PICK a \in Combos : HoldOn(m, "hold_combo", a, s, p, dead)
    BY <1>4
  <2>2. a \in Assignments /\ \A u : a # {u}
    BY AssignmentSize DEF Assignments
  <2> QED BY <1>1, <2>1, <2>2, HoldOnKeeps
<1> QED BY <1>2, <1>3, <1>4

\* A row of a reservation that is taken, with some fields changed, and nothing due.
LEMMA TakenStep ==
  ASSUME MixedInv, mixed # "none", NEW i \in Holds, booking[i].status = "held",
         NEW r \in HeldRow, r = [booking[i] EXCEPT !.token = r.token],
         booking' = [booking EXCEPT ![i] = r], UNCHANGED <<due, capacity>>
  PROVE  /\ Reservations(booking') /\ Edge(booking', edge) /\ Orderly(booking', capacity)
         /\ \A a \in Actors : By(booking', a) = By(booking, a)
         /\ Dues' /\ due'["holds"] = Cardinality(Dead(booking'))
<1>1. Reservations(booking) /\ Edge(booking, edge) /\ Orderly(booking, capacity)
        /\ r \in BookingRows /\ r.status = "held" /\ booking[i] \in HeldRow
  BY HeldShape DEF MixedInv, MixedShape, BookingRows, TakenRow, HeldRow, Reservations
<1>2. /\ r.expiry = booking[i].expiry /\ r.asg = booking[i].asg /\ r.start = booking[i].start
      /\ r.party = booking[i].party
  BY <1>1 DEF HeldRow
<1>3. r.status # "expired" /\ booking[i].status # "expired"
  BY <1>1
<1>4. /\ Reservations(Put(booking, i, r)) /\ \A a \in Actors : By(Put(booking, i, r), a) = By(booking, a)
      /\ r.status = "held" /\ r.expiry = "past" => Dead(Put(booking, i, r)) = Dead(booking) \cup {i}
      /\ ~(r.status = "held" /\ r.expiry = "past") => Dead(Put(booking, i, r)) = Dead(booking) \ {i}
  BY <1>1, <1>3, Replaced
<1>5. i \in Dead(booking) <=> r.status = "held" /\ r.expiry = "past"
  BY <1>1, <1>2 DEF Dead
<1>6. Dead(Put(booking, i, r)) = Dead(booking)
  BY <1>4, <1>5
<1>7. Edge(booking', edge)
  BY <1>1, <1>2 DEF Edge, Reservations
<1>8. booking' = Put(booking, i, r)
  BY DEF Put
<1>9. Orderly(Put(booking, i, r), capacity)
  <2>1. Taken(booking[i])
    BY DEF Taken
  <2> QED BY <1>1, <1>2, <1>5, <2>1, ReplacedOrderly
<1> QED BY <1>4, <1>6, <1>7, <1>8, <1>9 DEF MixedInv, Dues, DueDead

\* The operation of a worker has the id of a hold.
LEMMA OperationId ==
  ASSUME MixedInv, NEW m \in Mixers,
         Doing(m, "confirm_or_mint") \/ Doing(m, "cancel") \/ Doing(m, "mint_confirm")
  PROVE  mixer[m].id \in Holds /\ ~Doing(m, "ended")
BY DEF MixedInv, MixedShape, Operations, Doing

\* A reservation that is confirmed or cancelled is no more among the dead.
LEMMA Undue ==
  ASSUME MixedInv, mixed # "none", NEW i \in Holds, booking[i].status # "expired",
         NEW r \in BookingRows, r.status \notin {"held", "expired"}, booking' = [booking EXCEPT ![i] = r],
         Taken(r) => /\ Taken(booking[i]) /\ r.asg = booking[i].asg /\ r.start = booking[i].start
                     /\ r.party = booking[i].party /\ FitsIn(booking[i], capacity),
         Gone({i} \cap DeadHolds)
  PROVE  /\ Reservations(booking') /\ Edge(booking', edge) /\ Orderly(booking', capacity)
         /\ By(booking', "system:sweeper") = By(booking, "system:sweeper")
         /\ Dues' /\ due'["holds"] = Cardinality(Dead(booking'))
<1>1. /\ Reservations(booking) /\ Edge(booking, edge) /\ Orderly(booking, capacity)
      /\ "system:sweeper" \in Actors
  BY DEF MixedInv, MixedShape, Actors
<1>2. booking' = Put(booking, i, r) /\ DeadHolds = Dead(booking)
  BY DEF Put, DeadHolds, Held, Dead
<1>3. ~(r.status = "held" /\ r.expiry = "past") /\ r.status # "expired"
  OBVIOUS
<1>4. /\ Reservations(booking') /\ By(booking', "system:sweeper") = By(booking, "system:sweeper")
      /\ Dead(booking') = Dead(booking) \ {i}
  <2>1. /\ Reservations(Put(booking, i, r)) /\ Dead(Put(booking, i, r)) = Dead(booking) \ {i}
        /\ By(Put(booking, i, r), "system:sweeper") = By(booking, "system:sweeper")
    BY <1>1, <1>3, Replaced
  <2> QED BY <1>2, <2>1
<1>5. Edge(booking', edge)
  BY <1>1, <1>2 DEF Edge, Reservations, Put
<1>6. Orderly(booking', capacity)
  <2>1. Orderly(Put(booking, i, r), capacity)
    BY <1>1, ReplacedOrderly
  <2> QED BY <1>2, <2>1
<1>7. PICK S \in SUBSET Dead(booking) : S = {i} \cap Dead(booking)
  OBVIOUS
<1>8. Gone(S) /\ Dead(booking') = Dead(booking) \ S
  BY <1>2, <1>4, <1>7
<1>9. Cardinality(S) \in Nat
        /\ Cardinality(Dead(booking')) = Cardinality(Dead(booking)) - Cardinality(S)
  BY <1>8, DeadFinite
<1>10. Cardinality(Dead(booking')) \in Nat /\ Cardinality(Dead(booking')) <= MaxDue
         /\ "holds" \in AllTables
  BY DeadFinite, SweepingAssumption DEF AllTables
<1>11. Dues' /\ due'["holds"] = Cardinality(Dead(booking'))
  BY <1>8, <1>9, <1>10, WorkerAssumption DEF Gone, MixedInv, Dues, DueDead
<1> QED BY <1>4, <1>5, <1>6, <1>11

LEMMA ConfirmsKeep ==
  ASSUME MixedInv, mixed # "none", NEW m \in Mixers, NEW token, NEW i \in Holds, NEW op,
         \/ op = "confirm" /\ token = "none"
         \/ op = "mint_confirm",
         ~Doing(m, "ended"), Confirms(m, op, i, token),
         UNCHANGED <<mixed, known, capacity, edge, swept, failed, lingering, report>>
  PROVE  MixedInv'
<1>1. mixer \in [Mixers -> Operations] /\ AnswersExpected /\ known \subseteq Holds
        /\ Reservations(booking) /\ capacity' \in [Units -> Nat]
  BY DEF MixedInv, MixedShape
<1>2. PICK dead \in SUBSET ({i} \cap DeadHolds) :
        \/ /\ Refusals(i, token, dead) = {}
           /\ booking' = [booking EXCEPT ![i] = Confirmed(@)]
           /\ Gone({i} \cap DeadHolds) /\ Answers(m, op, "ok")
        \/ \E code \in Refusals(i, token, dead) : UNCHANGED <<booking, due>> /\ Answers(m, op, code)
  BY DEF Confirms
<1>3. CASE \E code \in Refusals(i, token, dead) : UNCHANGED <<booking, due>> /\ Answers(m, op, code)
  <2>1. PICK code \in Refusals(i, token, dead) : UNCHANGED <<booking, due>> /\ Answers(m, op, code)
    BY <1>3
  <2>2. code \in Tolerated(op)
    BY DEF Refusals, Expected, Tolerated
  <2>3. mixer' \in [Mixers -> Operations] /\ AnswersExpected' /\ unexpected \subseteq unexpected'
    BY <1>1, <2>1, <2>2, AnswersKeep
  <2>4. /\ Edge(booking, edge) /\ Dues' /\ due'["holds"] = Cardinality(Dead(booking))
        /\ Orderly(booking, capacity)
    BY <2>1 DEF MixedInv, MixedShape, Dues, DueDead
  <2> QED BY <1>1, <2>1, <2>3, <2>4, WorkerStep
<1>4. CASE /\ Refusals(i, token, dead) = {}
           /\ booking' = [booking EXCEPT ![i] = Confirmed(@)]
           /\ Gone({i} \cap DeadHolds) /\ Answers(m, op, "ok")
  <2>1. mixer' \in [Mixers -> Operations] /\ AnswersExpected' /\ unexpected \subseteq unexpected'
    BY <1>1, <1>4, AnswersKeep DEF Expected, Tolerated
  <2>2. Held(i) /\ FitsIn(booking[i], capacity)
    BY <1>4 DEF Refusals
  <2>3. booking[i] \in HeldRow /\ booking[i].status = "held"
    BY <1>1, <2>2, HeldShape DEF Held, Reservations
  <2>4. PICK r : r = Confirmed(booking[i])
    OBVIOUS
  <2>5. /\ r \in BookingRows /\ r.status = "confirmed" /\ booking' = [booking EXCEPT ![i] = r]
        /\ r.asg = booking[i].asg /\ r.start = booking[i].start /\ r.party = booking[i].party
    BY <1>1, <1>4, <2>3, <2>4 DEF BookingRows, TakenRow, HeldRow, Confirmed, Reservations
  <2>6. Taken(booking[i])
    BY <2>3 DEF Taken
  <2>7. /\ Reservations(booking') /\ Edge(booking', edge) /\ Orderly(booking', capacity)
        /\ By(booking', "system:sweeper") = By(booking, "system:sweeper")
        /\ Dues' /\ due'["holds"] = Cardinality(Dead(booking'))
    BY <1>4, <2>2, <2>3, <2>5, <2>6, Undue
  <2> QED BY <1>1, <2>1, <2>7, WorkerStep
<1> QED BY <1>2, <1>3, <1>4

LEMMA ConfirmItKeeps ==
  ASSUME MixedInv, mixed # "none", NEW m \in Mixers, ConfirmIt(m)
  PROVE  MixedInv'
<1>1. UNCHANGED <<mixed, known, capacity, edge, swept, failed, lingering, report>>
  BY DEF ConfirmIt, loops
<1>2. \/ Doing(m, "confirm_or_mint") /\ Confirms(m, "confirm", mixer[m].id, "none")
      \/ Doing(m, "mint_confirm") /\ Confirms(m, "mint_confirm", mixer[m].id, m)
  BY DEF ConfirmIt
<1> QED BY <1>1, <1>2, OperationId, ConfirmsKeep

LEMMA MintItKeeps ==
  ASSUME MixedInv, mixed # "none", NEW m \in Mixers, MintIt(m)
  PROVE  MixedInv'
<1>1. UNCHANGED <<due, mixed, known, capacity, edge, swept, failed, lingering, report>>
        /\ Doing(m, "confirm_or_mint")
  BY DEF MintIt, workerVars
<1>2. /\ mixer \in [Mixers -> Operations] /\ AnswersExpected /\ known' \subseteq Holds
      /\ Reservations(booking) /\ capacity' \in [Units -> Nat]
      /\ mixer[m].id \in Holds /\ ~Doing(m, "ended") /\ "system:sweeper" \in Actors
  BY <1>1, OperationId DEF MixedInv, MixedShape, Actors
<1>3. PICK i \in Holds : i = mixer[m].id
  BY <1>2
<1>4. CASE /\ Held(i) /\ booking' = [booking EXCEPT ![i].token = m]
           /\ mixer' = [mixer EXCEPT ![m].op = "mint_confirm"] /\ unexpected' = unexpected
  <2>1. mixer' \in [Mixers -> Operations] /\ AnswersExpected' /\ unexpected \subseteq unexpected'
    BY <1>1, <1>2, <1>4 DEF Operations, Doing, AnswersExpected
  <2>2. booking[i] \in HeldRow /\ booking[i].status = "held"
    BY <1>2, <1>4, HeldShape DEF Held, Reservations
  <2>3. PICK r : r = [booking[i] EXCEPT !.token = m]
    OBVIOUS
  <2>4. r \in HeldRow /\ r = [booking[i] EXCEPT !.token = r.token]
          /\ booking' = [booking EXCEPT ![i] = r]
    BY <1>2, <1>4, <2>2, <2>3 DEF HeldRow, Reservations
  <2>5. /\ Reservations(booking') /\ Edge(booking', edge) /\ Orderly(booking', capacity)
        /\ By(booking', "system:sweeper") = By(booking, "system:sweeper")
        /\ Dues' /\ due'["holds"] = Cardinality(Dead(booking'))
    BY <1>1, <1>2, <2>2, <2>4, TakenStep
  <2> QED BY <1>1, <1>2, <2>1, <2>5, WorkerStep
<1>5. CASE booking' = booking /\ Answers(m, "mint_confirm", "token_requires_held")
  <2>1. mixer' \in [Mixers -> Operations] /\ AnswersExpected' /\ unexpected \subseteq unexpected'
    BY <1>2, <1>5, AnswersKeep DEF Expected, Tolerated
  <2>2. /\ Edge(booking, edge) /\ Dues' /\ due'["holds"] = Cardinality(Dead(booking))
        /\ Orderly(booking, capacity)
    BY <1>1 DEF MixedInv, MixedShape, Dues, DueDead
  <2> QED BY <1>1, <1>2, <1>5, <2>1, <2>2, WorkerStep
<1> QED BY <1>3, <1>4, <1>5 DEF MintIt

LEMMA CancelItKeeps ==
  ASSUME MixedInv, mixed # "none", NEW m \in Mixers, CancelIt(m)
  PROVE  MixedInv'
<1>1. UNCHANGED <<mixed, known, capacity, edge, swept, failed, lingering, report>>
        /\ Doing(m, "cancel")
  BY DEF CancelIt, loops
<1>2. /\ mixer \in [Mixers -> Operations] /\ AnswersExpected /\ known' \subseteq Holds
      /\ Reservations(booking) /\ Edge(booking, edge) /\ Orderly(booking, capacity)
      /\ capacity' \in [Units -> Nat]
      /\ mixer[m].id \in Holds /\ ~Doing(m, "ended")
  BY <1>1, OperationId DEF MixedInv, MixedShape
<1>3. PICK i \in Holds : i = mixer[m].id
  BY <1>2
<1>4. CASE /\ i \in Occupying
           /\ booking' = [booking EXCEPT ![i] = [status |-> "cancelled"]]
           /\ Gone({i} \cap DeadHolds) /\ Answers(m, "cancel", "ok")
  <2>1. mixer' \in [Mixers -> Operations] /\ AnswersExpected' /\ unexpected \subseteq unexpected'
    BY <1>2, <1>4, AnswersKeep DEF Expected, Tolerated
  <2>2. PICK r : r = [status |-> "cancelled"]
    OBVIOUS
  <2>3. r \in BookingRows /\ r.status = "cancelled" /\ booking[i].status # "expired" /\ ~Taken(r)
    BY <1>4, <2>2 DEF BookingRows, Occupying, Taken
  <2>4. /\ Reservations(booking') /\ Edge(booking', edge) /\ Orderly(booking', capacity)
        /\ By(booking', "system:sweeper") = By(booking, "system:sweeper")
        /\ Dues' /\ due'["holds"] = Cardinality(Dead(booking'))
    BY <1>4, <2>2, <2>3, Undue
  <2> QED BY <1>1, <1>2, <2>1, <2>4, WorkerStep
<1>5. CASE UNCHANGED <<booking, due>> /\ Answers(m, "cancel", "invalid_transition")
  <2>1. mixer' \in [Mixers -> Operations] /\ AnswersExpected' /\ unexpected \subseteq unexpected'
    BY <1>2, <1>5, AnswersKeep DEF Expected, Tolerated
  <2>2. Dues' /\ due'["holds"] = Cardinality(Dead(booking))
    BY <1>5 DEF MixedInv, Dues, DueDead
  <2> QED BY <1>1, <1>2, <1>5, <2>1, <2>2, WorkerStep
<1> QED BY <1>3, <1>4, <1>5 DEF CancelIt

LEMMA EditItKeeps ==
  ASSUME MixedInv, mixed # "none", NEW m \in Mixers, EditIt(m)
  PROVE  MixedInv'
<1>1. UNCHANGED <<due, booking, mixed, known, edge, swept, failed, lingering, report>>
        /\ ~Doing(m, "ended")
  BY DEF EditIt, workerVars, Doing
<1>2. /\ mixer \in [Mixers -> Operations] /\ AnswersExpected /\ known' \subseteq Holds
      /\ Reservations(booking) /\ Edge(booking, edge) /\ Orderly(booking, capacity)
      /\ capacity \in [Units -> Nat]
      /\ Dues' /\ due'["holds"] = Cardinality(Dead(booking))
  BY <1>1 DEF MixedInv, MixedShape, Dues, DueDead
<1>3. PICK u \in Units, c \in Capacities, dead \in SUBSET DeadHolds :
        \/ /\ c = capacity[u]
             \/ {i \in Occupying \ dead : booking[i].asg = {u} /\ booking[i].party > c} = {}
           /\ capacity' = [capacity EXCEPT ![u] = c] /\ Answers(m, "capacity_edit", "ok")
        \/ capacity' = capacity /\ Answers(m, "capacity_edit", "capacity_conflict")
  BY DEF EditIt
<1>4. mixer' \in [Mixers -> Operations] /\ AnswersExpected' /\ unexpected \subseteq unexpected'
  BY <1>2, <1>3, AnswersKeep DEF Expected, Tolerated
<1>5. c \in Nat /\ capacity' \in [Units -> Nat]
  BY <1>2, <1>3, MixedAssumption
<1>6. CASE capacity' = capacity
  BY <1>1, <1>2, <1>4, <1>5, <1>6, WorkerStep
<1>7. CASE /\ {i \in Occupying \ dead : booking[i].asg = {u} /\ booking[i].party > c} = {}
           /\ capacity' = [capacity EXCEPT ![u] = c]
  <2>1. ASSUME NEW i \in Holds, Taken(booking[i]), i \notin Dead(booking)
        PROVE  FitsIn(booking[i], capacity')
    <3>1. FitsIn(booking[i], capacity)
      BY <1>2, <2>1 DEF Orderly, Fitting
    <3>2. i \in Occupying \ dead
      BY <2>1 DEF Occupying, Taken, Dead, DeadHolds, Held
    <3>3. booking[i].asg = {u} => ~(booking[i].party > c)
      BY <1>7, <3>2
    <3>4. booking[i].party \in Nat
      BY <1>2, <2>1, TakenNumbers DEF Reservations
    <3>5. ASSUME NEW v \in Units, booking[i].asg = {v} PROVE booking[i].party <= capacity'[v]
      <4>1. CASE v = u
        BY <1>2, <1>5, <1>7, <3>3, <3>4, <3>5, <4>1
      <4>2. CASE v # u
        BY <1>2, <1>7, <3>1, <3>5, <4>2 DEF FitsIn
      <4> QED BY <4>1, <4>2
    <3> QED BY <3>5 DEF FitsIn
  <2>2. Orderly(booking', capacity')
    BY <1>1, <1>2, <2>1 DEF Orderly, Fitting
  <2> QED BY <1>1, <1>2, <1>4, <1>5, <2>2, WorkerStep
<1>8. CASE c = capacity[u] /\ capacity' = [capacity EXCEPT ![u] = c]
  <2>1. capacity' = capacity
    BY <1>2, <1>8
  <2> QED BY <1>6, <2>1
<1> QED BY <1>3, <1>6, <1>7, <1>8

\* A step of the ager, of time or of the sweeper: no expired row is added or removed.
LEMMA RunStep ==
  ASSUME MixedInv, mixed # "none",
         UNCHANGED <<mixed, mixer, known, capacity, swept, unexpected, lingering, report>>,
         Reservations(booking'), Edge(booking', edge'), Orderly(booking', capacity),
         \A a \in Actors : By(booking', a) = By(booking, a),
         Dues', due'["holds"] = Cardinality(Dead(booking')),
         failed' = failed \/ failed' = TRUE, pc["sweeper"] = "ended" => pc'["sweeper"] = "ended"
  PROVE  MixedInv'
<1>1. "system:sweeper" \in Actors /\ "system:conflict" \in Actors
  BY DEF Actors
<1>2. MixedShape'
  BY <1>1 DEF MixedInv, MixedShape, AnswersExpected
<1>3. DueDead' /\ LeftFailed' /\ MixedStages' /\ VerdictFounded'
  BY DEF MixedInv, MixedStages, DueDead, LeftFailed, VerdictFounded, Doing
<1>4. ExpiryAttributed'
  <2>1. ExpiryAttributed
    BY DEF MixedInv
  <2>2. \A a \in Actors : {i \in Holds : booking'[i] = [status |-> "expired", actor |-> a]}
                          = {i \in Holds : booking[i] = [status |-> "expired", actor |-> a]}
    BY DEF By, ByActor
  <2> QED BY <1>1, <2>1, <2>2 DEF ExpiryAttributed, MixedInvalid
<1> QED BY <1>2, <1>3, <1>4 DEF MixedInv

\* The row of a hold whose expiry is moved.
LEMMA Moved ==
  ASSUME MixedInv, NEW i \in Holds, Held(i), booking[i].expiry # "past",
         NEW e \in {"near", "past"}, booking' = [booking EXCEPT ![i].expiry = e]
  PROVE  /\ Reservations(booking') /\ Orderly(booking', capacity)
         /\ \A a \in Actors : By(booking', a) = By(booking, a)
         /\ Dead(booking') = IF e = "past" THEN Dead(booking) \cup {i} ELSE Dead(booking)
         /\ booking'[i].expiry = e /\ \A j \in Holds \ {i} : booking'[j] = booking[j]
<1>1. Reservations(booking) /\ Orderly(booking, capacity)
  BY DEF MixedInv, MixedShape
<1>2. booking[i] \in HeldRow /\ booking[i].status = "held" /\ i \notin Dead(booking)
  BY <1>1, HeldShape DEF Held, Reservations, Dead
<1>3. PICK r : r = [booking[i] EXCEPT !.expiry = e]
  OBVIOUS
<1>4. /\ r \in BookingRows /\ r.status = "held" /\ r.expiry = e /\ booking' = Put(booking, i, r)
      /\ r.asg = booking[i].asg /\ r.start = booking[i].start /\ r.party = booking[i].party
  BY <1>1, <1>2, <1>3 DEF TakenRow, HeldRow, BookingRows, Reservations, Put
<1>5. r.status # "expired" /\ booking[i].status # "expired" /\ Taken(booking[i])
  BY <1>2, <1>4 DEF Taken
<1>6. /\ Reservations(booking') /\ \A a \in Actors : By(booking', a) = By(booking, a)
      /\ r.status = "held" /\ r.expiry = "past" => Dead(booking') = Dead(booking) \cup {i}
      /\ ~(r.status = "held" /\ r.expiry = "past") => Dead(booking') = Dead(booking) \ {i}
  <2>1. /\ Reservations(Put(booking, i, r))
        /\ \A a \in Actors : By(Put(booking, i, r), a) = By(booking, a)
        /\ r.status = "held" /\ r.expiry = "past" => Dead(Put(booking, i, r)) = Dead(booking) \cup {i}
        /\ ~(r.status = "held" /\ r.expiry = "past")
             => Dead(Put(booking, i, r)) = Dead(booking) \ {i}
    BY <1>1, <1>4, <1>5, Replaced
  <2> QED BY <1>4, <2>1
<1>7. Orderly(booking', capacity)
  <2>1. Orderly(Put(booking, i, r), capacity)
    BY <1>1, <1>2, <1>4, <1>5, ReplacedOrderly
  <2> QED BY <1>4, <2>1
<1>8. Dead(booking') = IF e = "past" THEN Dead(booking) \cup {i} ELSE Dead(booking)
  BY <1>2, <1>4, <1>6
<1>9. booking'[i].expiry = e /\ \A j \in Holds \ {i} : booking'[j] = booking[j]
  BY <1>1, <1>4 DEF Put, Reservations
<1> QED BY <1>6, <1>7, <1>8, <1>9

LEMMA AgerKeeps ==
  ASSUME MixedInv, mixed # "none", Ager
  PROVE  MixedInv'
<1>1. /\ UNCHANGED <<mixed, mixer, known, capacity, swept, unexpected, report, due, pc, lingering>>
      /\ failed' = failed \/ failed' = TRUE
  BY DEF Ager, AgerBegins, AgerSelects, AgerUpdates, AgerFails
<1>2. /\ Reservations(booking) /\ Edge(booking, edge) /\ Orderly(booking, capacity)
      /\ Dues' /\ due'["holds"] = Cardinality(Dead(booking))
  BY <1>1 DEF MixedInv, MixedShape, Dues, DueDead
<1>3. CASE AgerBegins \/ AgerSelects \/ AgerFails
  <2>1. booking' = booking /\ Edge(booking, edge')
    BY <1>2, <1>3 DEF AgerBegins, AgerSelects, AgerFails, Edge, Held
  <2> QED BY <1>1, <1>2, <2>1, RunStep
<1>4. CASE AgerUpdates
  <2>1. PICK i \in edge : /\ edge' = edge \ {i}
                          /\ booking' = IF Held(i) THEN [booking EXCEPT ![i].expiry = "near"] ELSE booking
    BY <1>4 DEF AgerUpdates
  <2>2. CASE ~Held(i)
    <3>1. booking' = booking /\ Edge(booking, edge')
      BY <1>2, <2>1, <2>2 DEF Edge
    <3> QED BY <1>1, <1>2, <3>1, RunStep
  <2>3. CASE Held(i)
    <3>1. i \in Holds /\ booking[i].expiry # "past" /\ booking' = [booking EXCEPT ![i].expiry = "near"]
      BY <1>2, <2>1, <2>3 DEF Held, Edge
    <3>2. /\ Reservations(booking') /\ Orderly(booking', capacity)
          /\ \A a \in Actors : By(booking', a) = By(booking, a)
          /\ Dead(booking') = Dead(booking)
          /\ \A j \in Holds \ {i} : booking'[j] = booking[j]
      BY <2>3, <3>1, Moved
    <3>3. Edge(booking', edge')
      BY <1>2, <2>1, <3>2 DEF Edge
    <3> QED BY <1>1, <1>2, <3>2, <3>3, RunStep
  <2> QED BY <2>2, <2>3
<1> QED BY <1>3, <1>4 DEF Ager

LEMMA DiesKeeps ==
  ASSUME MixedInv, mixed # "none", NEW i \in Holds, Dies(i)
  PROVE  MixedInv'
<1>1. /\ UNCHANGED <<mixed, mixer, known, capacity, swept, unexpected, report, failed, pc, edge,
           lingering>>
      /\ Held(i) /\ booking[i].expiry = "near" /\ booking' = [booking EXCEPT ![i].expiry = "past"]
      /\ due["holds"] < MaxDue /\ due' = [due EXCEPT !["holds"] = @ + 1]
  BY DEF Dies, Arrive
<1>2. Edge(booking, edge) /\ due["holds"] = Cardinality(Dead(booking)) /\ Dues
  BY DEF MixedInv, MixedShape, DueDead
<1>3. i \notin edge /\ i \notin Dead(booking)
  BY <1>1, <1>2 DEF Held, Edge, Dead
<1>4. /\ Reservations(booking') /\ Orderly(booking', capacity)
      /\ \A a \in Actors : By(booking', a) = By(booking, a)
      /\ Dead(booking') = Dead(booking) \cup {i}
      /\ \A j \in Holds \ {i} : booking'[j] = booking[j]
  BY <1>1, Moved
<1>5. Cardinality(Dead(booking')) = Cardinality(Dead(booking)) + 1
  BY <1>3, <1>4, DeadFinite
<1>6. Edge(booking', edge')
  BY <1>1, <1>2, <1>3, <1>4 DEF Edge
<1>7. "holds" \in AllTables
  BY SweepingAssumption DEF AllTables
<1>8. Dues' /\ due'["holds"] = Cardinality(Dead(booking'))
  BY <1>1, <1>2, <1>5, <1>7, WorkerAssumption DEF Dues
<1> QED BY <1>1, <1>4, <1>6, <1>8, RunStep

LEMMA SweepsKeeps ==
  ASSUME LoopInv, MixedInv, mixed # "none", Sweeps
  PROVE  MixedInv'
<1>1. PICK S \in SUBSET DeadHolds :
        /\ booking' = Expired(S, "system:sweeper")
        /\ \/ Batch("sweeper") /\ swept' = swept \cup S /\ failed' = failed
           \/ Fail("sweeper") /\ swept' = swept /\ failed' = TRUE
           \/ LeftEnds("sweeper") /\ UNCHANGED <<swept, failed>>
        /\ Gone(S)
  BY DEF Sweeps
<1>2. UNCHANGED <<mixed, known, capacity, mixer, edge, unexpected, report>>
        /\ "system:sweeper" \in Actors
  BY DEF Sweeps, Actors
<1>3. /\ Reservations(booking') /\ Edge(booking', edge) /\ Orderly(booking', capacity)
      /\ By(booking', "system:sweeper") = By(booking, "system:sweeper") \cup S
      /\ Dues' /\ due'["holds"] = Cardinality(Dead(booking'))
  BY <1>1, <1>2, ExpiryRows
<1>4. LeftEnds("sweeper") => failed
  BY DEF LeftEnds, MixedInv, LeftFailed
<1>5. MixedShape'
  BY <1>1, <1>2, <1>3, <1>4 DEF MixedInv, MixedShape, AnswersExpected
<1>6. DueDead' /\ VerdictFounded'
  BY <1>2, <1>3 DEF DueDead, VerdictFounded, MixedInv
<1>7. LeftFailed'
  <2>1. CASE failed'
    BY <2>1 DEF LeftFailed
  <2>2. CASE Batch("sweeper") /\ failed' = failed
    BY <1>2, <2>2 DEF Batch, MixedInv, LeftFailed
  <2> QED BY <1>1, <1>4, <2>1, <2>2
<1>8. MixedStages' /\ ExpiryAttributed'
  <2>1. CASE Batch("sweeper") \/ Fail("sweeper")
    <3>1. pc["sweeper"] # "ended" /\ mixed # "counted"
      BY <2>1 DEF Batch, Fail, MixedInv, MixedStages
    <3> QED BY <1>2, <3>1 DEF MixedInv, MixedStages, ExpiryAttributed, Doing
  <2>2. CASE LeftEnds("sweeper")
    <3>1. pc' = pc /\ failed'
      BY <1>1, <1>4, <2>2 DEF LeftEnds
    <3> QED BY <1>2, <3>1 DEF MixedInv, MixedStages, ExpiryAttributed, MixedInvalid, Doing
  <2> QED BY <1>1, <2>1, <2>2
<1> QED BY <1>3, <1>5, <1>6, <1>7, <1>8 DEF MixedInv

LEMMA CountKeeps ==
  ASSUME MixedInv, Count
  PROVE  MixedInv'
<1>1. /\ mixed = "stopping" /\ mixed' = "counted" /\ pc["sweeper"] = "ended" /\ Tallied
      /\ UNCHANGED <<pc, due, booking, capacity, known, mixer, ager, edge, swept, unexpected,
           failed, lingering>>
  BY DEF Count, Leave, floor
<1>2. MixedShape' /\ Dues' /\ DueDead' /\ LeftFailed' /\ MixedStages'
  BY <1>1 DEF MixedInv, MixedShape, Dues, DueDead, LeftFailed, MixedStages, AnswersExpected, Doing
<1>3. PICK E : E = {i \in Holds : booking[i].status = "expired"}
  OBVIOUS
<1>4. PICK v \in Verdicts : report' = [sweeper |-> Cardinality(swept),
                                       hold |-> Cardinality(E) - Cardinality(swept), verdict |-> v]
  BY <1>1, <1>3 DEF Tallied
<1>5. VerdictFounded'
  <2>1. Overlapping = {} /\ Misfits = {}
    <3>1. Orderly(booking, capacity)
      BY DEF MixedInv, MixedShape
    <3>2. Overlapping = {}
      BY <3>1 DEF Orderly, Apart, Overlapping, Occupying, Taken
    <3>3. Misfits = {}
      BY <3>1 DEF Orderly, Fitting, Misfits, LiveHolds, DeadHolds, Held, Dead, Occupying, Taken
    <3> QED BY <3>2, <3>3
  <2>2. v = "fail" => unexpected # {}
    BY <2>1 DEF Verdicts
  <2> QED BY <1>1, <1>4, <2>2 DEF VerdictFounded
<1>6. CASE ~failed
  <2>1. swept = By(booking, "system:sweeper") /\ Reservations(booking)
    BY <1>6 DEF MixedInv, MixedShape
  <2>2. \A i \in Holds : booking[i].status = "expired" <=>
          booking[i] = ByActor("system:sweeper") \/ booking[i] = ByActor("system:conflict")
    BY <2>1, RowShapes DEF Reservations, ByActor, Actors
  <2>3. ByActor("system:sweeper") # ByActor("system:conflict")
    BY DEF ByActor
  <2>4. E \cap swept = swept /\ E \ swept = By(booking, "system:conflict") /\ E \in SUBSET Holds
    BY <1>3, <2>1, <2>2, <2>3 DEF By
  <2>5. IsFiniteSet(E) /\ Cardinality(E \ swept) = Cardinality(E) - Cardinality(E \cap swept)
    BY <2>4, MixedAssumption, FS_Subset, FS_Difference
  <2>6. /\ report'.sweeper = Cardinality(By(booking, "system:sweeper"))
        /\ report'.hold = Cardinality(By(booking, "system:conflict"))
    BY <1>4, <2>1, <2>4, <2>5
  <2>7. ExpiryAttributed'
    BY <1>1, <2>6 DEF ExpiryAttributed, By, ByActor
  <2> QED BY <1>2, <1>5, <2>7 DEF MixedInv
<1>7. CASE failed
  BY <1>1, <1>2, <1>5, <1>7 DEF ExpiryAttributed, MixedInvalid, MixedInv
<1> QED BY <1>6, <1>7

LEMMA SweeperRestFrame ==
  ASSUME SweeperRest
  PROVE  UNCHANGED <<due, lingering>> /\ (pc["sweeper"] = "ended" => pc'["sweeper"] = "ended")
BY DEF SweeperRest, Acquire, Tick, Close, EndPool, Exit

LEMMA MixedKeeps ==
  ASSUME LoopInv, MixedInv, mixed # "none", MixedNext
  PROVE  MixedInv'
<1>1. CASE \E m \in Mixers : Draw(m) \/ HoldIt(m) \/ ConfirmIt(m) \/ MintIt(m) \/ CancelIt(m)
        \/ EditIt(m)
  BY <1>1, DrawKeeps, HoldItKeeps, ConfirmItKeeps, MintItKeeps, CancelItKeeps, EditItKeeps
<1>2. CASE Ager
  BY <1>2, AgerKeeps
<1>3. CASE StopMixed
  <2>1. /\ UNCHANGED <<due, booking, capacity, edge, mixer, known, unexpected, failed, swept, report,
             lingering>>
        /\ mixed' = "stopping" /\ \A m \in Mixers : Doing(m, "ended")
    BY <1>3 DEF StopMixed, floor
  <2> QED BY <2>1 DEF MixedInv, MixedShape, Dues, DueDead, LeftFailed, MixedStages, ExpiryAttributed,
        VerdictFounded, AnswersExpected, Doing
<1>4. CASE Count
  BY <1>4, CountKeeps
<1>5. CASE TimeUp
  <2>1. /\ UNCHANGED <<due, booking, capacity, edge, mixer, known, unexpected, failed, swept, report,
             lingering>>
        /\ mixed' = "waiting"
    BY <1>5 DEF TimeUp, floor, workerVars
  <2> QED BY <2>1 DEF MixedInv, MixedShape, Dues, DueDead, LeftFailed, MixedStages, ExpiryAttributed,
        VerdictFounded, AnswersExpected
<1>6. CASE AgerTimer \/ (SweeperRest /\ UNCHANGED mixedVars)
  <2>1. /\ UNCHANGED <<mixed, mixer, known, capacity, swept, unexpected, report, failed, edge, booking,
             due, lingering>>
        /\ pc["sweeper"] = "ended" => pc'["sweeper"] = "ended"
    BY <1>6, SweeperRestFrame DEF AgerTimer, floor, workerVars, mixedVars
  <2>2. /\ Reservations(booking) /\ Edge(booking, edge) /\ Orderly(booking, capacity)
        /\ Dues' /\ due["holds"] = Cardinality(Dead(booking))
    BY <2>1 DEF MixedInv, MixedShape, Dues, DueDead
  <2> QED BY <2>1, <2>2, RunStep
<1>7. CASE Sweeps
  BY <1>7, SweepsKeeps
<1>8. CASE \E i \in Holds : Dies(i)
  BY <1>8, DiesKeeps
<1> QED BY <1>1, <1>2, <1>3, <1>4, <1>5, <1>6, <1>7, <1>8 DEF MixedNext, Mixed

LEMMA Induct ==
  ASSUME NEW n \in Nat, NEW S, 0 \in S, \A k \in 0..(n - 1) : k \in S => k + 1 \in S
  PROVE  0..n \subseteq S
<1> SUFFICES ASSUME (0..n) \ S # {} PROVE FALSE
  OBVIOUS
<1> DEFINE F == {0..k : k \in (0..n) \ S}
<1>1. ASSUME NEW k \in 0..n PROVE 0..k \in FiniteSubsetsOf(Nat)
  <2>1. 0 \in Int /\ k \in Int /\ 0..k \in SUBSET Nat
    OBVIOUS
  <2> QED BY <2>1, FS_Interval DEF FiniteSubsetsOf
<1>2. F \subseteq FiniteSubsetsOf(Nat) /\ F # {}
  BY <1>1
<1>3. \E x \in F : \A y \in F : <<y, x>> \notin StrictSubsetOrdering(Nat)
  BY <1>2, FS_StrictSubsetOrderingWellFounded, WFMin
<1>4. PICK k \in (0..n) \ S : \A j \in (0..n) \ S : <<0..j, 0..k>> \notin StrictSubsetOrdering(Nat)
  BY <1>3
<1>5. k # 0 /\ k - 1 \in 0..(n - 1) /\ k - 1 \in (0..n) \ S
  BY <1>4
<1>6. 0..(k - 1) \in SUBSET Nat /\ 0..k \in SUBSET Nat /\ 0..(k - 1) \subseteq 0..k
        /\ 0..(k - 1) # 0..k
  BY <1>5
<1> QED BY <1>4, <1>5, <1>6 DEF StrictSubsetOrdering

\* A nonempty bounded set of naturals has a greatest element.
LEMMA MaxOf ==
  ASSUME NEW n \in Nat, NEW T \in SUBSET (0..n), T # {}
  PROVE  Max(T) \in T /\ \A x \in T : x <= Max(T)
<1> DEFINE S == {k \in 0..n : T \cap (0..k) = {} \/ \E m \in T : m <= k
      /\ \A x \in T \cap (0..k) : x <= m}
<1>1. 0 \in S
  <2>1. CASE 0 \in T
    BY <2>1
  <2>2. CASE 0 \notin T
    BY <2>2
  <2> QED BY <2>1, <2>2
<1>2. ASSUME NEW k \in 0..(n - 1), k \in S PROVE k + 1 \in S
  <2>1. CASE k + 1 \in T
    BY <2>1
  <2>2. CASE k + 1 \notin T
    <3>1. T \cap (0..(k + 1)) = T \cap (0..k) /\ k + 1 \in 0..n
      BY <2>2
    <3> QED BY <3>1, <1>2
  <2> QED BY <2>1, <2>2
<1> HIDE DEF S
<1>3. n \in S
  BY <1>1, <1>2, Induct
<1>4. \E m \in T : \A x \in T : m >= x
  BY <1>3 DEF S
<1>5. Max(T) \in T /\ \A x \in T : Max(T) >= x
  BY <1>4 DEF Max
<1> QED BY <1>5

\* The fold that SequencesExt defines, over the positions 1..n with weights w.
Folds(g, w, n) ==
  g = [t \in SUBSET (1..n) |-> IF t = {} THEN 0 ELSE g[t \ {Max(t)}] + w[Max(t)]]

LEMMA MaxPosition ==
  ASSUME NEW n \in Nat, NEW t \in SUBSET (1..n), t # {}
  PROVE  Max(t) \in t /\ Max(t) \in 1..n /\ t \ {Max(t)} \subseteq 1..(Max(t) - 1)
<1>1. t \in SUBSET (0..n)
  OBVIOUS
<1>2. Max(t) \in t /\ \A x \in t : x <= Max(t)
  BY <1>1, MaxOf
<1>3. Max(t) \in 1..n
  BY <1>2
<1>4. ASSUME NEW x \in t \ {Max(t)} PROVE x \in 1..(Max(t) - 1)
  <2>1. x \in 1..n /\ x <= Max(t) /\ x # Max(t)
    BY <1>2
  <2> QED BY <1>3, <2>1
<1> QED BY <1>2, <1>3, <1>4

LEMMA FoldsExists ==
  ASSUME NEW n \in Nat, NEW w
  PROVE  \E g : Folds(g, w, n)
<1> DEFINE S == {k \in 0..n : \E g : Folds(g, w, k)}
<1>1. 0 \in S
  <2> DEFINE g == [t \in SUBSET (1..0) |-> 0]
  <2>1. g = [t \in SUBSET (1..0) |-> IF t = {} THEN 0 ELSE g[t \ {Max(t)}] + w[Max(t)]]
    OBVIOUS
  <2> QED BY <2>1 DEF Folds
<1>2. ASSUME NEW k \in 0..(n - 1), k \in S PROVE k + 1 \in S
  <2>1. PICK g : Folds(g, w, k)
    BY <1>2
  <2> DEFINE h == [t \in SUBSET (1..(k + 1)) |-> IF t = {} THEN 0 ELSE g[t \ {Max(t)}] + w[Max(t)]]
  <2>2. ASSUME NEW t \in SUBSET (1..(k + 1)), t # {} PROVE h[t \ {Max(t)}] = g[t \ {Max(t)}]
    <3> DEFINE u == t \ {Max(t)}
    <3>1. Max(t) \in 1..(k + 1) /\ u \subseteq 1..(Max(t) - 1)
      BY <2>2, MaxPosition
    <3>2. u \in SUBSET (1..k) /\ u \in SUBSET (1..(k + 1))
      BY <3>1
    <3>3. g[u] = IF u = {} THEN 0 ELSE g[u \ {Max(u)}] + w[Max(u)]
      BY <2>1, <3>2 DEF Folds
    <3>4. h[u] = IF u = {} THEN 0 ELSE g[u \ {Max(u)}] + w[Max(u)]
      BY <3>2
    <3> QED BY <3>3, <3>4
  <2>3. h = [t \in SUBSET (1..(k + 1)) |-> IF t = {} THEN 0 ELSE h[t \ {Max(t)}] + w[Max(t)]]
    BY <2>2
  <2>4. Folds(h, w, k + 1)
    BY <2>3 DEF Folds
  <2> QED BY <2>4
<1> HIDE DEF S
<1>3. n \in S
  BY <1>1, <1>2, Induct
<1> QED BY <1>3 DEF S

LEMMA FoldsStep ==
  ASSUME NEW n \in Nat, NEW w, NEW g, Folds(g, w, n)
  PROVE  /\ g[1..0] = 0
         /\ \A k \in 1..n : g[1..k] = g[1..(k - 1)] + w[k]
<1>1. g[1..0] = 0
  <2>1. 1..0 = {} /\ 1..0 \in SUBSET (1..n)
    OBVIOUS
  <2> QED BY <2>1 DEF Folds
<1>2. ASSUME NEW k \in 1..n PROVE g[1..k] = g[1..(k - 1)] + w[k]
  <2>1. 1..k \in SUBSET (1..n) /\ 1..k # {} /\ k \in 1..k /\ k \in Nat /\ 1..k \in SUBSET (1..k)
    OBVIOUS
  <2>2. Max(1..k) = k
    <3>1. Max(1..k) \in 1..k /\ (1..k) \ {Max(1..k)} \subseteq 1..(Max(1..k) - 1)
      BY <2>1, MaxPosition
    <3> QED BY <2>1, <3>1
  <2>3. (1..k) \ {k} = 1..(k - 1)
    OBVIOUS
  <2> QED BY <2>1, <2>2, <2>3 DEF Folds
<1> QED BY <1>1, <1>2

LEMMA FoldsAgree ==
  ASSUME NEW n \in Nat, NEW m \in Nat, n <= m, NEW v, NEW w, \A i \in 1..n : v[i] = w[i]
         /\ v[i] \in Nat,
         NEW g, Folds(g, v, n), NEW h, Folds(h, w, m)
  PROVE  g[1..n] = h[1..n] /\ g[1..n] \in Nat
<1> DEFINE S == {k \in 0..n : g[1..k] = h[1..k] /\ g[1..k] \in Nat}
<1>1. 0 \in S
  BY FoldsStep
<1>2. ASSUME NEW k \in 0..(n - 1), k \in S PROVE k + 1 \in S
  <2>1. k + 1 \in 1..n /\ k + 1 \in 1..m /\ (k + 1) - 1 = k
    OBVIOUS
  <2>2. g[1..(k + 1)] = g[1..k] + v[k + 1] /\ h[1..(k + 1)] = h[1..k] + w[k + 1]
    BY <2>1, FoldsStep
  <2> QED BY <1>2, <2>1, <2>2
<1> HIDE DEF S
<1>3. n \in S
  BY <1>1, <1>2, Induct
<1> QED BY <1>3 DEF S

Total(s) == FoldLeft(LAMBDA a, x : a + x.holds, 0, s)

LEMMA TotalFolds ==
  ASSUME NEW R, NEW s \in Seq(R)
  PROVE  \E g : Folds(g, [i \in 1..Len(s) |-> s[i].holds], Len(s)) /\ Total(s) = g[1..Len(s)]
<1> DEFINE n == Len(s)
           w == [i \in 1..n |-> s[i].holds]
           F(it) == it = [t \in SUBSET DOMAIN s |-> IF t = {} THEN 0 ELSE it[t \ {Max(t)}] + s[Max(t)].holds]
<1>1. Total(s) = (CHOOSE it : F(it))[DOMAIN s]
  BY DEF Total, FoldLeft, MapThenFoldSet
<1>2. n \in Nat /\ DOMAIN s = 1..n
  OBVIOUS
<1>3. ASSUME NEW g PROVE F(g) <=> Folds(g, w, n)
  <2>1. \A t \in SUBSET (1..n) : t # {} => w[Max(t)] = s[Max(t)].holds
    BY <1>2, MaxPosition
  <2>2. [t \in SUBSET (1..n) |-> IF t = {} THEN 0 ELSE g[t \ {Max(t)}] + w[Max(t)]]
        = [t \in SUBSET DOMAIN s |-> IF t = {} THEN 0 ELSE g[t \ {Max(t)}] + s[Max(t)].holds]
    BY <1>2, <2>1
  <2> QED BY <2>2 DEF Folds
<1> HIDE DEF w, F
<1>4. PICK g : F(g)
  BY <1>2, <1>3, FoldsExists
<1>5. F(CHOOSE it : F(it))
  BY <1>4
<1>6. Folds(CHOOSE it : F(it), w, n)
  BY <1>3, <1>5
<1> QED BY <1>1, <1>2, <1>6 DEF w

LEMMA TotalAppend ==
  ASSUME NEW R, \A x \in R : x.holds \in Nat, NEW s \in Seq(R), NEW x \in R
  PROVE  Total(Append(s, x)) = Total(s) + x.holds /\ Total(s) \in Nat
<1> DEFINE n == Len(s)
           r == Append(s, x)
           w == [i \in 1..n |-> s[i].holds]
           v == [i \in 1..(n + 1) |-> r[i].holds]
<1>1. n \in Nat /\ Len(r) = n + 1 /\ r \in Seq(R) /\ r[n + 1] = x /\ \A i \in 1..n : r[i] = s[i]
        /\ s[i] \in R
  OBVIOUS
<1>2. PICK g : Folds(g, w, n) /\ Total(s) = g[1..n]
  BY TotalFolds
<1>3. PICK h : Folds(h, v, n + 1) /\ Total(r) = h[1..(n + 1)]
  BY <1>1, TotalFolds
<1>4. \A i \in 1..n : w[i] = v[i] /\ w[i] \in Nat
  BY <1>1
<1>5. v[n + 1] = x.holds
  BY <1>1
<1> HIDE DEF v, w
<1>6. g[1..n] = h[1..n] /\ g[1..n] \in Nat
  <2>1. n + 1 \in Nat /\ n <= n + 1
    BY <1>1
  <2> HIDE DEF n
  <2> QED BY <1>1, <1>2, <1>3, <1>4, <2>1, FoldsAgree
<1>7. h[1..(n + 1)] = h[1..n] + v[n + 1]
  <2>1. n + 1 \in Nat /\ n + 1 \in 1..(n + 1) /\ (n + 1) - 1 = n
    BY <1>1
  <2> QED BY <1>3, <2>1, FoldsStep
<1> QED BY <1>2, <1>3, <1>5, <1>6, <1>7

LEMMA TotalEmpty == Total(<<>>) = 0
<1>1. PICK s \in Seq(Nat) : s = <<>>
  BY EmptySeq
<1>2. PICK g : Folds(g, [i \in 1..Len(s) |-> s[i].holds], Len(s)) /\ Total(s) = g[1..Len(s)]
  BY TotalFolds
<1>3. Len(s) = 0
  BY <1>1
<1> QED BY <1>1, <1>2, <1>3, FoldsStep

-----------------------------------------------------------------------------
(* The churn run's samples. *)

SampleRow == [at: Nat, holds: Nat, partial: BOOLEAN]
Whole(s) == \A i \in 1..Len(s) : ~s[i].partial
Spaced(s) ==
  /\ \A i \in 1..(Len(s) - 1) : ~s[i].partial
  /\ \A i \in 2..Len(s) : s[i].partial \/ s[i].at >= s[i - 1].at + SampleEvery

Before == {"none", "measuring", "waiting", "last"}
After == {"stopping", "cleaning", "checking", "returned"}

SamplesInv ==
  /\ samples \in Seq(SampleRow) /\ latencies \in Nat /\ clock \in Nat
  /\ answered = latencies + Total(samples)
  /\ Spaced(samples) /\ (run \in Before => Whole(samples))
  /\ run \in Before \cup After
  /\ run # "measuring" => \A w \in Churners : churner[w] = "ended"
  /\ run \notin {"measuring", "waiting"} => sampler = "ended"
  /\ Len(samples) > 0 =>
       /\ sampler = "query" => clock >= samples[Len(samples)].at + SampleEvery
       /\ sampler = "sleep" => since = samples[Len(samples)].at
  /\ run \in After /\ ~broken => Len(samples) > 0 /\ samples[Len(samples)].partial /\ latencies = 0

\* A sample after those that the sampler took.
LEMMA SampledKeeps ==
  ASSUME SamplesInv, NEW partial \in BOOLEAN, Sampled(partial), run \in Before,
         answered' = answered,
         partial \/ sampler = "query"
  PROVE  /\ samples' \in Seq(SampleRow) /\ latencies' = 0
         /\ answered' = latencies' + Total(samples')
         /\ Spaced(samples') /\ (~partial => Whole(samples'))
         /\ Len(samples') > 0 /\ samples'[Len(samples')].at = clock
         /\ samples'[Len(samples')].partial = partial
<1>1. PICK x : x = [at |-> clock, holds |-> latencies, partial |-> partial]
  OBVIOUS
<1>2. PICK n : n = Len(samples)
  OBVIOUS
<1>3. x \in SampleRow /\ x.at = clock /\ x.holds = latencies /\ x.partial = partial
        /\ \A y \in SampleRow : y.holds \in Nat
  BY <1>1 DEF SamplesInv, SampleRow
<1>4. samples \in Seq(SampleRow) /\ samples' = Append(samples, x) /\ latencies' = 0 /\ n \in Nat
  BY <1>1, <1>2 DEF Sampled, SamplesInv
<1>5. samples' \in Seq(SampleRow) /\ Len(samples') = n + 1 /\ samples'[n + 1] = x
        /\ \A i \in 1..n : samples'[i] = samples[i]
  BY <1>2, <1>3, <1>4
<1>6. Total(samples') = Total(samples) + x.holds /\ Total(samples) \in Nat
  BY <1>3, <1>4, TotalAppend
<1>7. answered' = latencies' + Total(samples')
  BY <1>3, <1>4, <1>6 DEF SamplesInv
<1>8. \A i \in 1..n : ~samples[i].partial
  BY <1>2 DEF SamplesInv, Whole
<1>9. Spaced(samples')
  <2>1. \A i \in 1..((n + 1) - 1) : ~samples'[i].partial
    BY <1>4, <1>5, <1>8
  <2>2. ASSUME NEW i \in 2..(n + 1) PROVE samples'[i].partial
               \/ samples'[i].at >= samples'[i - 1].at + SampleEvery
    <3>1. CASE i = n + 1
      <4>1. i - 1 = n /\ n \in 1..n /\ n > 0
        BY <1>4, <3>1
      <4>2. sampler = "query" => clock >= samples[n].at + SampleEvery
        BY <1>2, <4>1 DEF SamplesInv
      <4> QED BY <1>3, <1>5, <3>1, <4>1, <4>2
    <3>2. CASE i # n + 1
      <4>1. i \in 2..n /\ i \in 1..n /\ i - 1 \in 1..n
        BY <1>4, <3>2
      <4>2. samples[i].partial \/ samples[i].at >= samples[i - 1].at + SampleEvery
        BY <1>2, <4>1 DEF SamplesInv, Spaced
      <4> QED BY <1>5, <4>1, <4>2
    <3> QED BY <3>1, <3>2
  <2> QED BY <1>5, <2>1, <2>2 DEF Spaced
<1>10. ~partial => Whole(samples')
  <2>1. \A i \in 1..(n + 1) : i \in 1..n \/ i = n + 1
    BY <1>4
  <2> QED BY <1>3, <1>5, <1>8, <2>1 DEF Whole
<1> QED BY <1>3, <1>4, <1>5, <1>7, <1>9, <1>10

\* A step that takes no sample.
LEMMA NoSample ==
  ASSUME SamplesInv, UNCHANGED <<samples, latencies, answered, clock>>,
         run' \in Before \cup After, run' \in Before => run \in Before,
         run' # "measuring" => \A w \in Churners : churner'[w] = "ended",
         run' \notin {"measuring", "waiting"} => sampler' = "ended",
         sampler' \in {sampler, "ended"} /\ (sampler' = "ended" \/ since' = since),
         run' \in After => run \in After /\ broken' = broken
  PROVE  SamplesInv'
BY DEF SamplesInv

\* An answer of a hold joins the buffers, before the run's end.
LEMMA HoldAnsweredKeeps ==
  ASSUME SamplesInv, NEW w \in Churners, HoldAnswered(w)
  PROVE  SamplesInv'
<1>1. UNCHANGED <<run, clock, samples, sampler, since>> /\ run = "measuring"
  BY DEF HoldAnswered, SamplesInv
<1>2. \/ answered' = answered + 1 /\ latencies' = latencies + 1
      \/ answered' = answered /\ latencies' = latencies
  BY DEF HoldAnswered
<1>3. PICK t : t = Total(samples)
  OBVIOUS
<1>4. t \in Nat
  <2>1. PICK x \in SampleRow : x = [at |-> 0, holds |-> 0, partial |-> TRUE]
    BY DEF SampleRow
  <2>2. \A y \in SampleRow : y.holds \in Nat
    BY DEF SampleRow
  <2> QED BY <1>3, <2>1, <2>2, TotalAppend DEF SamplesInv
<1>5. latencies' \in Nat /\ answered' = latencies' + t
  BY <1>2, <1>3, <1>4 DEF SamplesInv
<1>6. run \notin After
  BY <1>1 DEF After
<1> QED BY <1>1, <1>3, <1>5, <1>6 DEF SamplesInv

LEMMA ChurnKeeps ==
  ASSUME SamplesInv, run # "none", ChurnNext
  PROVE  SamplesInv' /\ run' # "none"
<1> USE DEF Before, After
<1>1. CASE \E w \in Churners : HoldAnswered(w)
  BY <1>1, HoldAnsweredKeeps DEF HoldAnswered, SamplesInv
<1>2. CASE \E w \in Churners : RestAnswered(w)
  <2>1. UNCHANGED <<samples, latencies, answered, clock, run, sampler, since>> /\ run = "measuring"
    BY <1>2 DEF RestAnswered, sampling, SamplesInv
  <2> QED BY <2>1, NoSample DEF SamplesInv
<1>3. CASE SampleAnswered
  <2>1. /\ UNCHANGED <<run, clock, answered, churner, broken>> /\ sampler = "query"
        /\ Sampled(FALSE)
        /\ sampler' \in {"ended", "sleep"} /\ since' = clock /\ run \in {"measuring", "waiting"}
    BY <1>3 DEF SampleAnswered, work, SamplesInv
  <2>2. /\ samples' \in Seq(SampleRow) /\ latencies' = 0 /\ answered' = latencies' + Total(samples')
        /\ Spaced(samples') /\ Whole(samples') /\ samples'[Len(samples')].at = clock
    BY <2>1, SampledKeeps
  <2> QED BY <2>1, <2>2 DEF SamplesInv
<1>4. CASE SampleFails
  <2>1. /\ UNCHANGED <<samples, latencies, answered, clock, run, churner, since>>
        /\ sampler' = "ended"
        /\ run \in {"measuring", "waiting"}
    BY <1>4 DEF SampleFails, work, SamplesInv
  <2> QED BY <2>1, NoSample DEF SamplesInv
<1>5. CASE WorkersDone
  <2>1. /\ UNCHANGED <<samples, latencies, answered, clock, churner, since>>
        /\ sampler' \in {sampler, "ended"}
        /\ run' = "waiting" /\ run = "measuring" /\ \A w \in Churners : churner[w] = "ended"
    BY <1>5 DEF WorkersDone, work
  <2> QED BY <2>1, NoSample
<1>6. CASE LastSample
  <2>1. /\ UNCHANGED <<samples, latencies, answered, clock, churner, sampler, since>>
        /\ sampler = "ended"
        /\ run' = "last" /\ run = "waiting"
    BY <1>6 DEF LastSample, work, sampling
  <2> QED BY <2>1, NoSample DEF SamplesInv
<1>7. CASE StopSweeper
  <2>1. /\ UNCHANGED <<clock, answered, churner, sampler, since>> /\ run = "last"
        /\ run' = "stopping"
        /\ sampler = "ended" /\ \A w \in Churners : churner[w] = "ended"
    BY <1>7 DEF StopSweeper, work, SamplesInv
  <2>2. CASE Sampled(TRUE) /\ broken' = broken
    <3>1. /\ samples' \in Seq(SampleRow) /\ latencies' = 0
          /\ answered' = latencies' + Total(samples')
          /\ Spaced(samples') /\ Len(samples') > 0 /\ samples'[Len(samples')].partial
      BY <2>1, <2>2, SampledKeeps
    <3> QED BY <2>1, <3>1 DEF SamplesInv
  <2>3. CASE broken' = TRUE /\ UNCHANGED <<samples, latencies>>
    BY <2>1, <2>3 DEF SamplesInv
  <2> QED BY <1>7, <2>2, <2>3 DEF StopSweeper
<1>8. CASE StartCleaning \/ CleanBatch \/ CleanCheck \/ CleanFails \/ Returned
  <2>1. /\ UNCHANGED <<samples, latencies, answered, clock, churner, sampler, broken>>
        /\ run \in After /\ run' \in After /\ sampler = "ended"
    BY <1>8 DEF StartCleaning, CleanBatch, CleanCheck, CleanFails, Returned, work, sampling,
       churnVars, SamplesInv
  <2> QED BY <2>1, NoSample DEF SamplesInv
<1>9. CASE SampleTimer
  <2>1. /\ UNCHANGED <<samples, latencies, answered, clock, run, churner, since, broken>>
        /\ sampler = "sleep" /\ sampler' = "query" /\ clock >= since + SampleEvery
    BY <1>9 DEF SampleTimer, work
  <2> QED BY <2>1 DEF SamplesInv
<1>10. CASE Passes
  <2>1. UNCHANGED <<samples, latencies, answered, run, churner, sampler, since, broken>>
          /\ clock' = clock + 1
    BY <1>10 DEF Passes, work, sampling
  <2>2. CASE Len(samples) = 0
    BY <2>1, <2>2 DEF SamplesInv
  <2>3. CASE Len(samples) > 0
    <3>1. samples[Len(samples)] \in SampleRow
      BY <2>3 DEF SamplesInv
    <3>2. samples[Len(samples)].at \in Nat
      BY <3>1 DEF SampleRow
    <3> QED BY <2>1, <2>3, <3>2, ChurnAssumption DEF SamplesInv
  <2> QED BY <2>2, <2>3 DEF SamplesInv
<1>11. CASE \/ Expires
            \/ (SweeperRest \/ Batch("sweeper") \/ LeftEnds("sweeper")) /\ UNCHANGED churnVars
  <2>1. UNCHANGED <<samples, latencies, answered, clock, run, churner, sampler, since, broken>>
    BY <1>11 DEF Expires, work, sampling, churnVars
  <2> QED BY <2>1 DEF SamplesInv
<1>12. CASE Fail("sweeper") /\ broken' = TRUE /\ UNCHANGED <<run, done, clock, work, sampling,
         since>>
  <2>1. UNCHANGED <<samples, latencies, answered, clock, run, churner, sampler, since>>
          /\ broken' = TRUE
    BY <1>12 DEF work, sampling
  <2> QED BY <2>1 DEF SamplesInv
<1> QED
  BY <1>1, <1>2, <1>3, <1>4, <1>5, <1>6, <1>7, <1>8, <1>9, <1>10, <1>11, <1>12
  DEF ChurnNext, Churn

-----------------------------------------------------------------------------
(* The programs. *)

\* What a step of the loops takes from the due rows, or adds to them.
LEMMA WorkerDues ==
  ASSUME LoopInv, Dues,
         \/ \E l \in Loops : Acquire(l) \/ Tick(l) \/ Batch(l) \/ Fail(l) \/ LeftEnds(l)
         \/ Process \/ Signal \/ Pause \/ \E t \in AllTables : Arrive(t)
  PROVE  Dues'
<1>1. limit \in Nat \ {0} /\ due \in [AllTables -> 0..MaxDue] /\ MaxDue \in Nat
  BY WorkerAssumption DEF LoopInv, Processes, Dues
<1>2. \A t \in AllTables : Most(t) \in 0..due[t]
  BY <1>1 DEF Most
<1>3. ASSUME NEW l \in Loops, Batch(l) PROVE Dues'
  <2>1. \A t \in Tables[l] : t \in AllTables
    BY DEF AllTables
  <2>2. PICK taken \in [Tables[l] -> 0..limit] :
          /\ \A t \in Tables[l] : taken[t] <= Most(t)
          /\ due' = [t \in AllTables |-> IF t \in Tables[l] THEN due[t] - taken[t] ELSE due[t]]
    BY <1>3 DEF Batch
  <2>3. ASSUME NEW t \in Tables[l] PROVE due[t] - taken[t] \in 0..MaxDue
    <3>1. taken[t] \in 0..limit /\ taken[t] <= Most(t) /\ Most(t) \in 0..due[t]
            /\ due[t] \in 0..MaxDue
      BY <1>1, <1>2, <2>1, <2>2
    <3> QED BY <1>1, <3>1
  <2> QED BY <1>1, <2>2, <2>3 DEF Dues
<1>4. ASSUME NEW l \in Loops, Fail(l) \/ LeftEnds(l) PROVE Dues'
  <2>1. due' \in {due, [t \in AllTables |-> due[t] - IF t \in Tables[l] THEN Most(t) ELSE 0]}
    BY <1>4 DEF Fail, LeftEnds, Emptied
  <2>2. \A t \in AllTables : due[t] - (IF t \in Tables[l] THEN Most(t) ELSE 0) \in 0..MaxDue
    BY <1>1, <1>2
  <2> QED BY <1>1, <2>1, <2>2 DEF Dues
<1>5. ASSUME NEW t \in AllTables, Arrive(t) PROVE Dues'
  BY <1>1, <1>5 DEF Arrive, Dues
<1>6. ASSUME \/ \E l \in Loops : Acquire(l) \/ Tick(l)
             \/ Process \/ Signal \/ Pause
      PROVE  Dues'
  BY <1>6 DEF Dues, Acquire, Tick, Process, Boot, Close, EndPool, Exit, Signal, Pause
<1> QED BY <1>3, <1>4, <1>5, <1>6

LEMMA SweeperLoop == "sweeper" \in Loops /\ "holds" \in AllTables
BY SweepingAssumption DEF AllTables

\* A step of the loops or of the process.
LEMMA WorkerLoops ==
  ASSUME LoopInv,
         \/ \E l \in Loops : Acquire(l) \/ Tick(l) \/ Batch(l) \/ Fail(l) \/ LeftEnds(l)
         \/ Process \/ Signal \/ Pause \/ \E t \in AllTables : Arrive(t)
  PROVE  LoopInv'
<1>1. CASE \E l \in Loops : Acquire(l) \/ Tick(l) \/ Batch(l) \/ Fail(l) \/ LeftEnds(l)
  BY <1>1, AcquireKeeps, TickKeeps, BatchKeeps, LeftEndsKeeps
<1>2. CASE Process
  BY <1>2, ProcessKeeps DEF Process
<1>3. CASE Signal
  BY <1>3, StopLoopsKeeps DEF Signal
<1>4. CASE Pause \/ \E t \in AllTables : Arrive(t)
  <2>1. UNCHANGED <<stage, limit, pc, stopped, out, faults, lingering>>
          /\ (paused' = paused \/ paused' = ~paused)
    BY <1>4 DEF Pause, Arrive
  <2>2. paused' \in BOOLEAN /\ faults' \in 0..MaxFaults /\ lingering' \in [Loops -> Nat]
    BY <2>1 DEF LoopInv, Processes
  <2> QED BY <2>1, <2>2, LoopFrame
<1> QED BY <1>1, <1>2, <1>3, <1>4

LEMMA ChurnLoops ==
  ASSUME LoopInv, Dues, ChurnNext
  PROVE  LoopInv' /\ Dues'
<1>1. limit \in Nat \ {0} /\ due \in [AllTables -> 0..MaxDue] /\ MaxDue \in Nat /\ MaxFaults \in Nat
      /\ faults \in 0..MaxFaults /\ paused \in BOOLEAN /\ "holds" \in AllTables
      /\ lingering \in [Loops -> Nat]
  BY WorkerAssumption, SweeperLoop DEF LoopInv, Processes, Dues
<1>2. CASE Expires \/ SweeperRest \/ Batch("sweeper") \/ Fail("sweeper") \/ LeftEnds("sweeper")
  <2>1. CASE SweeperRest \/ Batch("sweeper") \/ Fail("sweeper") \/ LeftEnds("sweeper")
    BY <2>1, SweeperLoop, WorkerLoops, WorkerDues DEF SweeperRest, Process
  <2>2. CASE Expires
    <3>1. Arrive("holds")
      BY <2>2 DEF Expires
    <3> QED BY <3>1, SweeperLoop, WorkerLoops, WorkerDues
  <2> QED BY <1>2, <2>1, <2>2
<1>3. CASE StopSweeper
  <2>1. StopLoops /\ UNCHANGED <<stage, limit, paused, due, out, faults, lingering>>
    BY <1>3 DEF StopSweeper
  <2> QED BY <2>1, StopLoopsKeeps DEF Dues
<1>4. CASE Returned
  <2>1. Leave /\ UNCHANGED due
    BY <1>4 DEF Returned
  <2> QED BY <2>1, ProcessKeeps DEF Dues
<1>5. CASE \/ \E w \in Churners : HoldAnswered(w) \/ RestAnswered(w)
           \/ Passes
  <2>1. UNCHANGED <<stage, limit, pc, stopped, out, faults, lingering>>
    BY <1>5 DEF HoldAnswered, RestAnswered, Passes
  <2>2. \E c, o : paused' = SweeperOff(c, o)
    BY <1>5 DEF HoldAnswered, RestAnswered, Passes, Counted
  <2>3. \A c, o : SweeperOff(c, o) \in BOOLEAN
    BY DEF SweeperOff
  <2>4. paused' \in BOOLEAN
    BY <2>2, <2>3
  <2>5. due' = due \/ (due["holds"] > 0 /\ due' = [due EXCEPT !["holds"] = @ - 1])
    BY <1>5 DEF HoldAnswered, RestAnswered, Passes
  <2>6. Dues'
    BY <1>1, <2>5 DEF Dues
  <2> QED BY <1>1, <2>1, <2>4, <2>6, LoopFrame
<1>6. CASE CleanBatch \/ CleanFails
  <2>1. UNCHANGED <<stage, limit, pc, stopped, out, paused, lingering>> /\ faults' \in 0..MaxFaults
    BY <1>1, <1>6 DEF CleanBatch, CleanFails
  <2>2. due' = due \/ due' = [due EXCEPT !["holds"] = @ - Most("holds")]
    BY <1>6 DEF CleanBatch, CleanFails
  <2>3. Most("holds") \in 0..due["holds"]
    BY <1>1 DEF Most
  <2>4. Dues'
    BY <1>1, <2>2, <2>3 DEF Dues
  <2> QED BY <1>1, <2>1, <2>4, LoopFrame
<1>7. CASE SampleAnswered \/ SampleFails \/ WorkersDone \/ LastSample \/ StartCleaning
        \/ CleanCheck \/ SampleTimer
  <2>1. UNCHANGED workerVars
    BY <1>7 DEF SampleAnswered, SampleFails, WorkersDone, LastSample, StartCleaning, CleanCheck,
       SampleTimer
  <2> QED BY <1>1, <2>1, LoopFrame DEF workerVars, Dues
<1> QED BY <1>2, <1>3, <1>4, <1>5, <1>6, <1>7 DEF ChurnNext, Churn

LEMMA MixedLoops ==
  ASSUME LoopInv, MixedNext
  PROVE  LoopInv'
<1>1. CASE \/ \E m \in Mixers : Draw(m) \/ HoldIt(m) \/ ConfirmIt(m) \/ MintIt(m) \/ CancelIt(m)
                \/ EditIt(m)
           \/ AgerTimer \/ TimeUp
  <2>1. UNCHANGED <<stage, limit, pc, stopped, paused, out, faults, lingering>>
    BY <1>1 DEF Draw, HoldIt, ConfirmIt, MintIt, CancelIt, EditIt, AgerTimer, TimeUp, workerVars,
       loops
  <2> QED BY <2>1, LoopFrame DEF LoopInv, Processes
<1>2. CASE Ager
  <2>1. UNCHANGED <<stage, limit, pc, stopped, paused, out, lingering>>
    BY <1>2 DEF Ager
  <2>2. faults' \in 0..MaxFaults
    BY <1>2, WorkerAssumption DEF Ager, AgerFails, LoopInv, Processes
  <2> QED BY <2>1, <2>2, LoopFrame DEF LoopInv, Processes
<1>3. CASE StopMixed
  BY <1>3, StopLoopsKeeps DEF StopMixed
<1>4. CASE Count
  BY <1>4, ProcessKeeps DEF Count
<1>5. CASE SweeperRest \/ Batch("sweeper") \/ Fail("sweeper") \/ LeftEnds("sweeper")
        \/ Arrive("holds")
  BY <1>5, SweeperLoop, WorkerLoops DEF SweeperRest, Process
<1> QED BY <1>1, <1>2, <1>3, <1>4, <1>5 DEF MixedNext, Mixed, Sweeps, Dies

\* One program runs at a time.
ProgramInv == LoopInv /\ MixedInv /\ SamplesInv /\ (run = "none" \/ mixed = "none")

LEMMA ProgramStart == ProgramInit => ProgramInv
<1> SUFFICES ASSUME ProgramInit PROVE ProgramInv
  OBVIOUS
<1>1. \/ WorkerInit /\ NoChurn /\ NoMixed
      \/ SweeperInit /\ ChurnInit /\ NoMixed
      \/ SweeperInit /\ MixedInit /\ NoChurn
  BY DEF ProgramInit
<1>2. LoopInv
  <2>1. /\ Batching = {} /\ stage \in {"booting", "running"} /\ limit = DesignLimit
        /\ pc \in [Loops -> PCs] /\ stopped \in [Loops -> BOOLEAN] /\ paused \in BOOLEAN
        /\ out = 0 /\ faults = 0 /\ lingering = [l \in Loops |-> 0]
    BY <1>1 DEF WorkerInit, SweeperInit, Batching, PCs
  <2>2. Cardinality(Batching) = 0
    BY <2>1, FS_EmptySet
  <2>3. Processes
    BY <2>1, WorkerAssumption DEF Processes, Stages
  <2> QED BY <2>1, <2>2, <2>3 DEF LoopInv
<1>3. Dues
  BY <1>1, WorkerAssumption DEF WorkerInit, SweeperInit, Dues
<1>4. MixedInv
  <2>1. /\ booking = [i \in Holds |-> Unused] /\ edge = {} /\ known = {}
        /\ mixer = [m \in Mixers |-> Ready] /\ capacity \in [Units -> Nat] /\ report = NoReport
        /\ unexpected = {} /\ swept = {} /\ mixed \in {"none", "running"}
        /\ lingering = [l \in Loops |-> 0]
    <3>1. capacity \in [Units -> Nat]
      <4>1. CASE NoMixed
        BY <4>1 DEF NoMixed
      <4>2. CASE MixedInit
        <5>1. capacity \in [Units -> Capacities] /\ Capacities \subseteq Nat
          BY <4>2, MixedAssumption DEF MixedInit
        <5> QED BY <5>1
      <4> QED BY <1>1, <4>1, <4>2
    <3> QED BY <1>1, <3>1 DEF NoMixed, MixedInit, WorkerInit, SweeperInit
  <2>2. Orderly(booking, capacity)
    BY <2>1 DEF Orderly, Apart, Fitting, Taken, Unused
  <2>3. MixedShape
    BY <2>1, <2>2 DEF MixedShape, Reservations, BookingRows, Edge, Operations, Ready,
       AnswersExpected, By, ByActor, Unused
  <2>4. Dead(booking) = {}
    BY <2>1 DEF Dead, Unused
  <2>5. DueDead
    BY <1>1, <2>4, FS_EmptySet, SweeperLoop DEF DueDead, NoMixed, SweeperInit
  <2>6. LeftFailed /\ VerdictFounded
    BY <2>1, SweeperLoop DEF LeftFailed, VerdictFounded, NoReport
  <2> QED BY <1>3, <2>1, <2>3, <2>5, <2>6 DEF MixedInv, MixedStages, ExpiryAttributed
<1>5. SamplesInv
  <2>1. /\ samples = <<>> /\ latencies = 0 /\ clock = 0 /\ answered = 0
        /\ run \in {"none", "measuring"}
        /\ run = "none" => sampler = "ended" /\ churner = [w \in Churners |-> "ended"]
    BY <1>1 DEF NoChurn, ChurnInit
  <2>2. samples \in Seq(SampleRow) /\ Len(samples) = 0
    BY <2>1, EmptySeq
  <2> QED BY <2>1, <2>2, TotalEmpty DEF SamplesInv, Spaced, Whole, Before, After
<1>6. run = "none" \/ mixed = "none"
  BY <1>1 DEF NoChurn, NoMixed
<1> QED BY <1>2, <1>4, <1>5, <1>6 DEF ProgramInv

\* Another program's step leaves the tables of the mixed run alone.
LEMMA MixedFrame ==
  ASSUME MixedInv, mixed = "none" \/ UNCHANGED <<due, lingering>>, Dues', UNCHANGED mixedVars,
         pc["sweeper"] = "ended" => pc'["sweeper"] = "ended" \/ mixed = "none"
  PROVE  MixedInv'
<1>1. UNCHANGED <<mixed, over, booking, capacity, known, mixer, ager, edge, swept, unexpected,
        failed, report>>
  BY DEF mixedVars, floor
<1> QED BY <1>1 DEF MixedInv, MixedShape, DueDead, LeftFailed, MixedStages, ExpiryAttributed,
      MixedInvalid, VerdictFounded, AnswersExpected, Doing

LEMMA SamplesFrame ==
  ASSUME SamplesInv, UNCHANGED churnVars
  PROVE  SamplesInv'
BY DEF SamplesInv, churnVars, work, sampling

LEMMA ProgramStep == ProgramInv /\ [ProgramNext]_allVars => ProgramInv'
<1> SUFFICES ASSUME ProgramInv, [ProgramNext]_allVars PROVE ProgramInv'
  OBVIOUS
<1>1. LoopInv /\ MixedInv /\ SamplesInv /\ Dues /\ (run = "none" \/ mixed = "none")
  BY DEF ProgramInv, MixedInv
<1>2. CASE IsWorker /\ WorkerNext /\ UNCHANGED <<churnVars, mixedVars>>
  <2>1. mixed = "none" /\ run = "none" /\ run' = run /\ mixed' = mixed
    BY <1>2 DEF IsWorker, churnVars, mixedVars
  <2>2. LoopInv' /\ Dues'
    BY <1>1, <1>2, WorkerLoops, WorkerDues DEF WorkerNext, Loop
  <2> QED BY <1>1, <1>2, <2>1, <2>2, MixedFrame, SamplesFrame DEF ProgramInv
<1>3. CASE run # "none" /\ ChurnNext /\ UNCHANGED mixedVars
  <2>1. mixed = "none" /\ mixed' = "none"
    BY <1>1, <1>3 DEF mixedVars
  <2>2. LoopInv' /\ Dues' /\ SamplesInv'
    BY <1>1, <1>3, ChurnLoops, ChurnKeeps
  <2> QED BY <1>1, <1>3, <2>1, <2>2, MixedFrame DEF ProgramInv
<1>4. CASE mixed # "none" /\ MixedNext /\ UNCHANGED churnVars
  <2>1. run = "none" /\ run' = "none"
    BY <1>1, <1>4 DEF churnVars
  <2> QED BY <1>1, <1>4, <2>1, MixedLoops, MixedKeeps, SamplesFrame DEF ProgramInv
<1>5. CASE UNCHANGED allVars
  <2>1. UNCHANGED <<workerVars, churnVars, mixedVars>>
    BY <1>5 DEF allVars
  <2>2. UNCHANGED <<stage, limit, pc, stopped, paused, due, out, faults, lingering>>
    BY <2>1 DEF workerVars
  <2>3. LoopInv' /\ Dues'
    BY <1>1, <2>2, LoopFrame DEF LoopInv, Processes, Dues
  <2>4. run' = run /\ mixed' = mixed
    BY <2>1 DEF churnVars, mixedVars
  <2> QED BY <1>1, <2>1, <2>2, <2>3, <2>4, MixedFrame, SamplesFrame DEF ProgramInv
<1> QED BY <1>2, <1>3, <1>4, <1>5 DEF ProgramNext

LEMMA ProgramInductive == ProgramSpec => []ProgramInv
BY ProgramStart, ProgramStep, PTL DEF ProgramSpec

\* Every state of the programs is of its type.
THEOREM ProgramType == ProgramSpec => []TypeOK
<1>1. ProgramInv => TypeOK
  BY DEF ProgramInv, LoopInv, MixedInv, Processes, Dues, TypeOK, PCs
<1> QED BY <1>1, ProgramInductive, PTL

\* An operation of a mixed run (mixed.ts) is answered outside its set of expected codes only
\* when its worker has as many live holds as the venue allows.
THEOREM ProgramAnswers == ProgramSpec => []AnswersExpected
<1>1. ProgramInv => AnswersExpected
  BY DEF ProgramInv, MixedInv, MixedShape
<1> QED BY <1>1, ProgramInductive, PTL

\* A mixed run is not failed for its tables: what fails it is an answer.
THEOREM ProgramVerdict == ProgramSpec => []VerdictFounded
<1>1. ProgramInv => VerdictFounded
  BY DEF ProgramInv, MixedInv
<1> QED BY <1>1, ProgramInductive, PTL

\* The report of a valid mixed run names who expired each hold.
THEOREM ProgramExpiry == ProgramSpec => []ExpiryAttributed
<1>1. ProgramInv => ExpiryAttributed
  BY DEF ProgramInv, MixedInv
<1> QED BY <1>1, ProgramInductive, PTL

\* The samples of a churn run hold every answer once, and mark the interval cut short.
THEOREM ProgramSamples == ProgramSpec => []SamplesTell
<1>1. SamplesInv => SamplesTell
  BY DEF SamplesInv, SamplesTell, Total, Spaced, After, ChurnInvalid
<1> QED BY <1>1, ProgramInductive, PTL DEF ProgramInv
=============================================================================
