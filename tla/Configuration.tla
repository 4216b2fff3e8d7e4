---------------------------- MODULE Configuration ----------------------------
(***************************************************************************)
(* A venue's configuration: the admin commands that write it (admin.ts,    *)
(* admin-units.ts, admin-calendar.ts), beside the plain SQL of the         *)
(* application role, and the readers, which keep the units and             *)
(* combinations of a configuration version in one cache of the handle      *)
(* (commands/availability.ts).                                             *)
(*                                                                         *)
(* A writer is a transaction of several statements.  Whether a change      *)
(* strands reservations, and what force does then, is in Engine; here it   *)
(* is a refusal that may happen.  Every write of a row makes its trigger   *)
(* update the venue's row, whose lock is then held until the transaction   *)
(* ends, so one venue has one uncommitted writer at a time.                *)
(***************************************************************************)
EXTENDS Naturals, Sequences

CONSTANTS
  Venues,
  Rows,         \* ids of units, combinations, service periods and blackouts
  Venue,        \* the venue of a row
  Kind,         \* "unit", "combo", "blackout" or "schedule"
  First,        \* the row each id begins as, or Absent
  Commands,     \* what writers may send: [kind, row, set], set a part of a row
  Writers, Readers,
  CacheMax,     \* venues the cache keeps
  MaxVersion,   \* bounds the writes of a venue
  None

Absent == [x \in {} |-> 0]
Cached == {r \in Rows : Kind[r] \in {"unit", "combo"}}

ASSUME ConfigurationAssumption ==
  /\ Venue \in [Rows -> Venues]
  /\ Kind \in [Rows -> {"unit", "combo", "blackout", "schedule"}]
  /\ DOMAIN First = Rows
  /\ \A c \in Commands : c.kind \in {"admin", "plain", "create"} /\ c.row \in Rows
  /\ CacheMax \in Nat \ {0} /\ MaxVersion \in Nat
  /\ None \notin Writers

VARIABLES
  rows,         \* the committed rows
  version,      \* config_version
  lock,         \* the venue lock, which every admin write takes exclusively
  tx,           \* the writers
  reader,       \* the readers
  cache,        \* the entries: a function from venues
  order,        \* its venues, the least recently used first
  meant         \* ghost: the row the committed commands have asked for

vars == <<rows, version, lock, tx, reader, cache, order, meant>>
writing == <<rows, version, lock, tx, meant>>
reads == <<reader, cache, order>>

Idle == [pc |-> "idle"]

Init ==
  /\ rows = First
  /\ version = [v \in Venues |-> 0]
  /\ lock = [v \in Venues |-> None]
  /\ tx = [w \in Writers |-> Idle]
  /\ reader = [p \in Readers |-> Idle]
  /\ cache = [v \in {} |-> 0] /\ order = <<>>
  /\ meant = First

-----------------------------------------------------------------------------
(* Rows. *)

\* The fields of s replace those of row.
Set(row, s) == [f \in DOMAIN row |-> IF f \in DOMAIN s THEN s[f] ELSE row[f]]

\* A period closes the next day when it closes at or before it opens.
NextDay(row) == row.closes <= row.opens

\* closes_next_day follows from the final times, in the statement that writes them.
Derived(r, new) ==
  IF Kind[r] = "schedule" THEN [new EXCEPT !.next = NextDay(new)] ELSE new

\* What a command makes of the row it starts from.
Apply(c, old) == Derived(c.row, IF c.kind = "create" THEN c.set ELSE Set(old, c.set))

-----------------------------------------------------------------------------
(* Writers. *)

At(w, l) == tx[w].pc = l
Goto(w, l) == tx' = [tx EXCEPT ![w].pc = l]
RowOf(w) == tx[w].cmd.row
VenueOf(w) == Venue[RowOf(w)]

\* The row a command starts from: units, combinations and blackouts are read first,
\* and written back whole.
ReadsFirst(c) == c.kind = "admin" /\ Kind[c.row] # "schedule"

Begin(w) ==
  /\ At(w, "idle")
  /\ \E c \in Commands :
       tx' = [tx EXCEPT ![w] = [pc |-> IF c.kind = "plain" THEN "write" ELSE "lock", cmd |-> c,
                                cur |-> Absent, new |-> Absent]]
  /\ UNCHANGED <<rows, version, lock, reads, meant>>

\* Mutant: the venue lock is taken shared, as bookings take it.
LockShared(w) ==
  /\ At(w, "lock")
  /\ Goto(w, IF ReadsFirst(tx[w].cmd) THEN "read" ELSE "write")
  /\ UNCHANGED <<rows, version, lock, reads, meant>>

\* adminWrite and adminTx: the venue lock before anything else.
Lock(w) ==
  /\ At(w, "lock") /\ lock[VenueOf(w)] = None
  /\ lock' = [lock EXCEPT ![VenueOf(w)] = w]
  /\ Goto(w, IF ReadsFirst(tx[w].cmd) THEN "read" ELSE "write")
  /\ UNCHANGED <<rows, version, reads, meant>>

Read(w) ==
  /\ At(w, "read") /\ rows[RowOf(w)] # Absent
  /\ tx' = [tx EXCEPT ![w].pc = "write", ![w].cur = rows[RowOf(w)]]
  /\ UNCHANGED <<rows, version, lock, reads, meant>>

\* What the statement writes: the row as it was read with the input's fields set, or
\* the stored row with them (coalesce in the statement, or SQL that names them).
Written(w) ==
  LET c == tx[w].cmd
      old == IF ReadsFirst(c) THEN tx[w].cur ELSE rows[c.row]
  IN Apply(c, old)

\* The statement and its triggers: it waits for the venue's uncommitted writer, and
\* then sees the stored row that writer has committed.
Write(w) ==
  /\ At(w, "write")
  /\ ~\E q \in Writers : At(q, "commit") /\ VenueOf(q) = VenueOf(w)
  /\ (rows[RowOf(w)] = Absent) = (tx[w].cmd.kind = "create")
  /\ version[VenueOf(w)] < MaxVersion
  /\ tx' = [tx EXCEPT ![w].pc = "commit", ![w].new = Written(w)]
  /\ UNCHANGED <<rows, version, lock, reads, meant>>

Unlock(w) ==
  /\ tx' = [tx EXCEPT ![w] = Idle]
  /\ lock' = [v \in Venues |-> IF lock[v] = w THEN None ELSE lock[v]]

\* t46 is on all four tables.
Bumps(r) == Kind[r] \in {"unit", "combo", "schedule", "blackout"}

Commit(w) ==
  LET r == RowOf(w) v == VenueOf(w) IN
  /\ At(w, "commit")
  /\ rows' = [rows EXCEPT ![r] = tx[w].new]
  /\ version' = [version EXCEPT ![v] = @ + IF Bumps(r) THEN 1 ELSE 0]
  /\ meant' = [meant EXCEPT ![r] = Apply(tx[w].cmd, @)]
  /\ Unlock(w)
  /\ UNCHANGED reads

\* Refused (no such row, reservations stranded, a CHECK), failed or cancelled: rolled back.
Abort(w) ==
  /\ ~At(w, "idle")
  /\ Unlock(w)
  /\ UNCHANGED <<rows, version, reads, meant>>

-----------------------------------------------------------------------------
(* Readers: one repeatable-read transaction each. *)

Reading(p, l) == reader[p].pc = l

\* The snapshot is taken with the first statement, before the version is read.
Open(p) ==
  /\ ~Reading(p, "asked")
  /\ \E v \in Venues :
       reader' = [reader EXCEPT ![p] = [pc |-> "asked", venue |-> v, version |-> version[v],
                                        rows |-> rows]]
  /\ UNCHANGED <<writing, cache, order>>

Content(v, t) == [r \in {q \in Cached : Venue[q] = v} |-> t[r]]
Hit(p) ==
  LET v == reader[p].venue IN v \in DOMAIN cache /\ cache[v].version = reader[p].version

\* The venues of the cache when v has been used.
Used(v) == Append(SelectSeq(order, LAMBDA u : u # v), v)

Answer(p, content) ==
  reader' = [reader EXCEPT ![p] = [pc |-> "answered", venue |-> @.venue, version |-> @.version,
                                   rows |-> @.rows, got |-> content]]

\* SnapshotCache.get: the entry becomes the most recently used.
Get(p) ==
  /\ Reading(p, "asked") /\ Hit(p)
  /\ order' = Used(reader[p].venue)
  /\ Answer(p, cache[reader[p].venue].content)
  /\ UNCHANGED <<writing, cache>>

\* A miss: the rows are read in the same transaction.
Miss(p) ==
  /\ Reading(p, "asked") /\ ~Hit(p)
  /\ reader' = [reader EXCEPT ![p].pc = "loading"]
  /\ UNCHANGED <<writing, cache, order>>

\* Mutant: each statement has a snapshot of its own.
LoadedReadCommitted(p) == Content(reader[p].venue, rows)

Loaded(p) == Content(reader[p].venue, reader[p].rows)

\* SnapshotCache.set: the entry replaces that of its venue, also a newer one, and the
\* least recently used entry gives way.
Load(p) ==
  /\ Reading(p, "loading")
  /\ LET v == reader[p].venue
         used == Used(v)
         lost == IF Len(used) > CacheMax THEN {Head(used)} ELSE {}
     IN /\ order' = IF lost = {} THEN used ELSE Tail(used)
        /\ cache' = [u \in (DOMAIN cache \cup {v}) \ lost |->
                       IF u = v THEN [version |-> reader[p].version, content |-> Loaded(p)]
                       ELSE cache[u]]
  /\ Answer(p, Loaded(p))
  /\ UNCHANGED writing

\* listUnits, listCombos and the other reads of one statement: nothing is cached.
List(p) ==
  /\ ~Reading(p, "loading") /\ ~Reading(p, "asked")
  /\ \E v \in Venues :
       reader' = [reader EXCEPT ![p] = [pc |-> "answered", venue |-> v, version |-> version[v],
                                        rows |-> rows, got |-> Content(v, rows)]]
  /\ UNCHANGED <<writing, cache, order>>

ReadFails(p) ==
  /\ Reading(p, "asked") \/ Reading(p, "loading")
  /\ reader' = [reader EXCEPT ![p] = Idle]
  /\ UNCHANGED <<writing, cache, order>>

Next ==
  \/ \E w \in Writers : Begin(w) \/ Lock(w) \/ Read(w) \/ Write(w) \/ Commit(w) \/ Abort(w)
  \/ \E p \in Readers : Open(p) \/ Get(p) \/ Miss(p) \/ Load(p) \/ List(p) \/ ReadFails(p)

Spec == Init /\ [][Next]_vars

-----------------------------------------------------------------------------
(* Properties. *)

\* A reader is given the units and combinations of its own snapshot, from the cache
\* or not: the ones its periods, closures and occupancy belong to.
AnswersTrue ==
  \A p \in Readers : Reading(p, "answered") => reader[p].got = Content(reader[p].venue, reader[p].rows)

\* No command undoes what another one changed: every field that plain SQL leaves
\* alone is what the committed commands, one after the other, make of it.  Commands
\* write back fields they read in an earlier statement; the venue lock makes that
\* safe among them, and only among them.
PlainFields(r) == UNION {DOMAIN c.set : c \in {d \in Commands : d.kind = "plain" /\ d.row = r}}
CommandsKept ==
  \A r \in Rows : rows[r] # Absent =>
    \A f \in DOMAIN rows[r] \ PlainFields(r) : rows[r][f] = meant[r][f]
=============================================================================
