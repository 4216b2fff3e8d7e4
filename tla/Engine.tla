------------------------------- MODULE Engine -------------------------------
(***************************************************************************)
(* The engine's transactions as they run on Postgres at READ COMMITTED.    *)
(* Each process is a connection running one command at a time; a command   *)
(* is a sequence of statements, and a step of this module is one statement *)
(* or one lock it waits for.  A transaction sees the committed tables plus *)
(* its own pending rows (draft), holds its locks until it ends, and        *)
(* judges time by the clock at its start (now).                            *)
(*                                                                         *)
(*   venue      the venue advisory lock: shared for hold and confirm,      *)
(*              exclusive for configuration writes                         *)
(*   unitLocks  the unit advisory locks, taken in sorted order             *)
(*   rowLocks   tuple locks: of reservations, and of the unit, combination *)
(*              or blackout row a configuration write updates              *)
(*                                                                         *)
(* Configuration writes come from the admin commands and, with sql, from   *)
(* plain UPDATEs of the application role, which only the triggers guard.   *)
(* The audit log, the outbox and the row version are written in the same   *)
(* statements under the same row lock and are left out here.               *)
(***************************************************************************)
EXTENDS Rules, FiniteSets

CONSTANTS
  Capacities, Blackouts, BlackoutRange, Ttl, MaxClock,
  Procs,        \* connections
  Venues,       \* the configurations a run may start from
  Commands,     \* the commands clients may issue; bounds a run
  SweepLimit    \* rows one sweep takes (expireDue's limit)

HoldCmd == [op: {"hold"}, asg: Assignments, party: Parties, during: Ranges]
RowCmd == [op: {"confirm", "seat", "complete", "cancel"}, res: Res]
SweepCmd == [op: {"sweep"}]
UnitCmd == [op: {"unit"}, asg: Units, capacity: Capacities, active: BOOLEAN,
            force: BOOLEAN, sql: BOOLEAN]
ComboCmd == [op: {"combo"}, asg: Combos, active: BOOLEAN, force: BOOLEAN, sql: BOOLEAN]
BlackoutCmd == [op: {"blackout"}, blackout: Blackouts, active: BOOLEAN,
                force: BOOLEAN, sql: BOOLEAN]
ConfigCmd == UnitCmd \cup ComboCmd \cup BlackoutCmd
NoCmd == [op |-> "none"]

Venue == [capacity: [Assignments -> Capacities], active: [Assignments -> BOOLEAN],
          closed: [Blackouts -> {"absent", "inactive", "active"}]]

ASSUME EngineAssumption ==
  /\ Capacities \subseteq [min: Nat, max: Nat]
  /\ BlackoutRange \in [Blackouts -> Ranges]
  /\ Ttl \in Nat \ {0} /\ MaxClock \in Nat
  /\ Venues \subseteq Venue
  /\ Commands \subseteq HoldCmd \cup RowCmd \cup SweepCmd \cup ConfigCmd
  /\ SweepLimit \in Nat \ {0} /\ IsFiniteSet(Procs)
  /\ Res \cap (Assignments \cup Blackouts) = {}
  /\ Assignments \cap Blackouts = {}

VARIABLES
  clock, res, capacity, active, closed,   \* the committed state
  pc,         \* where each process is
  cmd,        \* the command it runs
  now,        \* dastar_now(): the clock when its transaction began
  venue,      \* "none", "S" or "X"
  ahead,      \* the queue for the venue lock: who waited when p joined it
  unitLocks,
  rowLocks,
  todo,       \* reservation rows its statement has yet to lock
  draft       \* its uncommitted reservation rows

tables == <<clock, res, capacity, active, closed>>
vars == <<clock, res, capacity, active, closed,
          pc, cmd, now, venue, ahead, unitLocks, rowLocks, todo, draft>>

PCs == {"idle", "begun", "venue", "units", "read", "rows", "write",
        "judge", "config", "apply", "commit"}

LockIds == Res \cup Assignments \cup Blackouts

TypeOK ==
  /\ clock \in 0..MaxClock
  /\ res \in [Res -> Row \cup {NoRow}]
  /\ capacity \in [Assignments -> Capacities]
  /\ active \in [Assignments -> BOOLEAN]
  /\ closed \in [Blackouts -> {"absent", "inactive", "active"}]
  /\ pc \in [Procs -> PCs]
  /\ cmd \in [Procs -> Commands \cup {NoCmd}]
  /\ now \in [Procs -> 0..MaxClock]
  /\ venue \in [Procs -> {"none", "S", "X"}]
  /\ ahead \in [Procs -> SUBSET Procs]
  /\ unitLocks \in [Procs -> SUBSET Units]
  /\ rowLocks \in [Procs -> SUBSET LockIds]
  /\ todo \in [Procs -> SUBSET Res]
  /\ draft \in [Procs -> [Res -> Row \cup {NoRow}]]
NoDraft == [r \in Res |-> NoRow]

Init ==
  /\ clock = 0
  /\ res = NoDraft
  /\ \E v \in Venues : capacity = v.capacity /\ active = v.active /\ closed = v.closed
  /\ pc = [p \in Procs |-> "idle"]
  /\ cmd = [p \in Procs |-> NoCmd]
  /\ now = [p \in Procs |-> 0]
  /\ venue = [p \in Procs |-> "none"]
  /\ ahead = [p \in Procs |-> {}]
  /\ unitLocks = [p \in Procs |-> {}]
  /\ rowLocks = [p \in Procs |-> {}]
  /\ todo = [p \in Procs |-> {}]
  /\ draft = [p \in Procs |-> NoDraft]

-----------------------------------------------------------------------------
(* What a transaction sees and what it judges. *)

\* The reservation table as p's statements see it: committed rows, and its own.
View(p) == [r \in Res |-> IF draft[p][r] = NoRow THEN res[r] ELSE draft[p][r]]

\* t40 re-reads capacity and activity after its unit locks; a combination needs
\* its own flag and every member's.
Usable(a) == active[a] /\ \A u \in Members(a) : active[u]
Fits(a, n) == capacity[a].min <= n /\ n <= capacity[a].max

\* t35: an active blackout of the venue overlaps the range.
Blackedout(d) == \E b \in Blackouts : closed[b] = "active" /\ Overlaps(BlackoutRange[b], d)

ConfigOps == {"unit", "combo", "blackout"}

\* What a configuration write changes for the worse; anything else is not judged.
Resizing(c) == c.op = "unit" /\ c.capacity # capacity[c.asg]
Deactivating(c) == c.op \in {"unit", "combo"} /\ active[c.asg] /\ ~c.active
Closing(c) == c.op = "blackout" /\ c.active /\ closed[c.blackout] # "active"

\* The rows a configuration write strands: the admin commands' stranded query
\* and the triggers' guards read the same set.
Strands(c, row) ==
  \/ Resizing(c) /\ row.asg = c.asg
        /\ ~(c.capacity.min <= row.party /\ row.party <= c.capacity.max)
  \/ Deactivating(c) /\ IF c.op = "unit" THEN c.asg \in Members(row.asg) ELSE row.asg = c.asg
  \/ Closing(c) /\ Overlaps(BlackoutRange[c.blackout], row.during)

Stranded(p, T) == {r \in Res : Live(T[r], now[p]) /\ Strands(cmd[p], T[r])}

Started(row, t) == row.status = "seated" \/ row.during.from <= t

\* The row a configuration write updates.
ConfigRow(c) == IF c.op = "blackout" THEN c.blackout ELSE c.asg

\* Mutant: a combination locked by its first member only.
WantedFirst(p) ==
  LET c == cmd[p]
      First(S) == {u \in S : \A v \in S : u <= v} IN
  CASE c.op = "hold" -> First(Members(c.asg))
    [] c.op = "confirm" -> First(Members(res[c.res].asg))
    [] OTHER -> {}

\* The unit locks a command takes: a hold's and a confirmation's members, and
\* those the triggers of a configuration write take.
Wanted(p) ==
  LET c == cmd[p] IN
  CASE c.op = "hold" -> Members(c.asg)
    [] c.op = "confirm" -> Members(res[c.res].asg)
    [] c.op \in {"unit", "combo"} /\ (Resizing(c) \/ Deactivating(c)) -> Members(c.asg)
    [] OTHER -> {}

-----------------------------------------------------------------------------
(* Locks. *)

\* Mutant: configuration writes that share the venue with the holds.
VenueModeShared(p) == "S"

VenueMode(p) == IF cmd[p].op \in {"hold", "confirm"} THEN "S" ELSE "X"

\* The lock manager grants a request that conflicts neither with a holder nor
\* with a request queued before it.
Blocks(p, q) ==
  \/ venue[q] = "X"
  \/ venue[q] = "S" /\ VenueMode(p) = "X"
  \/ q \in ahead[p] /\ (VenueMode(p) = "X" \/ VenueMode(q) = "X")

VenueFree(p) == \A q \in Procs \ {p} : ~Blocks(p, q)

\* Mutant: no lock on the units.
UnitFreeAlways(p, u) == TRUE

UnitFree(p, u) == \A q \in Procs \ {p} : u \notin unitLocks[q]

RowFree(p, r) == \A q \in Procs \ {p} : r \notin rowLocks[q]

\* Mutant: locks taken in any order.
AnyOf(u, S) == u \in S

Least(u, S) == u \in S /\ \A v \in S : u <= v

-----------------------------------------------------------------------------
(* Beginning and ending a transaction. *)

At(p, l, ops) == pc[p] = l /\ cmd[p].op \in ops

\* p goes on at l: into the queue for the venue lock when l waits for it, and
\* out of the queue when p leaves it.
Goto(p, l) ==
  /\ pc' = [pc EXCEPT ![p] = l]
  /\ ahead' = IF l = "venue"
              THEN [ahead EXCEPT ![p] = {q \in Procs : pc[q] = "venue"}]
              ELSE [q \in Procs |-> IF q = p THEN {} ELSE ahead[q] \ {p}]

\* The transaction ends: its locks go, and the connection is ready again.
Release(p) ==
  /\ Goto(p, "idle")
  /\ cmd' = [cmd EXCEPT ![p] = NoCmd]
  /\ now' = [now EXCEPT ![p] = 0]
  /\ venue' = [venue EXCEPT ![p] = "none"]
  /\ unitLocks' = [unitLocks EXCEPT ![p] = {}]
  /\ rowLocks' = [rowLocks EXCEPT ![p] = {}]
  /\ todo' = [todo EXCEPT ![p] = {}]
  /\ draft' = [draft EXCEPT ![p] = NoDraft]

Rollback(p) == Release(p) /\ UNCHANGED tables

Tick ==
  /\ clock < MaxClock
  /\ clock' = clock + 1
  /\ UNCHANGED <<res, capacity, active, closed,
                 pc, cmd, now, venue, ahead, unitLocks, rowLocks, todo, draft>>

\* Ids are unbounded in the code; here a hold begins only while every hold in
\* flight can still be given one of the ids that Res bounds.
IdsLeft ==
  Cardinality({q \in Procs : cmd[q].op = "hold"}) < Cardinality({r \in Res : res[r] = NoRow})

Begin(p) ==
  /\ pc[p] = "idle"
  /\ \E c \in Commands : /\ c.op = "hold" => IdsLeft
                        /\ cmd' = [cmd EXCEPT ![p] = c]
  /\ now' = [now EXCEPT ![p] = clock]
  /\ Goto(p, "begun")
  /\ UNCHANGED <<tables, venue, unitLocks, rowLocks, todo, draft>>

\* A deadline, a lock timeout, a lost connection or a refusal by a policy that
\* reads but does not write (schedule, live-holds cap, version, token).
Abort(p) == pc[p] # "idle" /\ Rollback(p)

\* The pending rows and the configuration write become visible.
Commit(p) ==
  LET c == cmd[p] IN
  /\ pc[p] = "commit"
  /\ res' = View(p)
  /\ capacity' = IF c.op = "unit" THEN [capacity EXCEPT ![c.asg] = c.capacity] ELSE capacity
  /\ active' = IF c.op \in {"unit", "combo"} THEN [active EXCEPT ![c.asg] = c.active] ELSE active
  /\ closed' = IF c.op = "blackout"
                 THEN [closed EXCEPT ![c.blackout] = IF c.active THEN "active" ELSE "inactive"]
                 ELSE closed
  /\ UNCHANGED clock
  /\ Release(p)

-----------------------------------------------------------------------------
(* Waiting for locks. *)

LockVenue(p) ==
  /\ pc[p] = "venue"
  /\ VenueFree(p)
  /\ venue' = [venue EXCEPT ![p] = VenueMode(p)]
  /\ Goto(p, IF cmd[p].op \notin ConfigOps THEN "units"
             ELSE IF cmd[p].sql THEN "apply" ELSE "judge")
  /\ UNCHANGED <<tables, cmd, now, unitLocks, rowLocks, todo, draft>>

LockUnit(p) ==
  /\ pc[p] = "units"
  /\ \E u \in Units :
       /\ Least(u, Wanted(p) \ unitLocks[p])
       /\ UnitFree(p, u)
       /\ unitLocks' = [unitLocks EXCEPT ![p] = @ \cup {u}]
       /\ Goto(p, IF Wanted(p) \subseteq unitLocks[p] \cup {u}
                  THEN CASE cmd[p].op = "hold" -> "read"
                         [] cmd[p].op = "confirm" -> "rows"
                         [] OTHER -> "apply"
                  ELSE "units")
  /\ UNCHANGED <<tables, cmd, now, venue, rowLocks, todo, draft>>

\* select ... order by id for update: one row at a time, waiting on each.
LockRow(p) ==
  /\ pc[p] = "rows"
  /\ \E r \in Res :
       /\ Least(r, todo[p])
       /\ RowFree(p, r)
       /\ rowLocks' = [rowLocks EXCEPT ![p] = @ \cup {r}]
       /\ todo' = [todo EXCEPT ![p] = @ \ {r}]
       /\ Goto(p, IF todo[p] = {r} THEN "write" ELSE "rows")
  /\ UNCHANGED <<tables, cmd, now, venue, unitLocks, draft>>
-----------------------------------------------------------------------------
(* Hold. *)

\* Pending versions of the rows of S, moved to status s.
Pending(S, s) == [r \in Res |-> IF r \in S THEN WithStatus(res[r], s) ELSE NoRow]

\* The assignment is resolved without a lock; an inactive one is refused here.
ResolveHold(p) ==
  /\ At(p, "begun", {"hold"})
  /\ \/ /\ ~active[cmd[p].asg]
        /\ Rollback(p)
     \/ /\ active[cmd[p].asg]
        /\ Goto(p, "venue")
        /\ UNCHANGED <<tables, cmd, now, venue, unitLocks, rowLocks, todo, draft>>

\* The overlap read: the occupying rows on these units over this range.
Overlapping(p) == {r \in Res : Clashes(res[r], cmd[p].asg, cmd[p].during)}

ReadOverlap(p) ==
  /\ pc[p] = "read"
  /\ todo' = [todo EXCEPT ![p] = Overlapping(p)]
  /\ Goto(p, IF Overlapping(p) = {} THEN "write" ELSE "rows")
  /\ UNCHANGED <<tables, cmd, now, venue, unitLocks, rowLocks, draft>>

\* Mutant: a hold that expires every hold in its way, dead or not.
HeldInTheWay(p) == {r \in rowLocks[p] \cap Res : res[r].status = "held"}

\* The locked rows this hold expires before it books.
InTheWay(p) == {r \in rowLocks[p] \cap Res : Dead(res[r], now[p])}

NewRow(p) == [status |-> "held", asg |-> cmd[p].asg, party |-> cmd[p].party,
              during |-> cmd[p].during, expires |-> now[p] + Ttl]

\* Mutant: a constraint over the live reservations only.
LiveConflict(p) ==
  \E r \in Res \ InTheWay(p) :
    Live(res[r], now[p]) /\ Clashes(res[r], cmd[p].asg, cmd[p].during)

\* reservation_unit_no_overlap, once the rows in the way have been expired.
Conflict(p) ==
  \E r \in Res \ InTheWay(p) : Clashes(res[r], cmd[p].asg, cmd[p].during)

BookHold(p) ==
  LET c == cmd[p] IN
  /\ At(p, "write", {"hold"})
  /\ ~Blackedout(c.during) /\ Usable(c.asg) /\ Fits(c.asg, c.party) /\ ~Conflict(p)
  /\ \E r \in Res :
       /\ res[r] = NoRow /\ RowFree(p, r)
       /\ draft' = [draft EXCEPT ![p] = [Pending(InTheWay(p), "expired") EXCEPT ![r] = NewRow(p)]]
       /\ rowLocks' = [rowLocks EXCEPT ![p] = @ \cup {r}]
  /\ Goto(p, "commit")
  /\ UNCHANGED <<tables, cmd, now, venue, unitLocks, todo>>

\* A blackout, a party that does not fit or a conflict rolls the savepoint back;
\* the outcome is stored and commits together with the expired rows.
RefuseHold(p) ==
  LET c == cmd[p] IN
  /\ At(p, "write", {"hold"})
  /\ \/ Blackedout(c.during)
     \/ Usable(c.asg) /\ (~Fits(c.asg, c.party) \/ Conflict(p))
  /\ draft' = [draft EXCEPT ![p] = Pending(InTheWay(p), "expired")]
  /\ Goto(p, "commit")
  /\ UNCHANGED <<tables, cmd, now, venue, unitLocks, rowLocks, todo>>

\* An assignment deactivated meanwhile is no stored outcome: all rolls back.
FailHold(p) ==
  /\ At(p, "write", {"hold"})
  /\ ~Blackedout(cmd[p].during) /\ ~Usable(cmd[p].asg)
  /\ Rollback(p)

-----------------------------------------------------------------------------
(* Confirm, seat, complete, cancel and the sweep. *)

\* Confirm reads the assignment without a lock, then takes the hold's locks;
\* seat, complete and cancel take the row lock alone.
FindRow(p) ==
  /\ At(p, "begun", {"confirm", "seat", "complete", "cancel"})
  /\ \/ /\ res[cmd[p].res] = NoRow
        /\ Rollback(p)
     \/ /\ res[cmd[p].res] # NoRow
        /\ todo' = [todo EXCEPT ![p] = {cmd[p].res}]
        /\ Goto(p, IF cmd[p].op = "confirm" THEN "venue" ELSE "rows")
        /\ UNCHANGED <<tables, cmd, now, venue, unitLocks, rowLocks, draft>>

\* Mutant: a confirmation that does not look at the expiry.
MayConfirmLate(row, t) ==
  /\ row.status = "held"
  /\ ~Blackedout(row.during) /\ Usable(row.asg) /\ Fits(row.asg, row.party)

\* t30, t35 and t40 on the transition from held to confirmed.
MayConfirm(row, t) ==
  /\ row.status = "held" /\ row.expires > t
  /\ ~Blackedout(row.during) /\ Usable(row.asg) /\ Fits(row.asg, row.party)

From == [seat |-> {"confirmed"}, complete |-> {"seated"}, cancel |-> LiveStatuses]
Into == [confirm |-> "confirmed", seat |-> "seated", complete |-> "completed",
         cancel |-> "cancelled"]

MayMove(p, row) ==
  IF cmd[p].op = "confirm" THEN MayConfirm(row, now[p]) ELSE row.status \in From[cmd[p].op]

WriteRow(p) ==
  LET r == cmd[p].res IN
  /\ At(p, "write", {"confirm", "seat", "complete", "cancel"})
  /\ \/ /\ ~MayMove(p, res[r])
        /\ Rollback(p)
     \/ /\ MayMove(p, res[r])
        /\ draft' = [draft EXCEPT ![p] = Pending({r}, Into[cmd[p].op])]
        /\ Goto(p, "commit")
        /\ UNCHANGED <<tables, cmd, now, venue, unitLocks, rowLocks, todo>>

\* The earliest dead rows no one has locked (skip locked), up to the limit.
Batch(S, due) ==
  /\ S \subseteq due
  /\ Cardinality(S) <= SweepLimit
  /\ \A r \in due \ S : /\ Cardinality(S) = SweepLimit
                        /\ \A q \in S : res[q].expires <= res[r].expires

Sweep(p) ==
  /\ At(p, "begun", {"sweep"})
  /\ \E S \in SUBSET {r \in Res : Dead(res[r], now[p]) /\ RowFree(p, r)} :
       /\ Batch(S, {r \in Res : Dead(res[r], now[p]) /\ RowFree(p, r)})
       /\ rowLocks' = [rowLocks EXCEPT ![p] = S]
       /\ draft' = [draft EXCEPT ![p] = Pending(S, "expired")]
  /\ Goto(p, "commit")
  /\ UNCHANGED <<tables, cmd, now, venue, unitLocks, todo>>

-----------------------------------------------------------------------------
(* Configuration writes. *)

\* An admin command takes the venue lock first; a plain UPDATE its row.
BeginConfig(p) ==
  /\ At(p, "begun", ConfigOps)
  /\ Goto(p, IF cmd[p].sql THEN "config" ELSE "venue")
  /\ UNCHANGED <<tables, cmd, now, venue, unitLocks, rowLocks, todo, draft>>

\* The stranded read and settleStranded: nothing stranded goes on; without
\* force, or with a started reservation among them, the write is refused.
Judge(p) ==
  LET S == Stranded(p, res) IN
  /\ pc[p] = "judge"
  /\ \/ /\ S = {}
        /\ Goto(p, "config")
        /\ UNCHANGED <<tables, cmd, now, venue, unitLocks, rowLocks, todo, draft>>
     \/ /\ S # {} /\ (~cmd[p].force \/ \E r \in S : Started(res[r], now[p]))
        /\ Rollback(p)
     \/ /\ S # {} /\ cmd[p].force /\ \A r \in S : ~Started(res[r], now[p])
        /\ todo' = [todo EXCEPT ![p] = S]
        /\ Goto(p, "rows")
        /\ UNCHANGED <<tables, cmd, now, venue, unitLocks, rowLocks, draft>>

\* The forced cancellation of the locked rows that are still live.
ForceCancel(p) ==
  /\ At(p, "write", ConfigOps)
  /\ draft' = [draft EXCEPT ![p] =
                 Pending({r \in rowLocks[p] \cap Res : Live(res[r], now[p])}, "cancelled")]
  /\ Goto(p, "config")
  /\ UNCHANGED <<tables, cmd, now, venue, unitLocks, rowLocks, todo>>

\* The UPDATE locks its row; its triggers then take the locks they need.
LockConfigRow(p) ==
  LET t == ConfigRow(cmd[p]) IN
  /\ pc[p] = "config"
  /\ RowFree(p, t)
  /\ rowLocks' = [rowLocks EXCEPT ![p] = @ \cup {t}]
  /\ Goto(p, IF cmd[p].op = "blackout" /\ cmd[p].sql THEN "venue"
             ELSE IF Wanted(p) # {} THEN "units" ELSE "apply")
  /\ UNCHANGED <<tables, cmd, now, venue, unitLocks, todo, draft>>

\* t44, t45 and the blackout guard: judged again, now under every lock.
Apply(p) ==
  /\ pc[p] = "apply"
  /\ \/ /\ Stranded(p, View(p)) # {}
        /\ Rollback(p)
     \/ /\ Stranded(p, View(p)) = {}
        /\ Goto(p, "commit")
        /\ UNCHANGED <<tables, cmd, now, venue, unitLocks, rowLocks, todo, draft>>

-----------------------------------------------------------------------------

Step(p) ==
  \/ ResolveHold(p) \/ ReadOverlap(p) \/ BookHold(p) \/ RefuseHold(p) \/ FailHold(p)
  \/ FindRow(p) \/ WriteRow(p) \/ Sweep(p)
  \/ BeginConfig(p) \/ Judge(p) \/ ForceCancel(p) \/ LockConfigRow(p) \/ Apply(p)
  \/ LockVenue(p) \/ LockUnit(p) \/ LockRow(p)
  \/ Commit(p)

Next == Tick \/ \E p \in Procs : Begin(p) \/ Step(p) \/ Abort(p)

Spec == Init /\ [][Next]_vars
\* Postgres queues lock requests in order, so a transaction whose lock keeps
\* coming free gets it; a statement that waits for nothing runs to its end.
FairSpec == Spec /\ \A p \in Procs : SF_vars(Step(p))

-----------------------------------------------------------------------------
(* Properties. *)

\* The abstract database of one client at a time, on the same tables.
Abstract == INSTANCE Booking
  WITH clock <- clock, res <- res, capacity <- capacity, active <- active, closed <- closed

\* Every commit of the concurrent engine is one atomic transaction of Booking.
Atomic == Abstract!Spec

\* Invariant 1 of CORRECTNESS.md, on the committed tables, at every moment of every
\* interleaving of the commands' statements.
NoDoubleBooking == Abstract!NoDoubleBooking
PartyFits == Abstract!PartyFits
NoBlackoutBooked == Abstract!NoBlackoutBooked
OnlyActiveAssigned == Abstract!OnlyActiveAssigned

\* Invariants 4, 11 and 12: whatever a configuration write and the bookings that
\* race it have read and waited for, no live reservation is left with a party that
\* does not fit its assignment, in a blackout, or on an inactive unit.
NothingStranded == PartyFits /\ NoBlackoutBooked /\ OnlyActiveAssigned

\* When a hold inserts, every reservation that clashes with it is among the
\* rows its overlap statement locked: the read before the waits missed nothing.
OverlapSetComplete ==
  \A p \in Procs : At(p, "write", {"hold"}) => Overlapping(p) \subseteq rowLocks[p]

\* No transaction has a pending unit row that clashes with an insert about to
\* run, so an insert never waits on the exclusion constraint.
InsertNeverWaits ==
  \A p, q \in Procs : (p # q /\ At(p, "write", {"hold"})) =>
     \A r \in Res : (res[r] = NoRow /\ draft[q][r] # NoRow) =>
        ~Clashes(draft[q][r], cmd[p].asg, cmd[p].during)

\* Invariant 2: a confirmation commits only if its transaction began before the
\* hold expired, however long it then waited.
NoLateConfirm ==
  [][\A p \in Procs : (cmd[p].op = "confirm" /\ res' # res /\ pc'[p] # pc[p]) =>
       now[p] < res[cmd[p].res].expires]_vars

\* Every transaction ends: no command waits for a lock forever.
TransactionsEnd == \A p \in Procs : pc[p] # "idle" ~> pc[p] = "idle"

\* Whom p waits for, where its next step needs a lock: the holder of a venue,
\* unit or row lock, whoever is before it in the venue's queue, or the writer of
\* a pending row that its insert clashes with.
WaitsFor(p, q) ==
  /\ p # q
  /\ \/ pc[p] = "venue" /\ Blocks(p, q)
     \/ pc[p] = "units" /\ \E u \in unitLocks[q] : Least(u, Wanted(p) \ unitLocks[p])
     \/ pc[p] = "rows" /\ \E r \in rowLocks[q] : Least(r, todo[p])
     \/ pc[p] = "config" /\ ConfigRow(cmd[p]) \in rowLocks[q]
     \/ /\ At(p, "write", {"hold"})
        /\ \E r \in Res : /\ res[r] = NoRow /\ draft[q][r] # NoRow
                          /\ Clashes(draft[q][r], cmd[p].asg, cmd[p].during)

\* No transactions wait for one another in a circle: in any group of connections
\* there is one that waits for none of the group.  Plain UPDATEs of blackouts, which
\* lock their row before the venue, may (CORRECTNESS.md says so).
NoDeadlock ==
  (\A c \in Commands : c.op = "blackout" => ~c.sql) =>
    \A S \in SUBSET Procs : S # {} => \E p \in S : \A q \in S : ~WaitsFor(p, q)

\* "Force cancels only reservations that are not seated and whose start has not
\* passed" (CORRECTNESS.md, Admin writes).
ForceSparesSeated ==
  \A p \in Procs : At(p, "commit", ConfigOps) =>
     \A r \in Res : draft[p][r] # NoRow => res[r].status # "seated"
=============================================================================
