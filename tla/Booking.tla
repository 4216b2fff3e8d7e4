------------------------------ MODULE Booking ------------------------------
(***************************************************************************)
(* What the engine promises, as if one client at a time used the database: *)
(* each action is one committed transaction, judged and applied at once    *)
(* against the committed tables of one venue.  Engine.tla implements it    *)
(* with locks, waits and concurrent transactions.                          *)
(***************************************************************************)
EXTENDS Rules

CONSTANTS
  Capacities,     \* capacity ranges, records [min, max]
  Blackouts,      \* blackout ids
  BlackoutRange,  \* the range of each blackout; immutable for the app role
  Ttl,            \* the venue's hold_ttl_seconds
  MaxClock        \* bound on the clock, for model checking

ASSUME BookingAssumption ==
  /\ Capacities \subseteq [min: Nat, max: Nat]
  /\ BlackoutRange \in [Blackouts -> Ranges]
  /\ Ttl \in Nat \ {0}
  /\ MaxClock \in Nat

VARIABLES
  clock,     \* the wall clock
  res,       \* the reservation table (with its unit rows)
  capacity,  \* capacity_min, capacity_max of units and combinations
  active,    \* the active flag of units and combinations
  closed     \* the state of each blackout

vars == <<clock, res, capacity, active, closed>>

BlackoutStates == {"absent", "inactive", "active"}

TypeOK ==
  /\ clock \in 0..MaxClock
  /\ res \in [Res -> Row \cup {NoRow}]
  /\ capacity \in [Assignments -> Capacities]
  /\ active \in [Assignments -> BOOLEAN]
  /\ closed \in [Blackouts -> BlackoutStates]

\* An empty venue with any capacities, activity and blackouts.
Init ==
  /\ clock = 0
  /\ res = [r \in Res |-> NoRow]
  /\ capacity \in [Assignments -> Capacities]
  /\ active \in [Assignments -> BOOLEAN]
  /\ closed \in [Blackouts -> BlackoutStates]

-----------------------------------------------------------------------------
(* Judgements of the committed configuration. *)

Fits(a, n) == capacity[a].min <= n /\ n <= capacity[a].max

Usable(a) == active[a] /\ \A u \in Members(a) : active[u]

Open(d) == \A b \in Blackouts : closed[b] = "active" => ~Overlaps(BlackoutRange[b], d)

\* What an insert or a confirmation needs of the venue.
Bookable(row) == Usable(row.asg) /\ Fits(row.asg, row.party) /\ Open(row.during)

\* The rows a new hold would clash with, once those of E are expired.
Clear(a, d, E) == \A q \in Res \ E : ~Clashes(res[q], a, d)

Within(n, cap) == cap.min <= n /\ n <= cap.max

\* A capacity change strands the reservations assigned to the unit itself; a
\* deactivation those of every combination that contains it, too.
UnitStrands(row, u, cap, act) ==
  \/ cap # capacity[u] /\ row.asg = u /\ ~Within(row.party, cap)
  \/ active[u] /\ ~act /\ u \in Members(row.asg)

-----------------------------------------------------------------------------
(* Actions. *)

Tick ==
  /\ clock < MaxClock
  /\ clock' = clock + 1
  /\ UNCHANGED <<res, capacity, active, closed>>

\* A set of holds past their expiry is expired: a sweep, or a hold that was
\* refused after it had expired the dead rows in its way.
Expire(E) ==
  /\ \A r \in E : Dead(res[r], clock)
  /\ res' = SetStatus(res, E, "expired")
  /\ UNCHANGED <<clock, capacity, active, closed>>

\* A new hold, with the dead holds E in its way expired in the same commit.
Book(r, a, n, d, x, E) ==
  LET row == [status |-> "held", asg |-> a, party |-> n, during |-> d, expires |-> x] IN
  /\ res[r] = NoRow
  /\ Bookable(row)
  /\ \A e \in E : Dead(res[e], clock)
  /\ Clear(a, d, E)
  /\ res' = [SetStatus(res, E, "expired") EXCEPT ![r] = row]
  /\ UNCHANGED <<clock, capacity, active, closed>>

\* A hold may be confirmed after its expiry by the wall clock (the transaction
\* is judged by its own start), so the configuration is judged again.
Confirm(r) ==
  /\ res[r].status = "held"
  /\ Bookable(res[r])
  /\ res' = SetStatus(res, {r}, "confirmed")
  /\ UNCHANGED <<clock, capacity, active, closed>>

Seat(r) ==
  /\ res[r].status = "confirmed"
  /\ res' = SetStatus(res, {r}, "seated")
  /\ UNCHANGED <<clock, capacity, active, closed>>

Complete(r) ==
  /\ res[r].status = "seated"
  /\ res' = SetStatus(res, {r}, "completed")
  /\ UNCHANGED <<clock, capacity, active, closed>>

Cancel(r) ==
  /\ res[r].status \in LiveStatuses
  /\ res' = SetStatus(res, {r}, "cancelled")
  /\ UNCHANGED <<clock, capacity, active, closed>>

\* A configuration write first cancels a set C of live reservations (with
\* force; C is empty without), and may leave none it strands.
CancelAll(C) ==
  /\ \A r \in C : res[r].status \in LiveStatuses
  /\ res' = SetStatus(res, C, "cancelled")

WriteUnit(u, cap, act, C) ==
  /\ CancelAll(C)
  /\ \A r \in Res \ C : Live(res[r], clock) => ~UnitStrands(res[r], u, cap, act)
  /\ capacity' = [capacity EXCEPT ![u] = cap]
  /\ active' = [active EXCEPT ![u] = act]
  /\ UNCHANGED <<clock, closed>>

WriteCombo(c, act, C) ==
  /\ CancelAll(C)
  /\ \A r \in Res \ C : Live(res[r], clock) =>
       ((active[c] /\ ~act) => res[r].asg # c)
  /\ active' = [active EXCEPT ![c] = act]
  /\ UNCHANGED <<clock, capacity, closed>>

WriteBlackout(b, s, C) ==
  /\ CancelAll(C)
  /\ \A r \in Res \ C : Live(res[r], clock) =>
       ((s = "active" /\ closed[b] # "active") => ~Overlaps(BlackoutRange[b], res[r].during))
  /\ closed' = [closed EXCEPT ![b] = s]
  /\ UNCHANGED <<clock, capacity, active>>

Next ==
  \/ Tick
  \/ \E E \in SUBSET Res : Expire(E)
  \/ \E r \in Res, a \in Assignments, n \in Parties, d \in Ranges,
        x \in Ttl..(clock + Ttl), E \in SUBSET Res : Book(r, a, n, d, x, E)
  \/ \E r \in Res : Confirm(r) \/ Seat(r) \/ Complete(r) \/ Cancel(r)
  \/ \E u \in Units, cap \in Capacities, act \in BOOLEAN, C \in SUBSET Res :
        WriteUnit(u, cap, act, C)
  \/ \E c \in Combos, act \in BOOLEAN, C \in SUBSET Res : WriteCombo(c, act, C)
  \/ \E b \in Blackouts, s \in {"inactive", "active"}, C \in SUBSET Res :
        WriteBlackout(b, s, C)

Spec == Init /\ [][Next]_vars

-----------------------------------------------------------------------------
(* What every commit preserves. *)

\* Invariant 1 of CORRECTNESS.md: no unit is occupied by two reservations with
\* overlapping ranges (completed ones and unswept dead holds included).
NoDoubleBooking ==
  \A r, q \in Res : (r # q /\ Occupies(res[q])) => ~Clashes(res[r], res[q].asg, res[q].during)

\* Invariant 4: the party of a live reservation fits its assignment.
PartyFits ==
  \A r \in Res : Live(res[r], clock) => Fits(res[r].asg, res[r].party)

\* Invariant 11: a live reservation never overlaps an active blackout.
NoBlackoutBooked ==
  \A r \in Res : Live(res[r], clock) => Open(res[r].during)

\* Invariant 12: a live reservation never uses an inactive unit or combination.
OnlyActiveAssigned ==
  \A r \in Res : Live(res[r], clock) => Usable(res[r].asg)

\* Invariant 7: a reservation enters the table as a hold and moves along the
\* transition table, keeping its assignment, party, range and expiry.
LegalSteps ==
  [][\A r \in Res : res'[r] # res[r] =>
       \/ res[r] = NoRow /\ res'[r].status = "held"
       \/ /\ <<res[r].status, res'[r].status>> \in Transitions
          /\ res'[r] = WithStatus(res[r], res'[r].status)]_vars
=============================================================================
