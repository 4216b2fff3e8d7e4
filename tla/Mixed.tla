-------------------------------- MODULE Mixed --------------------------------
(***************************************************************************)
(* A mixed run of the harness (apps/harness/src/mixed.ts): every writer at *)
(* once.  Workers hold, confirm, cancel, mint and confirm, and edit the    *)
(* capacity of a unit; the owner moves live holds to the edge of expiry;   *)
(* the worker's sweeper runs.                                              *)
(*                                                                         *)
(* A command is one step, at its commit (module Engine has its steps); it  *)
(* judges by its start which holds are dead.  An answer that the           *)
(* environment gives (a deadline, a lost connection) is left out.          *)
(***************************************************************************)
EXTENDS Sweeping, SequencesExt

CONSTANTS
  Mixers,       \* the workers
  Holds,        \* ids; bounds the holds granted
  Parties, Capacities,
  Units,
  Combos,       \* their sets of units
  Starts,       \* of the slots
  Length,       \* of a reservation
  Cap,          \* the venue's live holds for an actor
  OverlapSet    \* BOUNDS.overlapSet

\* A combination of the seed is a pair of units.
ASSUME MixedAssumption ==
  /\ IsFiniteSet(Holds) /\ Cardinality(Holds) <= MaxDue
  /\ Parties \subseteq Nat /\ Capacities \subseteq Nat /\ Capacities # {}
  /\ IsFiniteSet(Units) /\ \A c \in Combos : c \subseteq Units /\ Cardinality(c) = 2
  /\ Starts \subseteq Nat /\ Length \in Nat \ {0}
  /\ Cap \in Nat \ {0} /\ OverlapSet \in Nat /\ OverlapSet >= 4

VARIABLES
  mixed,        \* where runMixed is; "none" in another program
  over,         \* stopped
  booking,      \* the reservations of the run
  capacity,     \* of the units
  known,        \* granted and not taken for a cancellation
  mixer,        \* the operation each worker awaits
  ager,         \* where the ager is
  edge,         \* the holds it has read and not yet moved
  swept,        \* what the sweeper told it had expired
  unexpected,   \* the codes answered outside EXPECTED
  failed,       \* a batch or an aging statement that makes the run invalid
  report        \* expired holds: by the sweeper, by a competing hold; the verdict

floor == <<booking, capacity, known>>
mixedVars == <<mixed, over, floor, mixer, ager, edge, swept, unexpected, failed, report>>

loops == <<stage, limit, pc, stopped, paused, out, lingering, faults>>

Unused == [status |-> "free"]
Ready == [op |-> "none"]
NoReport == [sweeper |-> 0, hold |-> 0, verdict |-> "none"]

\* Another program.
NoMixed ==
  /\ mixed = "none" /\ over = FALSE /\ booking = [i \in Holds |-> Unused]
  /\ capacity = [u \in Units |-> 0] /\ known = {} /\ mixer = [m \in Mixers |-> Ready]
  /\ ager = "ended" /\ edge = {} /\ swept = {} /\ unexpected = {} /\ failed = FALSE
  /\ report = NoReport

MixedInit ==
  /\ mixed = "running" /\ over = FALSE /\ booking = [i \in Holds |-> Unused]
  /\ capacity \in [Units -> Capacities] /\ known = {} /\ mixer = [m \in Mixers |-> Ready]
  /\ ager = "begin" /\ edge = {} /\ swept = {} /\ unexpected = {} /\ failed = FALSE
  /\ report = NoReport

-----------------------------------------------------------------------------
(* Reservations. *)

Held(i) == booking[i].status = "held"
DeadHolds == {i \in Holds : Held(i) /\ booking[i].expiry = "past"}
Occupying == {i \in Holds : booking[i].status \in {"held", "confirmed"}}
LiveHolds == Occupying \ DeadHolds

\* A reservation has a unit, or a combination, which every party of the run fits.
FitsIn(r, c) == \A u \in Units : r.asg = {u} => r.party <= c[u]

\* A reservation is in the way of one of the units a from s on.
Meets(r, a, s) == r.asg \cap a # {} /\ r.start < s + Length /\ s < r.start + Length

\* Some dead holds expire; the actor is in their audit entries.
Expired(S, actor) ==
  [i \in Holds |-> IF i \in S THEN [status |-> "expired", actor |-> actor] ELSE booking[i]]

Gone(S) == due' = [due EXCEPT !["holds"] = @ - Cardinality(S)]

-----------------------------------------------------------------------------
(* The workers. *)

\* Mutant: the answers of a confirmation are those of one with a token.
ExpectedOfConfirm(op) ==
  CASE op \in {"hold_unit", "hold_combo"} -> {"ok", "hold_conflict", "party_does_not_fit"}
    [] op = "cancel" -> {"ok", "invalid_transition"}
    [] op = "capacity_edit" -> {"ok", "capacity_conflict"}
    [] OTHER -> {"ok", "hold_expired", "invalid_transition", "party_does_not_fit",
                  "token_requires_held"}

Expected(op) ==
  CASE op = "hold_unit" -> {"ok", "hold_conflict", "party_does_not_fit"}
    [] op = "hold_combo" -> {"ok", "hold_conflict"}
    [] op = "confirm" -> {"ok", "hold_expired", "invalid_transition", "party_does_not_fit"}
    [] op = "cancel" -> {"ok", "invalid_transition"}
    [] op = "mint_confirm" -> {"ok", "token_requires_held", "hold_expired", "invalid_transition",
                               "party_does_not_fit", "forbidden"}
    [] op = "capacity_edit" -> {"ok", "capacity_conflict"}

Doing(m, op) == mixer[m].op = op

\* The answer is counted; the loop's next turn is Draw.
Answers(m, op, code) ==
  /\ unexpected' = unexpected \cup ({code} \ Expected(op))
  /\ mixer' = [mixer EXCEPT ![m] = Ready]

\* take removes the reservation before its cancellation is sent; peek leaves it.  Where
\* nothing depends on it, the model draws the operation itself at its first commit.
Draw(m) ==
  /\ Doing(m, "none")
  /\ \/ over /\ mixer' = [mixer EXCEPT ![m] = [op |-> "ended"]] /\ known' = known
     \/ /\ ~over /\ known' = known
        /\ mixer' = [mixer EXCEPT ![m] = [op |-> "hold_or_edit"]]
     \/ /\ ~over
        /\ \E op \in {"confirm_or_mint", "cancel"}, i \in known :
             /\ mixer' = [mixer EXCEPT ![m] = [op |-> op, id |-> i]]
             /\ known' = IF op = "cancel" THEN known \ {i} ELSE known
  /\ UNCHANGED <<workerVars, mixed, over, booking, capacity, ager, edge, swept, unexpected, failed,
                 report>>

\* A refusal that rolls the hold back, and one that is stored: the dead holds that were in
\* the way have expired.
RolledBack(m, op, code) == UNCHANGED <<booking, due, known>> /\ Answers(m, op, code)
Stored(m, op, clear, code) ==
  /\ booking' = Expired(clear, "system:conflict") /\ Gone(clear)
  /\ known' = known /\ Answers(m, op, code)

\* The bound: as long as an id is left.
Granted(m, op, clear, row) ==
  /\ \E i \in Holds :
       /\ booking[i] = Unused
       /\ booking' = [Expired(clear, "system:conflict") EXCEPT ![i] = row]
       /\ known' = known \cup {i}
  /\ Gone(clear) /\ Answers(m, op, "ok")

\* A hold on a from s on: the cap on the actor's live holds, the bound on the overlap
\* set, the dead holds in the way, then the party's fit, then the slot.
HoldOn(m, op, a, s, p, dead) ==
  LET live == {i \in Holds : Held(i) /\ booking[i].by = m} \ dead
      way == {i \in Occupying : Meets(booking[i], a, s)}
      row == [status |-> "held", expiry |-> "far", asg |-> a, start |-> s, party |-> p,
              token |-> "none", by |-> m]
  IN
  \/ Cardinality(live) >= Cap /\ RolledBack(m, op, "too_many_live_holds")
  \/ /\ Cardinality(live) < Cap /\ Cardinality(way) > OverlapSet
     /\ RolledBack(m, op, "overlap_set_too_large")
  \/ /\ Cardinality(live) < Cap /\ Cardinality(way) <= OverlapSet
     /\ \/ ~FitsIn(row, capacity) /\ Stored(m, op, way \cap dead, "party_does_not_fit")
        \/ FitsIn(row, capacity) /\ ~(way \subseteq dead) /\ Stored(m, op, way \cap dead, "hold_conflict")
        \/ FitsIn(row, capacity) /\ way \subseteq dead /\ Granted(m, op, way, row)

HoldIt(m) ==
  /\ Doing(m, "hold_or_edit")
  /\ \E s \in Starts, p \in Parties, dead \in SUBSET DeadHolds :
       \/ \E u \in Units : HoldOn(m, "hold_unit", {u}, s, p, dead)
       \/ \E a \in Combos : HoldOn(m, "hold_combo", a, s, p, dead)
  /\ UNCHANGED <<loops, mixed, over, capacity, ager, edge, swept, failed, report>>

\* The codes of a confirmation, in the order of its checks.
Refusals(i, token, dead) ==
  CASE token # "none" /\ (~Held(i) \/ booking[i].token # token) -> {"forbidden"}
    [] token = "none" /\ ~Held(i) -> {"invalid_transition"}
    [] OTHER -> (IF i \in dead THEN {"hold_expired"} ELSE {})
                \cup (IF FitsIn(booking[i], capacity) THEN {} ELSE {"party_does_not_fit"})

\* What still counts of a reservation that is confirmed.
Confirmed(r) == [status |-> "confirmed", asg |-> r.asg, start |-> r.start, party |-> r.party]

\* A hold that was dead only after the start is confirmed, and due no more.
Confirms(m, op, i, token) ==
  \E dead \in SUBSET ({i} \cap DeadHolds) :
    \/ /\ Refusals(i, token, dead) = {}
       /\ booking' = [booking EXCEPT ![i] = Confirmed(@)]
       /\ Gone({i} \cap DeadHolds) /\ Answers(m, op, "ok")
    \/ \E code \in Refusals(i, token, dead) : UNCHANGED <<booking, due>> /\ Answers(m, op, code)

ConfirmIt(m) ==
  /\ \/ Doing(m, "confirm_or_mint") /\ Confirms(m, "confirm", mixer[m].id, "none")
     \/ Doing(m, "mint_confirm") /\ Confirms(m, "mint_confirm", mixer[m].id, m)
  /\ UNCHANGED <<loops, mixed, over, capacity, known, ager, edge, swept, failed, report>>

\* A new token replaces the one before it.
MintIt(m) ==
  /\ Doing(m, "confirm_or_mint")
  /\ LET i == mixer[m].id IN
     \/ /\ Held(i)
        /\ booking' = [booking EXCEPT ![i].token = m]
        /\ mixer' = [mixer EXCEPT ![m].op = "mint_confirm"] /\ unexpected' = unexpected
     \/ /\ ~Held(i) \/ i \in DeadHolds
        /\ booking' = booking /\ Answers(m, "mint_confirm", "token_requires_held")
  /\ UNCHANGED <<workerVars, mixed, over, capacity, known, ager, edge, swept, failed, report>>

CancelIt(m) ==
  /\ Doing(m, "cancel")
  /\ LET i == mixer[m].id IN
     \/ /\ i \in Occupying
        /\ booking' = [booking EXCEPT ![i] = [status |-> "cancelled"]]
        /\ Gone({i} \cap DeadHolds) /\ Answers(m, "cancel", "ok")
     \/ /\ i \notin Occupying
        /\ UNCHANGED <<booking, due>> /\ Answers(m, "cancel", "invalid_transition")
  /\ UNCHANGED <<loops, mixed, over, capacity, known, ager, edge, swept, failed, report>>

\* Mutant: the trigger judges the holds and no confirmed reservation.
EditPastConfirmed(m) ==
  /\ Doing(m, "hold_or_edit")
  /\ \E u \in Units, c \in Capacities, dead \in SUBSET DeadHolds :
       LET stranded == {i \in Occupying \ dead :
                          Held(i) /\ booking[i].asg = {u} /\ booking[i].party > c} IN
       \/ /\ c = capacity[u] \/ stranded = {}
          /\ capacity' = [capacity EXCEPT ![u] = c] /\ Answers(m, "capacity_edit", "ok")
       \/ /\ c # capacity[u] /\ stranded # {}
          /\ capacity' = capacity /\ Answers(m, "capacity_edit", "capacity_conflict")
  /\ UNCHANGED <<workerVars, mixed, over, booking, known, ager, edge, swept, failed, report>>

\* A plain UPDATE; its trigger refuses a capacity that a live reservation of the unit
\* exceeds, and judges no update that leaves the capacity as it is.
EditIt(m) ==
  /\ Doing(m, "hold_or_edit")
  /\ \E u \in Units, c \in Capacities, dead \in SUBSET DeadHolds :
       LET stranded == {i \in Occupying \ dead : booking[i].asg = {u} /\ booking[i].party > c} IN
       \/ /\ c = capacity[u] \/ stranded = {}
          /\ capacity' = [capacity EXCEPT ![u] = c] /\ Answers(m, "capacity_edit", "ok")
       \/ /\ c # capacity[u] /\ stranded # {}
          /\ capacity' = capacity /\ Answers(m, "capacity_edit", "capacity_conflict")
  /\ UNCHANGED <<workerVars, mixed, over, booking, known, ager, edge, swept, failed, report>>

-----------------------------------------------------------------------------
(* The ager, time, and the sweeper. *)

\* A statement of the ager; its loop tests `stopped` when its timer has fired.
AgerSelects ==
  /\ ager = "select"
  /\ \E S \in SUBSET {i \in Holds : Held(i) /\ booking[i].expiry = "far"} :
       edge' = S /\ ager' = IF S = {} THEN "sleep" ELSE "update"
  /\ booking' = booking /\ failed' = failed
AgerUpdates ==
  /\ ager = "update"
  /\ \E i \in edge :
       /\ edge' = edge \ {i} /\ ager' = IF edge = {i} THEN "sleep" ELSE "update"
       /\ booking' = IF Held(i) THEN [booking EXCEPT ![i].expiry = "near"] ELSE booking
  /\ failed' = failed
AgerBegins ==
  /\ ager = "begin" /\ ager' = IF over THEN "ended" ELSE "select"
  /\ UNCHANGED <<edge, booking, failed>>
AgerFails ==
  /\ ager \in {"begin", "select", "update"} /\ faults < MaxFaults
  /\ failed' = TRUE /\ faults' = faults + 1
  /\ ager' = IF ager = "begin" THEN "ended" ELSE "sleep"
  /\ edge' = {} /\ booking' = booking
Ager ==
  /\ \/ (AgerBegins \/ AgerSelects \/ AgerUpdates) /\ faults' = faults
     \/ AgerFails
  /\ UNCHANGED <<stage, limit, pc, stopped, paused, due, out, lingering, mixed, over, capacity, known, mixer, swept, unexpected, report>>

AgerTimer ==
  /\ ager = "sleep" /\ ager' = IF over THEN "ended" ELSE "select"
  /\ UNCHANGED <<workerVars, mixed, over, floor, mixer, edge, swept, unexpected, failed, report>>

Dies(i) ==
  /\ Held(i) /\ booking[i].expiry = "near" /\ Arrive("holds")
  /\ booking' = [booking EXCEPT ![i].expiry = "past"]
  /\ UNCHANGED <<mixed, over, capacity, known, mixer, ager, edge, swept, unexpected, failed, report>>

\* onExpired tells the ids of a batch when its answer is there, and never those of a
\* statement that was left at the server.
Sweeps ==
  /\ \E S \in SUBSET DeadHolds :
       /\ booking' = Expired(S, "system:sweeper")
       /\ \/ Batch("sweeper") /\ swept' = swept \cup S /\ failed' = failed
          \/ Fail("sweeper") /\ swept' = swept /\ failed' = TRUE
          \/ LeftEnds("sweeper") /\ UNCHANGED <<swept, failed>>
       /\ Gone(S)
  /\ UNCHANGED <<mixed, over, capacity, known, mixer, ager, edge, unexpected, report>>

-----------------------------------------------------------------------------
(* runMixed. *)

TimeUp ==
  /\ mixed = "running" /\ mixed' = "waiting" /\ over' = TRUE
  /\ UNCHANGED <<workerVars, floor, mixer, ager, edge, swept, unexpected, failed, report>>

\* Every worker and the ager have returned: sweeping.stop().
StopMixed ==
  /\ mixed = "waiting" /\ ager = "ended" /\ \A m \in Mixers : Doing(m, "ended")
  /\ mixed' = "stopping" /\ StopLoops
  /\ UNCHANGED <<stage, limit, paused, due, out, lingering, faults,
                 over, floor, mixer, ager, edge, swept, unexpected, failed, report>>

\* judgeMixed: nothing is judged after an error of the sweeper or the aging.
MixedInvalid == failed

\* overlapPairs and fitViolations.
Overlapping ==
  {i \in Occupying : \E j \in Occupying \ {i} : Meets(booking[i], booking[j].asg, booking[j].start)}
Misfits == {i \in LiveHolds : ~FitsIn(booking[i], capacity)}

\* How much of each operation the run must have seen for a verdict is not counted.
Verdicts ==
  CASE MixedInvalid -> {"invalid"}
    [] ~MixedInvalid /\ Overlapping \cup Misfits \cup unexpected # {} -> {"fail"}
    [] OTHER -> {"pass", "inconclusive"}

Tallied ==
  LET expired == {i \in Holds : booking[i].status = "expired"} IN
  \E v \in Verdicts :
    report' = [sweeper |-> Cardinality(swept), hold |-> Cardinality(expired) - Cardinality(swept),
               verdict |-> v]

\* Mutant: the loop's last batch is not awaited.
CountEarly ==
  /\ mixed = "stopping" /\ mixed' = "counted" /\ Tallied
  /\ Leave
  /\ UNCHANGED <<due, over, floor, mixer, ager, edge, swept, unexpected, failed>>

\* The loop has returned: the expired are counted, and those the sweeper named.
Count ==
  /\ mixed = "stopping" /\ pc["sweeper"] = "ended"
  /\ mixed' = "counted" /\ Tallied
  /\ Leave
  /\ UNCHANGED <<due, over, floor, mixer, ager, edge, swept, unexpected, failed>>

Mixed ==
  \/ \E m \in Mixers :
       Draw(m) \/ HoldIt(m) \/ ConfirmIt(m) \/ MintIt(m) \/ CancelIt(m) \/ EditIt(m)
  \/ Ager \/ StopMixed \/ Count

MixedNext ==
  \/ Mixed \/ TimeUp \/ AgerTimer \/ Sweeps \/ \E i \in Holds : Dies(i)
  \/ SweeperRest /\ UNCHANGED mixedVars

-----------------------------------------------------------------------------
(* Properties. *)

\* EXPECTED is complete but for the cap on an actor's live holds: whatever the others do
\* between an operation's read, its commands and their commits, no answer is outside its
\* set unless the worker holds as many as the venue allows.  The overlap set, which
\* the combinations and the dead holds enlarge, never meets its bound.
AnswersExpected == unexpected \subseteq {"too_many_live_holds"}

\* Unless the run is invalid, its report attributes every expired hold to the one
\* the audit log names: the sweeper, also in the batch that was running when it was
\* stopped, or a competing hold.
ExpiryAttributed ==
  mixed = "counted" /\ ~MixedInvalid =>
    LET by(actor) == Cardinality({i \in Holds : booking[i] = [status |-> "expired", actor |-> actor]})
    IN report.sweeper = by("system:sweeper") /\ report.hold = by("system:conflict")

\* A run is not failed for its tables: when it is counted no two reservations overlap on a
\* unit and every live party fits, though holds, late confirmations, edits and sweeps
\* judge by their own starts which holds are dead.  What fails it is an answer.
VerdictFounded == report.verdict = "fail" => unexpected # {}
=============================================================================
