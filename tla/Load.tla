-------------------------------- MODULE Load --------------------------------
(***************************************************************************)
(* A load run over HTTP (apps/harness/src: schedule.ts, target.ts, load.ts *)
(* and the load command of cli.ts) beside an operator of the same API.     *)
(*                                                                         *)
(* The arrivals are planned before the run and each is a request of its    *)
(* own: the harness fires it at its time, whatever became of the earlier   *)
(* ones, and has a deadline for its answer.  At the end of the run it asks *)
(* the database what became of the holds it got no answer to.              *)
(***************************************************************************)
EXTENDS Api, Report

CONSTANTS
  Plan,         \* the arrivals: a function to [hold, seq, step, at]
  Venue,        \* of the run
  LoadKey,      \* the run's API key
  MaxInFlight,
  Deadline,     \* of the client
  MaxClock,     \* bound on the clock; where it stands still, deadlines are due
  Operator,     \* the request of the operator
  OperatorCalls,
  Scenarios,    \* the arrivals that take place, and how many calls the operator makes
  Seen          \* what a run may see beside its records

Arrivals == DOMAIN Plan

ASSUME LoadAssumption ==
  /\ Requests = Arrivals \cup {Operator} /\ Operator \notin Arrivals /\ IsFiniteSet(Arrivals)
  /\ {a \in Arrivals : Plan[a].hold} \subseteq Res \ DOMAIN FirstRes
  /\ \A a \in Arrivals : Plan[a].at \in 0..MaxClock
  /\ MaxInFlight \in Nat /\ Deadline \in Nat /\ MaxClock \in Nat /\ MaxClock + 2 <= Infinity
  /\ Scenarios \subseteq [planned: SUBSET Arrivals, calls: Nat]
  /\ LoadKey \in Keys /\ "shed" \notin Failures
  /\ \A c \in OperatorCalls :
       /\ c.route \in DOMAIN Capability /\ c.key \in Keys \cup {None}
       /\ c.route = "revokeKey" => c.target \in Keys
       /\ c.route = "hold" => c.id \notin Arrivals

VARIABLES
  clock,
  run,          \* the stage of the run
  started,      \* when each arrival was fired
  rec,          \* the records: code, when answered, what the database held
  recent,       \* granted holds that no follow-up has taken
  seen,
  planned,      \* the arrivals of this run
  calls         \* calls the operator still makes

loadVars == <<clock, run, started, rec, recent, seen, planned, calls>>
vars == <<apiVars, loadVars>>

NoRecord == [code |-> "none", done |-> Never, stored |-> "none"]

Init ==
  /\ ApiInit
  /\ clock = 0 /\ run = "running"
  /\ started = [a \in Arrivals |-> Never]
  /\ rec = [a \in Arrivals |-> NoRecord]
  /\ recent = <<>>
  /\ seen = None
  /\ \E s \in Scenarios : planned = s.planned /\ calls = s.calls

HoldPlan == {a \in planned : Plan[a].hold}

-----------------------------------------------------------------------------
(* The dispatcher. *)

Fired(a) == started[a] # Never
InFlight == {a \in planned : Fired(a) /\ rec[a].code = "none"}

\* Each loop takes its arrivals in the order of the plan.
Due(a) ==
  /\ run = "running" /\ a \in planned /\ ~Fired(a) /\ Plan[a].at <= clock
  /\ \A b \in planned :
       Plan[b].hold = Plan[a].hold /\ Plan[b].seq < Plan[a].seq => Fired(b)
Fires(a) == started' = [started EXCEPT ![a] = clock]
Records(a, code, done) == rec' = [rec EXCEPT ![a].code = code, ![a].done = done]

FireHold(a) ==
  /\ Due(a) /\ Plan[a].hold /\ Fires(a)
  /\ IF Cardinality(InFlight) >= MaxInFlight
     THEN Records(a, "shed", Never) /\ req' = req
     ELSE /\ Send(a, [route |-> "hold", key |-> LoadKey, venue |-> Venue, id |-> a, token |-> 0])
          /\ rec' = rec
  /\ UNCHANGED <<server, faults, database, told, clock, run, recent, seen, planned, calls>>

\* A confirmation or a cancellation, in turn, of the hold granted last.
FollowUp(a) ==
  /\ Due(a) /\ ~Plan[a].hold /\ Fires(a)
  /\ IF recent = <<>>
     THEN Records(a, "skipped", Never) /\ UNCHANGED <<req, recent>>
     ELSE /\ recent' = SubSeq(recent, 1, Len(recent) - 1)
          /\ Send(a, [route |-> IF Plan[a].seq % 2 = 0 THEN "confirm" ELSE "cancel", key |-> LoadKey,
                      id |-> recent[Len(recent)], token |-> 0])
          /\ rec' = rec
  /\ UNCHANGED <<server, faults, database, told, clock, run, seen, planned, calls>>

-----------------------------------------------------------------------------
(* Answers. *)

Receive(a) ==
  /\ Deliver(a)
  /\ Records(a, req[a].answer, clock)
  /\ recent' = IF Plan[a].hold /\ req[a].answer = "ok" THEN Append(recent, a) ELSE recent
  /\ UNCHANGED <<process, faults, database, clock, run, started, seen, planned, calls>>

\* Mutant: the deadline is set when the server takes the request.
OverdueAtServer(a) ==
  /\ req[a].client = "waiting" /\ AtServer(a)
  /\ clock >= started[a] + Deadline \/ clock = MaxClock

Overdue(a) ==
  /\ req[a].client = "waiting"
  /\ clock >= started[a] + Deadline \/ clock = MaxClock

\* No complete answer: the deadline, or a connection that fails.
Lose(a, code) ==
  /\ Abandon(a)
  /\ Records(a, code, clock)
  /\ UNCHANGED <<process, database, clock, run, started, recent, seen, planned, calls>>
GiveUp(a) == Overdue(a) /\ Lose(a, "transport_timeout") /\ faults' = faults
Break(a) == Lose(a, "transport_error") /\ Fault

-----------------------------------------------------------------------------
(* The end of the run. *)

\* Mutant: a key without an outcome was refused.
FoundAsRefused(i) == IF stored[i] = "granted" THEN "granted" ELSE "refused"

\* What the idempotency row of a hold says.
Found(i) == IF stored[i] = "none" THEN "unobserved" ELSE stored[i]

\* Every arrival has been fired and has its record: the rows are read, and the run
\* is judged.
Look ==
  /\ run = "running" /\ InFlight = {} /\ \A a \in planned : Fired(a)
  /\ run' = "reported"
  /\ rec' = [a \in Arrivals |->
               IF a \in HoldPlan /\ Classify(rec[a].code) = "transport"
               THEN [rec[a] EXCEPT !.stored = Found(a)] ELSE rec[a]]
  /\ seen' \in Seen
  /\ UNCHANGED <<apiVars, clock, started, recent, planned, calls>>

\* revokeLoadKeys; a failure is reported and changes nothing.
RevokeKeys ==
  /\ run = "reported" /\ run' = "ended"
  /\ \/ keys' = [keys EXCEPT ![LoadKey] = "revoked"] /\ told' = told \cup {LoadKey}
     \/ UNCHANGED <<keys, told>>
  /\ UNCHANGED <<server, faults, res, stored, req, clock, started, rec, recent, seen, planned, calls>>

Tick ==
  /\ run = "running" /\ clock < MaxClock
  /\ clock' = clock + 1
  /\ UNCHANGED <<apiVars, run, started, rec, recent, seen, planned, calls>>

-----------------------------------------------------------------------------
(* The operator: one call after the other. *)

OperatorSends ==
  /\ calls > 0
  /\ req[Operator] = NoRequest
  /\ \E c \in OperatorCalls : Send(Operator, c)
  /\ calls' = calls - 1
  /\ UNCHANGED <<server, faults, database, told, clock, run, started, rec, recent, seen, planned>>

OperatorEnds ==
  /\ \/ Deliver(Operator) /\ faults' = faults
     \/ Abandon(Operator) /\ Fault
  /\ UNCHANGED <<process, database, loadVars>>

Harness == Tick \/ Look \/ RevokeKeys
Next ==
  \/ ApiStep /\ UNCHANGED loadVars
  \/ Harness
  \/ \E a \in Arrivals : FireHold(a) \/ FollowUp(a) \/ Receive(a) \/ GiveUp(a) \/ Break(a)
  \/ OperatorSends \/ OperatorEnds

Spec == Init /\ [][Next]_vars

\* The harness' own process runs, and its timers fire.  Nothing is assumed of the
\* API, of the network or of the operator.
FairSpec ==
  /\ Spec /\ WF_vars(Harness)
  /\ \A a \in Arrivals : WF_vars(FireHold(a)) /\ WF_vars(FollowUp(a)) /\ WF_vars(GiveUp(a))

-----------------------------------------------------------------------------
(* Properties. *)

\* The report's records, with the plan beside them.
Report ==
  [a \in {b \in Arrivals : rec[b].code # "none"} |->
     [hold |-> Plan[a].hold, step |-> Plan[a].step, at |-> Plan[a].at,
      code |-> rec[a].code, done |-> rec[a].done]]

\* What a record says of a hold is so in the database, when it is written and ever
\* after: a hold that is granted was booked once, one that is refused never will be,
\* whatever is still on its way when the run looks.
RecordsTrue ==
  \A a \in HoldPlan :
    /\ rec[a].code = "ok" \/ rec[a].stored = "granted" => stored[a] = "granted" /\ ~Absent(a)
    /\ rec[a].code \in {"hold_conflict", "shed"} \/ rec[a].stored = "refused" =>
         stored[a] # "granted" /\ Absent(a)

\* A run comes to its report and its end, though the API may crash, stall or answer
\* nothing at all.
RunEnds == <>(run = "ended")

\* Every way the samples may have gone on had the harness waited.
Completions(s) ==
  {f \in [DOMAIN s -> 0..(MaxClock + 2)] :
     \A a \in DOMAIN s : f[a] >= s[a].ms /\ (s[a].censored \/ f[a] = s[a].ms)}

\* The report holds of the run.  However long the answers it did not get would have
\* taken, each percentile is within its bounds, so a limit it calls met is kept and
\* one it calls missed is broken; no step ends with more requests waiting than the
\* peak; and when the run exits with 0, the fate of every hold is known, and the
\* database has the outcome of all in the last step but the tolerated share.
ReportTrue ==
  run # "running" =>
    /\ \A i \in DOMAIN Steps, p \in DOMAIN Limits :
         LET s == Samples(OfStep(Holds(Report), i)) q == Quantile(s, p) IN
         q # <<>> => \A f \in Completions(s) :
           LET v == Ranked(f, Rank(Cardinality(DOMAIN s), p)) IN
           /\ q[1].atLeast <= v /\ v <= q[1].atMost
           /\ Judge(q, Limits[p]) = "met" => v <= Limits[p]
           /\ Judge(q, Limits[p]) = "missed" => v > Limits[p]
    /\ \A i \in DOMAIN Steps : Step(Report, i).backlog <= Peak(Holds(Report))
    /\ LET rows == Timeline(Holds(Report)) IN
         \A k \in DOMAIN rows : rows[k] <= Peak(Holds(Report))
    /\ ExitCode(Report, seen, planned) = 0 =>
         LET last == {a \in HoldPlan : Plan[a].step = Len(Steps)} IN
         /\ \A a \in HoldPlan : rec[a].code # "none" /\ Classify(rec[a].code) # "transport"
         /\ last # {}
         /\ ~Share(Cardinality({a \in last : stored[a] = "none"}), Cardinality(last))
=============================================================================
