------------------------------- MODULE Report -------------------------------
(***************************************************************************)
(* What a load run makes of its records (apps/harness/src/stats.ts and the *)
(* pure part of load.ts): distributions whose samples may be lower bounds, *)
(* step summaries, the timeline, the validity of the run and its verdict.  *)
(*                                                                         *)
(* records is a function from arrivals; a record has the fields hold,      *)
(* step, at, done and code.  Times are in clock units.                     *)
(***************************************************************************)
EXTENDS Integers, FiniteSets, Sequences, FiniteSetsExt, Functions

CONSTANTS
  Limits,       \* the percentiles a verdict is taken from, with their limits
  MinAbove,     \* samples a percentile needs above it: three
  Tolerance,    \* failures in a thousand that do not count: one
  Steps,        \* the steps of the plan: [rate, seconds]
  Target,       \* the rate and the duration the limits are defined for
  Second        \* clock units in a second

ASSUME ReportAssumption ==
  /\ \A p \in DOMAIN Limits : p \in 0..99 /\ Limits[p] \in Nat
  /\ MinAbove \in Nat \ {0} /\ Tolerance \in 0..1000 /\ Second \in Nat \ {0}
  /\ Steps \in Seq([rate: Nat, seconds: Nat])
  /\ Target \in [rate: Nat, seconds: Nat]

\* The doneMs of a shed or skipped request.
Never == -1

-----------------------------------------------------------------------------
(* Records. *)

Classes == {"ok", "conflict", "timeout", "unavailable", "other", "shed", "transport"}

Classify(code) ==
  CASE code = "ok" -> "ok"
    [] code = "hold_conflict" -> "conflict"
    [] code = "timeout" -> "timeout"
    [] code \in {"pool_timeout", "overlap_set_too_large"} -> "unavailable"
    [] code = "shed" -> "shed"
    [] code \in {"transport_timeout", "transport_error"} -> "transport"
    [] OTHER -> "other"

Cls(x) == Classify(x.code)
IsError(c) == c \notin {"ok", "conflict"}
Where(rs, P(_)) == {a \in DOMAIN rs : P(rs[a])}
Holds(rs) == Restrict(rs, Where(rs, LAMBDA x : x.hold))
FollowUps(rs) == Restrict(rs, Where(rs, LAMBDA x : ~x.hold))
Answered(rs) == Where(rs, LAMBDA x : x.done # Never)

\* Samples: from the planned arrival to the answer, or to where the harness gave up.
Samples(rs) ==
  [a \in Answered(rs) |-> [ms |-> rs[a].done - rs[a].at, censored |-> Cls(rs[a]) = "transport"]]

-----------------------------------------------------------------------------
(* Distributions. *)

\* The element of rank k, counting from 0, of the sorted values of f.
Ranked(f, k) ==
  CHOOSE v \in Range(f) :
    /\ Cardinality({a \in DOMAIN f : f[a] < v}) <= k
    /\ Cardinality({a \in DOMAIN f : f[a] <= v}) > k

Rank(n, p) == Min({n - 1, (p * n) \div 100})
Enough(n, p) == n * (100 - p) >= 100 * MinAbove

\* Above every time: a sample that never finished.
Infinity == 1000000

Lower(s) == [a \in DOMAIN s |-> s[a].ms]

\* Mutant: a censored sample is counted at what was observed.
UpperObserved(s) == Lower(s)

Upper(s) == [a \in DOMAIN s |-> IF s[a].censored THEN Infinity ELSE s[a].ms]

\* The bounds of a percentile; none when too little of the sample is above it.
Quantile(s, p) ==
  LET n == Cardinality(DOMAIN s) k == Rank(n, p) IN
  IF Enough(n, p) THEN <<[atLeast |-> Ranked(Lower(s), k), atMost |-> Ranked(Upper(s), k)]>> ELSE <<>>

-----------------------------------------------------------------------------
(* Summaries. *)

Share(part, whole) == part * 1000 > Tolerance * whole   \* more than is tolerated

\* When each step of the plan ends.
To[i \in 0..Len(Steps)] == IF i = 0 THEN 0 ELSE To[i - 1] + Second * Steps[i].seconds

Errors(rs) == Where(rs, LAMBDA x : IsError(Cls(x)))
OfStep(rs, i) == Restrict(rs, Where(rs, LAMBDA x : x.step = i))

Step(rs, i) ==
  LET mine == OfStep(Holds(rs), i) IN
  [offered |-> Cardinality(DOMAIN mine),
   errors |-> Cardinality(Errors(mine)),
   backlog |-> Cardinality(Where(Holds(rs), LAMBDA x :
      Cls(x) # "shed" /\ x.at < To[i] /\ (x.done = Never \/ x.done >= To[i]))),
   e2e |-> [p \in DOMAIN Limits |-> Quantile(Samples(mine), p)]]

\* One row per second: outstanding at its end.
Timeline(rs) ==
  LET ends == {IF rs[a].done = Never THEN rs[a].at ELSE rs[a].done : a \in DOMAIN rs}
      sec(t) == t \div Second
  IN [k \in 0..sec(Max(ends \cup {0})) |->
       Cardinality(Where(rs, LAMBDA x : x.done # Never /\ sec(x.at) <= k /\ sec(x.done) > k))]

\* At the same instant an answer is counted before an arrival.
Peak(rs) ==
  LET waiting(t) == Cardinality(Where(rs, LAMBDA x : x.done # Never /\ x.at <= t /\ x.done > t))
  IN Max({waiting(rs[a].at) : a \in DOMAIN rs} \cup {0})

-----------------------------------------------------------------------------
(* Judgement.  seen is what the harness saw beside its records: sweeper     *)
(* errors and ticks, overlapping pairs, misfits, deadlocks, target throws.  *)

Executed(rs) == Where(FollowUps(rs), LAMBDA x : x.code # "skipped")
Granted(rs) == Where(Holds(rs), LAMBDA x : x.code = "ok")

FollowUpsRan(rs) ==
  LET planned == Cardinality(DOMAIN FollowUps(rs))
      ran == Cardinality(Executed(rs))
      failed == Cardinality({a \in Executed(rs) : rs[a].code # "ok"})
  IN /\ ~Share(failed, ran)
     /\ planned > 0 => ran > 0
     /\ 2 * ran >= Min({planned, Cardinality(Granted(rs))})

\* runValidity, over HTTP; planned is the arrivals of the plan.
Valid(rs, seen, planned) ==
  /\ seen.errors = 0 /\ seen.ticks > 0 /\ seen.overlaps = 0 /\ seen.misfits = 0 /\ seen.throws = 0
  /\ DOMAIN rs = planned
  /\ FollowUpsRan(rs)
  /\ \A a \in DOMAIN rs : Cls(rs[a]) # "transport"
  /\ ~Share(Cardinality(Where(Holds(rs), LAMBDA x : Cls(x) = "other")), Cardinality(DOMAIN Holds(rs)))

\* Whether a step offered less than what the limits are defined for.
Lighter(i) == Steps[i].rate < Target.rate \/ Steps[i].seconds < Target.seconds

Judge(q, limit) ==
  CASE q = <<>> -> "no_data"
    [] q # <<>> /\ q[1].atLeast > limit -> "missed"
    [] q # <<>> /\ q[1].atMost <= limit -> "met"
    [] OTHER -> "inconclusive"

\* evaluateTargets: the last step against the limits.
Checks(rs, seen) ==
  LET s == Step(rs, Len(Steps)) IN
  {Judge(s.e2e[p], Limits[p]) : p \in DOMAIN Limits}
  \cup {IF s.offered = 0 THEN "no_data" ELSE IF Share(s.errors, s.offered) THEN "missed" ELSE "met",
        IF seen.deadlocks > 0 THEN "missed" ELSE "met"}

Verdict(rs, seen, planned) ==
  CASE ~Valid(rs, seen, planned) -> "invalid"
    [] Valid(rs, seen, planned) /\ "missed" \in Checks(rs, seen) -> "missed"
    [] Valid(rs, seen, planned) /\ Checks(rs, seen) = {"met"} /\ ~Lighter(Len(Steps)) -> "met"
    [] OTHER -> "inconclusive"

\* The exit code of a run on the target hardware.
ExitCode(rs, seen, planned) ==
  LET v == Verdict(rs, seen, planned) IN
  CASE v = "met" /\ seen.deadlocks = 0 -> 0
    [] v = "inconclusive" /\ seen.deadlocks = 0 -> 3
    [] OTHER -> 1
=============================================================================
