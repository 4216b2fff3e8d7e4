-------------------------------- MODULE Churn --------------------------------
(***************************************************************************)
(* A bounded churn run of the harness (apps/harness/src/churn.ts), which   *)
(* runs the worker's sweeper.  Workers hold, cancel and confirm until the  *)
(* run is over, the sweeper is off in the middle of it, a sampler reads    *)
(* the tables on an interval, and what is left over is expired after the   *)
(* last sample.                                                            *)
(*                                                                         *)
(* A step is again the code from one await to the next.  Latencies are     *)
(* counted, not measured.  There are no loops but the sweeper.             *)
(***************************************************************************)
EXTENDS Sweeping, SequencesExt

CONSTANTS
  Churners,     \* the workers
  MaxOps, MaxSeconds, SampleEvery,
  Budget,       \* of the cleanup
  MaxClock      \* bound on the clock

ASSUME ChurnAssumption ==
  /\ MaxOps \in Nat \ {0} /\ MaxSeconds \in Nat \ {0} /\ SampleEvery \in Nat \ {0}
  /\ Budget \in Nat /\ MaxClock \in Nat

VARIABLES
  run,          \* where runChurn is; "none" in the worker process
  done,
  clock,
  ops,          \* operations answered
  answered,     \* holds answered with ok or hold_conflict
  churner,      \* what each worker awaits
  left,         \* live holds left to expire
  latencies,    \* in the buffers of granted and refused holds
  samples,
  sampler,      \* where the sampling loop is
  since,        \* when its timer, or the cleanup, was started
  broken        \* an answer, a batch or an aging statement that makes the run invalid

work == <<ops, answered, churner, left>>
sampling == <<latencies, samples, sampler>>
churnVars == <<run, done, clock, work, sampling, since, broken>>

\* Another program.
NoChurn ==
  /\ run = "none" /\ done = FALSE /\ clock = 0 /\ ops = 0 /\ answered = 0 /\ left = 0
  /\ churner = [w \in Churners |-> "ended"]
  /\ latencies = 0 /\ samples = <<>> /\ sampler = "ended" /\ since = 0 /\ broken = FALSE

\* runChurn starts its workers, the sweeper and the sampler; each is at its first await.
ChurnInit ==
  /\ run = "measuring" /\ done = FALSE /\ clock = 0 /\ ops = 0 /\ answered = 0 /\ left = 0
  /\ churner = [w \in Churners |-> "hold"]
  /\ latencies = 0 /\ samples = <<>> /\ sampler = "query" /\ since = 0 /\ broken = FALSE

-----------------------------------------------------------------------------
(* The workers. *)

\* In percent, of the time or of the operations, whichever is further.
Progress(c, o) == Max({(100 * c) \div MaxSeconds, (100 * o) \div MaxOps})
SweeperOff(c, o) == Progress(c, o) \in 40..59

\* An operation has its answer.
Counted(n) == ops' = ops + n /\ paused' = SweeperOff(clock, ops')

\* The loop's test, before the next hold.
NextHold(w) == [churner EXCEPT ![w] = IF done \/ Progress(clock, ops') >= 100 THEN "ended" ELSE "hold"]

\* A granted hold is cancelled, confirmed or aged with another statement, or left to
\* its natural expiry; it may have cleared a dead hold that was in its way.
HoldAnswered(w) ==
  /\ churner[w] = "hold" /\ Counted(1)
  /\ \/ /\ churner' \in {[churner EXCEPT ![w] = "rest"], NextHold(w)}
        /\ left' = IF churner'[w] = "rest" THEN left ELSE left + 1
        /\ due' = due \/ (due["holds"] > 0 /\ due' = [due EXCEPT !["holds"] = @ - 1])
        /\ answered' = answered + 1 /\ latencies' = latencies + 1 /\ broken' = broken
     \/ /\ churner' = NextHold(w) /\ UNCHANGED <<left, due>>
        /\ answered' = answered + 1 /\ latencies' = latencies + 1 /\ broken' = broken
     \/ /\ churner' = NextHold(w) /\ UNCHANGED <<left, due, answered, latencies>>
        /\ broken' = TRUE
  /\ UNCHANGED <<stage, limit, pc, stopped, out, lingering, faults, run, done, clock, samples, sampler,
                 since>>

\* A cancellation or a confirmation, perhaps with the cancellation of a reservation
\* confirmed earlier after it; or the aging of the hold.
RestAnswered(w) ==
  /\ \/ /\ churner[w] \in {"rest", "older"} /\ Counted(1) /\ left' = left
        /\ \/ churner' = NextHold(w)
           \/ churner[w] = "rest" /\ churner' = [churner EXCEPT ![w] = "older"]
     \/ /\ churner[w] = "rest" /\ Counted(0) /\ left' = left + 1
        /\ churner' = NextHold(w)
  /\ broken' \in {broken, TRUE}
  /\ UNCHANGED <<stage, limit, pc, stopped, due, out, lingering, faults, run, done, clock, answered,
                 sampling, since>>

Expires ==
  /\ left > 0 /\ Arrive("holds")
  /\ left' = left - 1
  /\ UNCHANGED <<run, done, clock, ops, answered, churner, sampling, since, broken>>

-----------------------------------------------------------------------------
(* The sampler. *)

\* The sample is complete: the buffers are emptied into it in the step that reads them.
Sampled(partial) ==
  /\ samples' = Append(samples, [at |-> clock, holds |-> latencies, partial |-> partial])
  /\ latencies' = 0

\* A sample that fails ends the loop.
SampleFails ==
  /\ sampler = "query" /\ sampler' = "ended"
  /\ broken' = TRUE
  /\ UNCHANGED <<workerVars, run, done, clock, work, latencies, samples, since>>

SampleAnswered ==
  /\ sampler = "query" /\ Sampled(FALSE)
  /\ sampler' = IF done THEN "ended" ELSE "sleep"
  /\ since' = clock
  /\ UNCHANGED <<workerVars, run, done, clock, work, broken>>

SampleTimer ==
  /\ sampler = "sleep" /\ clock >= since + SampleEvery
  /\ sampler' = "query"
  /\ UNCHANGED <<workerVars, run, done, clock, work, latencies, samples, since, broken>>

-----------------------------------------------------------------------------
(* runChurn. *)

\* Mutant: the sampler takes another sample when it is woken.
WorkersDoneSampled ==
  /\ run = "measuring" /\ \A w \in Churners : churner[w] = "ended"
  /\ run' = "waiting" /\ done' = TRUE
  /\ sampler' = IF sampler = "sleep" THEN "query" ELSE sampler
  /\ UNCHANGED <<workerVars, clock, work, latencies, samples, since, broken>>

\* Every worker has returned; the sampler is woken if it sleeps, and ends.
WorkersDone ==
  /\ run = "measuring" /\ \A w \in Churners : churner[w] = "ended"
  /\ run' = "waiting" /\ done' = TRUE
  /\ sampler' = IF sampler = "sleep" THEN "ended" ELSE sampler
  /\ UNCHANGED <<workerVars, clock, work, latencies, samples, since, broken>>

LastSample ==
  /\ run = "waiting" /\ sampler = "ended"
  /\ run' = "last"
  /\ UNCHANGED <<workerVars, done, clock, work, sampling, since, broken>>

\* The terminal sample, or its failure, and then sweeping.stop().
StopSweeper ==
  /\ run = "last" /\ run' = "stopping"
  /\ \/ Sampled(TRUE) /\ broken' = broken
     \/ broken' = TRUE /\ UNCHANGED <<samples, latencies>>
  /\ StopLoops
  /\ UNCHANGED <<stage, limit, paused, due, out, lingering, faults, done, clock, work, sampler,
                 since>>

StartCleaning ==
  /\ run = "stopping" /\ pc["sweeper"] = "ended"
  /\ run' = "cleaning" /\ since' = clock
  /\ UNCHANGED <<workerVars, done, clock, work, sampling, broken>>

\* A batch of the cleanup; rows that others have locked are passed over.
CleanBatch ==
  /\ run = "cleaning" /\ run' = "checking"
  /\ \/ due' = [due EXCEPT !["holds"] = @ - Most("holds")] /\ faults' = faults
     \/ due' = due /\ faults < MaxFaults /\ faults' = faults + 1
  /\ UNCHANGED <<stage, limit, pc, stopped, paused, out, lingering, done, clock, work, sampling,
                 since, broken>>

\* waitFor: until nothing is due, for as long as the budget lasts.
CleanCheck ==
  /\ run = "checking"
  /\ run' = IF due["holds"] = 0 \/ clock > since + Budget THEN "returned" ELSE "cleaning"
  /\ UNCHANGED <<workerVars, done, clock, work, sampling, since, broken>>

\* An error of the batch or of the count ends the cleanup, and is reported.
CleanFails ==
  /\ run \in {"cleaning", "checking"} /\ faults < MaxFaults
  /\ run' = "returned" /\ faults' = faults + 1
  /\ UNCHANGED <<stage, limit, pc, stopped, paused, due, out, lingering, done, clock, work, sampling,
                 since, broken>>

Returned == run = "returned" /\ Leave /\ UNCHANGED <<due, churnVars>>

Passes ==
  /\ clock < MaxClock /\ clock' = clock + 1
  /\ paused' = SweeperOff(clock', ops)
  /\ UNCHANGED <<stage, limit, pc, stopped, due, out, lingering, faults, run, done, work, sampling,
                 since, broken>>

Churn ==
  \/ \E w \in Churners : HoldAnswered(w) \/ RestAnswered(w)
  \/ SampleAnswered \/ SampleFails
  \/ WorkersDone \/ LastSample \/ StopSweeper \/ StartCleaning
  \/ CleanBatch \/ CleanCheck \/ CleanFails \/ Returned

ChurnNext ==
  \/ Churn \/ SampleTimer \/ Passes \/ Expires
  \/ (SweeperRest \/ Batch("sweeper") \/ LeftEnds("sweeper")) /\ UNCHANGED churnVars
  \/ Fail("sweeper") /\ broken' = TRUE /\ UNCHANGED <<run, done, clock, work, sampling, since>>

\* judgeChurn: its samples are not judged after an answer outside EXPECTED_CODES, or an
\* error of the sweeper, the aging or the sampler.
ChurnInvalid == broken

-----------------------------------------------------------------------------
(* Properties. *)

\* The report of a churn run can be judged.  Each expected answer of a hold is in one
\* sample, or waits for the next, though samples are read while holds are answered,
\* and one of them may fail; an interval that was cut short is marked, and no other
\* is; and unless the run is invalid its last sample is the marked one, taken when
\* the workers had ended, so that nothing is left out.
SamplesTell ==
  LET n == Len(samples) IN
  /\ answered = latencies + FoldLeft(LAMBDA s, x : s + x.holds, 0, samples)
  /\ \A i \in 1..(n - 1) : ~samples[i].partial
  /\ \A i \in 2..n : samples[i].partial \/ samples[i].at >= samples[i - 1].at + SampleEvery
  /\ run \in {"stopping", "cleaning", "checking", "returned"} /\ ~ChurnInvalid =>
       n > 0 /\ samples[n].partial /\ latencies = 0
=============================================================================
