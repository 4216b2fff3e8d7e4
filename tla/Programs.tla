------------------------------ MODULE Programs ------------------------------
(***************************************************************************)
(* The programs that run the sweeper's loop: the worker process, and the   *)
(* churn and the mixed run of the harness.                                 *)
(***************************************************************************)
EXTENDS Churn, Mixed

allVars == <<workerVars, churnVars, mixedVars>>

IsWorker == run = "none" /\ mixed = "none"

ProgramInit ==
  \/ WorkerInit /\ NoChurn /\ NoMixed
  \/ SweeperInit /\ ChurnInit /\ NoMixed
  \/ SweeperInit /\ MixedInit /\ NoChurn

ProgramNext ==
  \/ IsWorker /\ WorkerNext /\ UNCHANGED <<churnVars, mixedVars>>
  \/ run # "none" /\ ChurnNext /\ UNCHANGED mixedVars
  \/ mixed # "none" /\ MixedNext /\ UNCHANGED churnVars

\* Node runs what is ready, a batch ends by its deadline, and a statement left at the
\* server ends.  Nothing is assumed of the timers, of the expiry of a hold, nor of the
\* harness' own code.
ProgramSpec ==
  /\ ProgramInit /\ [][ProgramNext]_allVars
  /\ WF_workerVars(Process)
  /\ \A l \in Loops : WF_workerVars(Loop(l)) /\ WF_workerVars(LeftEnds(l))
=============================================================================
