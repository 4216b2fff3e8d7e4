------------------------------ MODULE Sweeping ------------------------------
(***************************************************************************)
(* What a run of the harness takes of Worker: the sweeper's loop, started  *)
(* and stopped by the run, and the end of a process.                       *)
(***************************************************************************)
EXTENDS Worker

ASSUME SweepingAssumption == "sweeper" \in Loops /\ Tables["sweeper"] = {"holds"}

\* startSweeper: the first batch is asked for at once.  The other loops are not there.
SweeperInit ==
  /\ stage = "running" /\ limit = DesignLimit
  /\ pc = [l \in Loops |-> IF l = "sweeper" THEN "acquire" ELSE "ended"]
  /\ stopped = [l \in Loops |-> FALSE] /\ paused = FALSE
  /\ due = [t \in AllTables |-> 0] /\ out = 0 /\ faults = 0
  /\ lingering = [l \in Loops |-> 0]

\* A step of the sweeper that is no batch, or of the process after the run.
SweeperRest == Acquire("sweeper") \/ Tick("sweeper") \/ Close \/ EndPool \/ Exit

\* The run is over: the command ends its pools.
Leave ==
  /\ stage = "running" /\ stage' = "stopping"
  /\ UNCHANGED <<limit, pc, stopped, paused, out, lingering, faults>>
=============================================================================
