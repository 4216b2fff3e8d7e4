------------------------------- MODULE Worker -------------------------------
(***************************************************************************)
(* The worker process (packages/worker/src): the sweeper and the retention *)
(* job, two loops of batches over one handle and one pool, until a signal  *)
(* stops both and the process closes what it opened.                       *)
(*                                                                         *)
(* A step runs JavaScript from one await to the next, so a loop's tests of *)
(* `stopped` and its going to sleep are one step.  Rows fall due at any    *)
(* time.  A batch that meets its deadline and does not settle within the   *)
(* grace has its connection discarded (module Handle); the statement may   *)
(* go on at the server, without the process.                               *)
(***************************************************************************)
EXTENDS Naturals, FiniteSets

CONSTANTS
  Loops,        \* the sweeper and the retention job
  Tables,       \* Tables[l]: the tables of which a batch of l takes rows
  Envs,         \* environments: is a database named, and the values given for a limit
  DesignLimit,  \* the limit of a loop when the environment leaves it unset
  PoolMax,
  MaxDue,       \* bounds the due rows of a table
  MaxFaults     \* bounds failed and short batches

AllTables == UNION {Tables[l] : l \in Loops}

ASSUME WorkerAssumption ==
  /\ IsFiniteSet(Loops) /\ IsFiniteSet(AllTables)
  /\ \A e \in Envs : e.url \in BOOLEAN /\ e.limit \subseteq Nat
  /\ DesignLimit \in Nat \ {0} /\ PoolMax \in Nat \ {0}
  /\ MaxDue \in Nat /\ MaxFaults \in Nat

VARIABLES
  stage,        \* the process: main.ts and the stages of stop
  limit,        \* rows per batch
  pc,           \* where each loop is
  stopped,      \* the loops' flags
  paused,       \* the harness' hook; the worker process passes none
  due,          \* rows of each table that a batch may take
  out,          \* connections of the pool that are not idle
  lingering,    \* statements of discarded connections, still running at the server
  faults

workerVars == <<stage, limit, pc, stopped, paused, due, out, lingering, faults>>

Stages == {"booting", "running", "stopping", "closing", "ending", "exit0", "exit1", "exit2"}
Exited == {"exit0", "exit1", "exit2"}

TypeOK ==
  /\ stage \in Stages
  /\ limit \in Nat \ {0}
  /\ pc \in [Loops -> {"off", "acquire", "batch", "sleep", "ended"}]
  /\ stopped \in [Loops -> BOOLEAN] /\ paused \in BOOLEAN
  /\ due \in [AllTables -> 0..MaxDue]
  /\ out \in 0..PoolMax
  /\ lingering \in [Loops -> Nat]
  /\ faults \in 0..MaxFaults

WorkerInit ==
  /\ stage = "booting" /\ limit = DesignLimit
  /\ pc = [l \in Loops |-> "off"]
  /\ stopped = [l \in Loops |-> FALSE] /\ paused = FALSE
  /\ due \in [AllTables -> 0..MaxDue]
  /\ out = 0 /\ faults = 0 /\ lingering = [l \in Loops |-> 0]

-----------------------------------------------------------------------------
(* The process. *)

\* A value that is set must be a positive integer.
Usable(e) == e.url /\ 0 \notin e.limit
Parsed(e) == IF e.limit = {} THEN DesignLimit ELSE CHOOSE v \in e.limit : TRUE

\* parseWorkerConfig, then startWorker: both loops ask for their first batch before
\* the process reads a signal.
Boot ==
  /\ stage = "booting"
  /\ \E e \in Envs :
       \/ /\ ~Usable(e)
          /\ stage' = "exit2"
          /\ UNCHANGED <<limit, pc>>
       \/ /\ Usable(e)
          /\ stage' = "running" /\ limit' = Parsed(e)
          /\ pc' = [l \in Loops |-> "acquire"]
  /\ UNCHANGED <<stopped, paused, due, out, lingering, faults>>

StopLoops ==
  /\ stopped' = [l \in Loops |-> TRUE]
  /\ pc' = [l \in Loops |-> IF pc[l] = "sleep" THEN "ended" ELSE pc[l]]

\* The first SIGTERM or SIGINT: both flags are set and both sleepers woken; a woken
\* loop reads its flag and ends.  Later signals do nothing.
Signal ==
  /\ stage = "running"
  /\ stage' = "stopping"
  /\ StopLoops
  /\ UNCHANGED <<limit, paused, due, out, lingering, faults>>

\* Both loops have returned: dastar.close() ends its canceller.
Close ==
  /\ stage = "stopping" /\ \A l \in Loops : pc[l] = "ended"
  /\ stage' = "closing"
  /\ UNCHANGED <<limit, pc, stopped, paused, due, out, lingering, faults>>

EndPool ==
  /\ stage = "closing"
  /\ stage' = "ending"
  /\ UNCHANGED <<limit, pc, stopped, paused, due, out, lingering, faults>>

\* pool.end() resolves when every connection of the pool has been returned.  A
\* statement whose connection was discarded is not waited for.
Exit ==
  /\ stage = "ending" /\ out = 0
  /\ stage' = "exit0"
  /\ UNCHANGED <<limit, pc, stopped, paused, due, out, lingering, faults>>

-----------------------------------------------------------------------------
(* A loop. *)

Alive == stage \notin Exited

\* The rest of the tick after its batches: a stop that arrived meanwhile ends the
\* loop, which else sets its timer.
Rest(l) == IF stopped[l] THEN "ended" ELSE "sleep"

\* The timer has fired: a paused tick takes no batch.
Tick(l) ==
  /\ Alive /\ pc[l] = "sleep"
  /\ pc' = [pc EXCEPT ![l] = IF paused THEN "sleep" ELSE "acquire"]
  /\ UNCHANGED <<stage, limit, stopped, paused, due, out, lingering, faults>>

Acquire(l) ==
  /\ Alive /\ pc[l] = "acquire" /\ out < PoolMax
  /\ pc' = [pc EXCEPT ![l] = "batch"] /\ out' = out + 1
  /\ UNCHANGED <<stage, limit, stopped, paused, due, lingering, faults>>

\* A full batch asks for another one.
Full(l, taken) == \E t \in Tables[l] : taken[t] = limit

\* Mutant: a full batch is followed by another, whatever else has happened.
AgainAlways(l, taken) == Full(l, taken)

Again(l, taken) == Full(l, taken) /\ ~stopped[l] /\ ~paused

\* The most a batch can take of a table.
Most(t) == IF due[t] < limit THEN due[t] ELSE limit

\* What is left due when a batch has taken all it can.
Emptied(l) == [t \in AllTables |-> due[t] - IF t \in Tables[l] THEN Most(t) ELSE 0]

\* A batch takes what is due, up to the limit, of each of its tables; it passes
\* over the rows that another transaction has locked, a lingering one included.
Batch(l) ==
  /\ Alive /\ pc[l] = "batch"
  /\ \E taken \in [Tables[l] -> 0..limit] :
       /\ \A t \in Tables[l] : taken[t] <= Most(t)
       /\ \/ faults' = faults /\ (lingering[l] = 0 => \A t \in Tables[l] : taken[t] = Most(t))
          \/ faults < MaxFaults /\ faults' = faults + 1
       /\ due' = [t \in AllTables |-> IF t \in Tables[l] THEN due[t] - taken[t] ELSE due[t]]
       /\ pc' = [pc EXCEPT ![l] = IF Again(l, taken) THEN "acquire" ELSE Rest(l)]
  /\ out' = out - 1
  /\ UNCHANGED <<stage, limit, stopped, paused, lingering>>

\* Mutant: the error of a batch ends the loop.
FailFatal(l) ==
  /\ Alive /\ pc[l] \in {"acquire", "batch"} /\ faults < MaxFaults
  /\ pc' = [pc EXCEPT ![l] = "ended"]
  /\ out' = IF pc[l] = "batch" THEN out - 1 ELSE out
  /\ faults' = faults + 1
  /\ UNCHANGED <<stage, limit, stopped, paused, due, lingering>>

\* The batch fails, or finds no connection in time: it is counted, and the loop
\* carries on at the next tick.  Its connection has been released before: returned,
\* or, past its deadline, discarded.  What a failed batch did may have been committed,
\* and the statement of a discarded connection may still run.
Fail(l) ==
  /\ Alive /\ pc[l] \in {"acquire", "batch"} /\ faults < MaxFaults
  /\ pc' = [pc EXCEPT ![l] = Rest(l)]
  /\ \/ pc[l] = "acquire" /\ UNCHANGED <<out, due, lingering>>
     \/ pc[l] = "batch" /\ out' = out - 1 /\ due' \in {due, Emptied(l)} /\ lingering' = lingering
     \/ /\ pc[l] = "batch" /\ out' = out - 1 /\ due' = due
        /\ lingering' = [lingering EXCEPT ![l] = @ + 1]
  /\ faults' = faults + 1
  /\ UNCHANGED <<stage, limit, stopped, paused>>

-----------------------------------------------------------------------------
(* Around it. *)

\* A lingering statement ends: it was the commit, or its transaction is rolled back.
\* The process may have exited.
LeftEnds(l) ==
  /\ lingering[l] > 0 /\ lingering' = [lingering EXCEPT ![l] = @ - 1]
  /\ due' \in {due, Emptied(l)}
  /\ UNCHANGED <<stage, limit, pc, stopped, paused, out, faults>>

Arrive(t) ==
  /\ due[t] < MaxDue
  /\ due' = [due EXCEPT ![t] = @ + 1]
  /\ UNCHANGED <<stage, limit, pc, stopped, paused, out, lingering, faults>>

Pause ==
  /\ Alive
  /\ paused' = ~paused
  /\ UNCHANGED <<stage, limit, pc, stopped, due, out, lingering, faults>>

Loop(l) == Acquire(l) \/ Batch(l) \/ Fail(l)
Process == Boot \/ Close \/ EndPool \/ Exit
WorkerNext ==
  \/ Process \/ Signal \/ Pause
  \/ \E l \in Loops : Loop(l) \/ Tick(l) \/ LeftEnds(l)
  \/ \E t \in AllTables : Arrive(t)

-----------------------------------------------------------------------------
(* Properties. *)

\* A signal ends the process without waiting out a loop's interval, though rows may
\* fall due as fast as batches take them.
StopEnds == stage = "stopping" ~> stage = "exit0"

\* With timers that fire, the backlog of a loop is drained: rows keep falling due in its
\* tables, or it is paused again and again, or stopped, or its tables become empty.
\* Errors and rows locked by others put that off to a later tick only.
Drains ==
  (\A l \in Loops : WF_workerVars(Tick(l))) =>
    \A l \in Loops :
      \/ []<>((\A t \in Tables[l] : due[t] = 0) \/ paused)
      \/ []<><<\E t \in Tables[l] : Arrive(t)>>_workerVars
      \/ <>(stage \notin {"booting", "running"} \/ stopped[l])
=============================================================================
