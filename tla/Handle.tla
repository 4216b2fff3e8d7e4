------------------------------ MODULE Handle ------------------------------
(***************************************************************************)
(* The handle that owns a command's connection: checkout within a timeout, *)
(* the command, its deadline, the cancel request and the grace period, the *)
(* rollback probe after an error, and return or discard.                   *)
(*                                                                         *)
(* A connection is its client and its backend process, which outlives a    *)
(* discarded client until its statement ends.  Commands are any sequence   *)
(* of statements; Engine.tla models what they do.  Waiters are served in   *)
(* any order, and a backend's pid is not reused while a cancel request for *)
(* it is in flight.                                                        *)
(***************************************************************************)
EXTENDS Integers, FiniteSets

CONSTANTS
  Procs,       \* callers of the handle
  Conns,       \* connections, over time
  Cancellers,  \* canceller connections, over time
  PoolMax,     \* the pool's size
  MaxLate      \* bound on the checkouts that outlive their callers

ASSUME HandleAssumption ==
  /\ PoolMax \in Nat \ {0} /\ MaxLate \in Nat
  /\ Conns \cap Cancellers = {} /\ Conns \cap Procs = {}
  /\ "none" \notin Conns \cup Cancellers

VARIABLES
  dedicated,  \* whether a canceller connection string is configured
  pool,       \* each connection as the pool sees it
  backend,    \* its server process
  lost,       \* a connection error was recorded while it was out
  known,      \* its pid has been read
  late,       \* pending checkouts whose callers gave up
  pc, conn,   \* each call and the connection it runs on
  job,        \* the cancel request for each connection
  via,        \* what carries it
  memo,       \* the memoized canceller
  link,       \* each canceller connection
  doomed      \* cancellers that end as soon as they are connected

resources == <<pool, backend, lost, known>>
cancels == <<job, via, memo, link, doomed>>
vars == <<dedicated, pool, backend, lost, known, late, pc, conn, job, via, memo, link, doomed>>

TypeOK ==
  /\ dedicated \in BOOLEAN
  /\ pool \in [Conns -> {"none", "idle", "out"}]
  /\ backend \in [Conns -> {"gone", "quiet", "open", "busy"}]
  /\ lost \in [Conns -> BOOLEAN] /\ known \in [Conns -> BOOLEAN]
  /\ late \in 0..MaxLate
  /\ pc \in [Procs -> {"idle", "acquire", "run", "grace", "probe"}]
  /\ conn \in [Procs -> Conns \cup {"none"}]
  /\ job \in [Conns -> {"none", "borrow", "sent", "adrift"}]
  /\ via \in [Conns -> Conns \cup Cancellers \cup {"none"}]
  /\ memo \in Cancellers \cup {"none"}
  /\ link \in [Cancellers -> {"none", "connecting", "open"}]
  /\ doomed \subseteq Cancellers

Init ==
  /\ dedicated \in BOOLEAN
  /\ pool = [c \in Conns |-> "none"]
  /\ backend = [c \in Conns |-> "gone"]
  /\ lost = [c \in Conns |-> FALSE] /\ known = [c \in Conns |-> FALSE]
  /\ late = 0
  /\ pc = [p \in Procs |-> "idle"] /\ conn = [p \in Procs |-> "none"]
  /\ job = [c \in Conns |-> "none"] /\ via = [c \in Conns |-> "none"]
  /\ memo = "none" /\ link = [g \in Cancellers |-> "none"] /\ doomed = {}

-----------------------------------------------------------------------------
(* The pool. *)

\* A connection the pool may still open: its pid belongs to nobody.
Unused(c) == pool[c] = "none" /\ backend[c] = "gone" /\ job[c] = "none"

Available(c) ==
  \/ pool[c] = "idle"
  \/ Unused(c) /\ Cardinality({d \in Conns : pool[d] # "none"}) < PoolMax

\* c goes to a caller, whose first statement, if any, is of kind b.
CheckOut(c, b) ==
  /\ Available(c)
  /\ pool' = [pool EXCEPT ![c] = "out"]
  /\ backend' = [backend EXCEPT ![c] = IF Unused(c) \/ @ # "gone" THEN b ELSE @]
  /\ known' = [known EXCEPT ![c] = @ /\ ~Unused(c)]

\* c comes back, its backend in state b; with an error it is closed, and the
\* backend goes with it unless it is in the middle of a statement.
Finish(c, fatal, b) ==
  LET close == fatal \/ lost[c] IN
  /\ pool' = [pool EXCEPT ![c] = IF close THEN "none" ELSE "idle"]
  /\ backend' = [backend EXCEPT ![c] = IF close /\ b # "busy" THEN "gone" ELSE b]
  /\ lost' = [lost EXCEPT ![c] = FALSE]
  /\ UNCHANGED known

\* A connection that arrives after its caller gave up goes straight back.
ServeLate ==
  /\ late > 0
  /\ late' = late - 1
  /\ \E c \in Conns :
       /\ Available(c)
       /\ pool' = [pool EXCEPT ![c] = "idle"]
       /\ backend' = [backend EXCEPT ![c] = IF Unused(c) THEN "quiet" ELSE @]
       /\ known' = [known EXCEPT ![c] = @ /\ ~Unused(c)]
  /\ UNCHANGED <<dedicated, lost, pc, conn, cancels>>

\* A caller stops waiting: its checkout failed, or timed out and is still pending.
GiveUp == late' \in {late, late + 1} \cap 0..MaxLate

\* A backend is terminated, its socket drops, or its client is closed and its
\* statement has ended.
Die(c) ==
  /\ backend[c] # "gone"
  /\ backend' = [backend EXCEPT ![c] = "gone"]
  /\ UNCHANGED <<dedicated, pool, lost, known, late, pc, conn, cancels>>

\* The client hears of it: recorded while it is out, removed while it is idle.
Notice(c) ==
  /\ backend[c] = "gone"
  /\ \/ /\ pool[c] = "out"
        /\ lost' = [lost EXCEPT ![c] = TRUE]
        /\ UNCHANGED pool
     \/ /\ pool[c] = "idle"
        /\ pool' = [pool EXCEPT ![c] = "none"]
        /\ UNCHANGED lost
  /\ UNCHANGED <<dedicated, backend, known, late, pc, conn, cancels>>

-----------------------------------------------------------------------------
(* The cancel request: over the shared canceller, or over a pool client. *)

\* The canceller all callers share, connected for the first of them.
Share(c, g) ==
  /\ IF memo # "none"
     THEN g = memo /\ UNCHANGED link
     ELSE /\ link[g] = "none" /\ \A d \in Conns : via[d] # g
          /\ link' = [link EXCEPT ![g] = "connecting"]
  /\ memo' = g

\* A backend whose pid is not known is not cancelled.
BeginCancel(c) ==
  \/ ~known[c] /\ UNCHANGED cancels
  \/ /\ known[c] /\ ~dedicated
     /\ job' = [job EXCEPT ![c] = "borrow"]
     /\ UNCHANGED <<via, memo, link, doomed>>
  \/ /\ known[c] /\ dedicated
     /\ \E g \in Cancellers : Share(c, g) /\ via' = [via EXCEPT ![c] = g]
     /\ job' = [job EXCEPT ![c] = "sent"]
     /\ UNCHANGED doomed

EndJob(c) ==
  /\ job' = [job EXCEPT ![c] = "none"]
  /\ via' = [via EXCEPT ![c] = "none"]

\* The signal: it fails the statement the backend runs, and nothing else.
Struck(c) ==
  IF backend[c] # "busy" THEN backend[c] ELSE IF pool[c] = "none" THEN "gone" ELSE "open"

Forget(g) == memo' = IF memo = g THEN "none" ELSE memo

Connected(g) ==
  /\ link[g] = "connecting"
  /\ link' = [link EXCEPT ![g] = IF g \in doomed THEN "none" ELSE "open"]
  /\ doomed' = doomed \ {g}
  /\ UNCHANGED <<dedicated, resources, late, pc, conn, job, via, memo>>

\* It fails to connect, or its connection drops.
Drop(g) ==
  /\ link[g] # "none"
  /\ link' = [link EXCEPT ![g] = "none"]
  /\ doomed' = doomed \ {g}
  /\ Forget(g)
  /\ UNCHANGED <<dedicated, resources, late, pc, conn, job, via>>

\* The canceller's backend signals c's.
Cancel(c) ==
  /\ job[c] = "sent" /\ via[c] \in Cancellers /\ link[via[c]] = "open"
  /\ backend' = [backend EXCEPT ![c] = Struck(c)]
  /\ EndJob(c)
  /\ UNCHANGED <<dedicated, pool, lost, known, late, pc, conn, memo, link, doomed>>

\* A request that fails or is refused ends the shared canceller, and with it the
\* requests of others; it may still arrive.
CancelFails(c) ==
  /\ job[c] = "sent" /\ via[c] \in Cancellers /\ link[via[c]] # "connecting"
  /\ Forget(via[c])
  /\ link' = [link EXCEPT ![via[c]] = "none"]
  /\ \E s \in {"none", "adrift"} : job' = [job EXCEPT ![c] = s]
  /\ via' = [via EXCEPT ![c] = "none"]
  /\ UNCHANGED <<dedicated, resources, late, pc, conn, doomed>>

Borrow(c) ==
  /\ job[c] = "borrow"
  /\ \E d \in Conns : CheckOut(d, "busy") /\ via' = [via EXCEPT ![c] = d]
  /\ job' = [job EXCEPT ![c] = "sent"]
  /\ UNCHANGED <<dedicated, lost, late, pc, conn, memo, link, doomed>>

BorrowTimeout(c) ==
  /\ job[c] = "borrow"
  /\ GiveUp
  /\ EndJob(c)
  /\ UNCHANGED <<dedicated, resources, pc, conn, memo, link, doomed>>

\* The borrowed client's backend signals c's, and the client goes back.
BorrowedCancel(c) ==
  LET d == via[c] IN
  /\ job[c] = "sent" /\ d \in Conns /\ backend[d] = "busy"
  /\ EndJob(c)
  /\ pool' = [pool EXCEPT ![d] = IF lost[d] THEN "none" ELSE "idle"]
  /\ backend' = [backend EXCEPT ![c] = Struck(c), ![d] = IF lost[d] THEN "gone" ELSE "quiet"]
  /\ lost' = [lost EXCEPT ![d] = FALSE]
  /\ UNCHANGED <<dedicated, known, late, pc, conn, memo, link, doomed>>

\* Mutant: the borrowed client is waited for without a limit.
BorrowedFailsUnlimited(c) ==
  LET d == via[c] IN
  /\ job[c] = "sent" /\ d \in Conns /\ backend[d] = "gone"
  /\ Finish(d, TRUE, backend[d])
  /\ EndJob(c)
  /\ UNCHANGED <<dedicated, late, pc, conn, memo, link, doomed>>

\* The request fails, or does not answer within the grace period: the borrowed
\* client is discarded, and the request may still arrive.
BorrowedFails(c) ==
  LET d == via[c] IN
  /\ job[c] = "sent" /\ d \in Conns
  /\ Finish(d, TRUE, backend[d])
  /\ job' = [job EXCEPT ![c] = "adrift"]
  /\ via' = [via EXCEPT ![c] = "none"]
  /\ UNCHANGED <<dedicated, late, pc, conn, memo, link, doomed>>

\* A request nobody waits for arrives after all, or never.
Arrive(c) ==
  /\ job[c] = "adrift"
  /\ EndJob(c)
  /\ \E b \in {Struck(c), backend[c]} : backend' = [backend EXCEPT ![c] = b]
  /\ UNCHANGED <<dedicated, pool, lost, known, late, pc, conn, memo, link, doomed>>

\* The host closes the handle, with commands under way or not.  One canceller is
\* doomed at a time: a bound.
Close ==
  /\ memo # "none" /\ doomed = {}
  /\ memo' = "none"
  /\ IF link[memo] = "connecting"
     THEN doomed' = {memo} /\ UNCHANGED link
     ELSE link' = [link EXCEPT ![memo] = "none"] /\ UNCHANGED doomed
  /\ UNCHANGED <<dedicated, resources, late, pc, conn, job, via>>

-----------------------------------------------------------------------------
(* A call. *)

Start(p) ==
  /\ pc[p] = "idle"
  /\ pc' = [pc EXCEPT ![p] = "acquire"]
  /\ UNCHANGED <<dedicated, resources, late, conn, cancels>>

Acquire(p) ==
  /\ pc[p] = "acquire"
  /\ \E c \in Conns : CheckOut(c, "quiet") /\ conn' = [conn EXCEPT ![p] = c]
  /\ pc' = [pc EXCEPT ![p] = "run"]
  /\ UNCHANGED <<dedicated, lost, late, cancels>>

AcquireTimeout(p) ==
  /\ pc[p] = "acquire"
  /\ GiveUp
  /\ pc' = [pc EXCEPT ![p] = "idle"]
  /\ UNCHANGED <<dedicated, resources, conn, cancels>>

\* The command sends a statement; the first on a connection reads its pid.
Statement(p) ==
  /\ pc[p] \in {"run", "grace"}
  /\ backend[conn[p]] \in {"quiet", "open"}
  /\ backend' = [backend EXCEPT ![conn[p]] = "busy"]
  /\ UNCHANGED <<dedicated, pool, lost, known, late, pc, conn, cancels>>

\* It ends, and leaves a transaction open or none.
Done(p) ==
  LET c == conn[p] IN
  /\ pc[p] \in {"run", "grace", "probe"}
  /\ backend[c] = "busy"
  /\ \E b \in (IF known[c] THEN {"open", "quiet"} ELSE {"quiet"}) :
       backend' = [backend EXCEPT ![c] = b]
  /\ known' = [known EXCEPT ![c] = TRUE]
  /\ UNCHANGED <<dedicated, pool, lost, late, pc, conn, cancels>>

\* The call returns, and its connection with it.
Return(p, fatal, b) ==
  /\ Finish(conn[p], fatal, b)
  /\ pc' = [pc EXCEPT ![p] = "idle"]
  /\ conn' = [conn EXCEPT ![p] = "none"]
  /\ UNCHANGED <<dedicated, late>>

\* The command has committed, or its connection died since.
Succeed(p) ==
  /\ pc[p] = "run"
  /\ backend[conn[p]] \in {"quiet", "gone"}
  /\ Return(p, FALSE, backend[conn[p]])
  /\ UNCHANGED cancels

\* Mutant: no rollback after an error.
FailUnprobed(p) ==
  /\ pc[p] = "run"
  /\ Return(p, FALSE, backend[conn[p]])
  /\ UNCHANGED cancels

\* The command fails, in whatever state it leaves the connection, and the handle
\* sends a rollback.
Fail(p) ==
  /\ pc[p] = "run"
  /\ pc' = [pc EXCEPT ![p] = "probe"]
  /\ UNCHANGED <<dedicated, resources, late, conn, cancels>>

ProbeAnswers(p) ==
  /\ pc[p] = "probe"
  /\ \/ backend[conn[p]] \in {"quiet", "open"} /\ Return(p, FALSE, "quiet")
     \/ backend[conn[p]] = "gone" /\ Return(p, TRUE, "gone")
  /\ UNCHANGED cancels

ProbeTimeout(p) ==
  /\ pc[p] = "probe"
  /\ Return(p, TRUE, backend[conn[p]])
  /\ UNCHANGED cancels

\* The deadline passes: the grace period starts, and nobody waits for the cancel.
Deadline(p) ==
  /\ pc[p] = "run"
  /\ pc' = [pc EXCEPT ![p] = "grace"]
  /\ BeginCancel(conn[p])
  /\ UNCHANGED <<dedicated, resources, late, conn>>

\* Mutant: a command that settles in the grace period returns its connection.
SettleLateReturned(p) ==
  /\ pc[p] = "grace"
  /\ backend[conn[p]] \in {"quiet", "gone"}
  /\ Return(p, FALSE, backend[conn[p]])
  /\ UNCHANGED cancels

\* The command settles within the grace period; its connection is discarded.
SettleLate(p) ==
  /\ pc[p] = "grace"
  /\ backend[conn[p]] # "busy"
  /\ Return(p, TRUE, backend[conn[p]])
  /\ UNCHANGED cancels

\* Mutant: the cancel request is awaited before the call returns.
GraceEndsAwaited(p) ==
  /\ pc[p] = "grace"
  /\ job[conn[p]] = "none"
  /\ Return(p, TRUE, backend[conn[p]])
  /\ UNCHANGED cancels

GraceEnds(p) ==
  /\ pc[p] = "grace"
  /\ Return(p, TRUE, backend[conn[p]])
  /\ UNCHANGED cancels

-----------------------------------------------------------------------------

Timers(p) == AcquireTimeout(p) \/ Deadline(p) \/ GraceEnds(p) \/ ProbeTimeout(p)

Next ==
  \/ ServeLate \/ Close
  \/ \E c \in Conns :
       \/ Die(c) \/ Notice(c)
       \/ Cancel(c) \/ CancelFails(c) \/ Arrive(c)
       \/ Borrow(c) \/ BorrowTimeout(c) \/ BorrowedCancel(c) \/ BorrowedFails(c)
  \/ \E g \in Cancellers : Connected(g) \/ Drop(g)
  \/ \E p \in Procs :
       \/ Start(p) \/ Acquire(p) \/ Timers(p)
       \/ Statement(p) \/ Done(p) \/ Succeed(p) \/ Fail(p) \/ ProbeAnswers(p) \/ SettleLate(p)

Spec == Init /\ [][Next]_vars

\* Only the handle's own timers are fair: no backend need answer, no canceller
\* connect and no command settle.
FairSpec ==
  /\ Spec
  /\ \A p \in Procs : WF_vars(Timers(p))
  /\ \A c \in Conns : WF_vars(BorrowTimeout(c) \/ BorrowedFails(c))

-----------------------------------------------------------------------------
(* Properties. *)

\* A cancel request in flight is for a command past its deadline or a discarded
\* connection: it never reaches a backend handed to another command.
CancelsOverdue ==
  \A c \in Conns : job[c] # "none" =>
    \/ pool[c] = "none"
    \/ pool[c] = "out" /\ \E p \in Procs : conn[p] = c /\ pc[p] = "grace"

\* An idle connection has no statement under way, no open transaction and no
\* recorded error: the next command begins its own transaction.
IdleIsClean ==
  \A c \in Conns : pool[c] = "idle" => backend[c] \in {"quiet", "gone"} /\ ~lost[c]

\* Every connection that is out is some one call's or some one cancel request's:
\* none is released twice, and none is lost to the pool.
Holders(c) ==
  {p \in Procs : conn[p] = c} \cup {d \in Conns : job[d] = "sent" /\ via[d] = c}
HeldOnce ==
  \A c \in Conns :
    /\ pool[c] = "out" <=> Holders(c) # {}
    /\ \A x, y \in Holders(c) : x = y

\* Concurrent deadlines share one canceller, and a canceller the handle has
\* forgotten is ended: at most one is left open.
OneCanceller ==
  \A g \in Cancellers : link[g] # "none" => g = memo \/ g \in doomed

\* A call has a connection while it runs, a request in flight a carrier, and an
\* error is recorded only while its connection is out.
Paired ==
  /\ \A c \in Conns : lost[c] => pool[c] = "out"
  /\ \A p \in Procs : conn[p] # "none" <=> pc[p] \in {"run", "grace", "probe"}
  /\ \A c \in Conns : via[c] # "none" <=> job[c] = "sent"

\* The inductive invariant.
Inductive == TypeOK /\ Paired /\ HeldOnce /\ CancelsOverdue /\ IdleIsClean /\ OneCanceller

\* Every call returns, whatever the database does.
CallsReturn == \A p \in Procs : pc[p] # "idle" ~> pc[p] = "idle"

\* Every connection comes back or is discarded: a stalled database or a stalled
\* cancel request does not drain the pool.
PoolRecovers == \A c \in Conns : pool[c] = "out" ~> pool[c] # "out"
=============================================================================
