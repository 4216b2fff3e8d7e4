--------------------------- MODULE HandleProofs ---------------------------
(***************************************************************************)
(* The handle's connection accounting, for every pool size and any number  *)
(* of callers, connections and cancel requests.                            *)
(***************************************************************************)
EXTENDS Handle, TLAPS

\* HeldOnce in terms of calls and of cancel requests.
HeldApart ==
  \A c \in Conns :
    /\ pool[c] = "out" <=> (\E p \in Procs : conn[p] = c) \/ (\E d \in Conns : via[d] = c)
    /\ \A p, q \in Procs : conn[p] = c /\ conn[q] = c => p = q
    /\ \A d, e \in Conns : via[d] = c /\ via[e] = c => d = e
    /\ \A p \in Procs, d \in Conns : ~(conn[p] = c /\ via[d] = c)

\* The invariant the steps keep, part by part.
IInv == TypeOK /\ Paired /\ HeldApart /\ CancelsOverdue /\ IdleIsClean /\ OneCanceller

LEMMA HeldApartIsHeldOnce ==
  ASSUME TypeOK, Paired PROVE HeldApart <=> HeldOnce
<1> USE HandleAssumption
<1>1. \A c, d \in Conns : (job[d] = "sent" /\ via[d] = c) <=> via[d] = c
  BY DEF Paired
<1>2. \A c \in Conns : \A x : x \in Holders(c) <=>
               (x \in Procs /\ conn[x] = c) \/ (x \in Conns /\ via[x] = c)
  BY <1>1 DEF Holders
<1>3. \A x : ~(x \in Procs /\ x \in Conns)
  OBVIOUS
<1>4. ASSUME HeldApart PROVE HeldOnce
  BY <1>2, <1>4 DEF HeldApart, HeldOnce
<1>5. ASSUME HeldOnce, NEW c \in Conns
      PROVE  /\ pool[c] = "out" <=> (\E p \in Procs : conn[p] = c) \/ (\E d \in Conns : via[d] = c)
             /\ \A p, q \in Procs : conn[p] = c /\ conn[q] = c => p = q
             /\ \A d, e \in Conns : via[d] = c /\ via[e] = c => d = e
             /\ \A p \in Procs, d \in Conns : ~(conn[p] = c /\ via[d] = c)
  BY <1>2, <1>3, <1>5 DEF HeldOnce
<1> QED BY <1>4, <1>5 DEF HeldApart

LEMMA InitInv == Init => IInv
BY HandleAssumption
   DEF Init, IInv, TypeOK, Paired, HeldApart, CancelsOverdue, IdleIsClean, OneCanceller

LEMMA PoolSteps ==
  ASSUME IInv, ServeLate \/ (\E c \in Conns : Die(c) \/ Notice(c)) PROVE IInv'
<1> USE HandleAssumption DEF IInv
<1>1. CASE ServeLate
  <2> USE <1>1 DEF ServeLate, Available, Unused, cancels
  <2>1. TypeOK'
    BY DEF TypeOK, Paired
  <2>2. Paired'
    BY DEF TypeOK, Paired
  <2>3. HeldApart'
    <3>1. UNCHANGED <<conn, via>> /\ \A c \in Conns : pool'[c] = "out" <=> pool[c] = "out"
      BY DEF TypeOK
    <3> QED BY <3>1 DEF HeldApart
  <2>4. CancelsOverdue'
    BY DEF TypeOK, Paired, HeldApart, CancelsOverdue
  <2>5. IdleIsClean'
    BY DEF TypeOK, Paired, HeldApart, CancelsOverdue, IdleIsClean
  <2>6. OneCanceller'
    BY DEF TypeOK, Paired, OneCanceller
  <2> QED BY <2>1, <2>2, <2>3, <2>4, <2>5, <2>6
<1>2. ASSUME NEW c \in Conns, Die(c) PROVE IInv'
  <2> USE <1>2 DEF Die, cancels
  <2>1. TypeOK'
    BY DEF TypeOK, Paired
  <2>2. Paired'
    BY DEF TypeOK, Paired
  <2>3. HeldApart'
    BY DEF TypeOK, Paired, HeldApart
  <2>4. CancelsOverdue'
    BY DEF TypeOK, Paired, HeldApart, CancelsOverdue
  <2>5. IdleIsClean'
    BY DEF TypeOK, Paired, HeldApart, CancelsOverdue, IdleIsClean
  <2>6. OneCanceller'
    BY DEF TypeOK, Paired, OneCanceller
  <2> QED BY <2>1, <2>2, <2>3, <2>4, <2>5, <2>6
<1>3. ASSUME NEW c \in Conns, Notice(c) PROVE IInv'
  <2> USE <1>3 DEF Notice, cancels
  <2>1. TypeOK'
    <3>1. lost' \in [Conns -> BOOLEAN]
      BY Zenon DEF TypeOK
    <3>2. pool' \in [Conns -> {"none", "idle", "out"}]
      BY DEF TypeOK
    <3> QED BY <3>1, <3>2 DEF TypeOK
  <2>2. Paired'
    BY DEF TypeOK, Paired
  <2>3. HeldApart'
    BY DEF TypeOK, Paired, HeldApart
  <2>4. CancelsOverdue'
    BY DEF TypeOK, Paired, HeldApart, CancelsOverdue
  <2>5. IdleIsClean'
    BY DEF TypeOK, Paired, HeldApart, CancelsOverdue, IdleIsClean
  <2>6. OneCanceller'
    BY DEF TypeOK, Paired, OneCanceller
  <2> QED BY <2>1, <2>2, <2>3, <2>4, <2>5, <2>6
<1> QED BY <1>1, <1>2, <1>3

LEMMA CancellerSteps ==
  ASSUME IInv,
         Close \/ (\E g \in Cancellers : Connected(g) \/ Drop(g))
         \/ (\E c \in Conns : Cancel(c) \/ CancelFails(c) \/ Arrive(c))
  PROVE  IInv'
<1> USE HandleAssumption DEF IInv, resources, TypeOK
<1>1. CASE Close
  <2> USE <1>1 DEF Close
  <2>1. TypeOK'
    BY DEF TypeOK, Paired
  <2>2. Paired'
    BY DEF TypeOK, Paired
  <2>3. HeldApart'
    BY DEF TypeOK, Paired, HeldApart
  <2>4. CancelsOverdue'
    BY DEF TypeOK, Paired, HeldApart, CancelsOverdue
  <2>5. IdleIsClean'
    BY DEF TypeOK, Paired, HeldApart, CancelsOverdue, IdleIsClean
  <2>6. OneCanceller'
    BY DEF TypeOK, Paired, OneCanceller
  <2> QED BY <2>1, <2>2, <2>3, <2>4, <2>5, <2>6
<1>2. ASSUME NEW g \in Cancellers, Connected(g) \/ Drop(g) PROVE IInv'
  <2> USE <1>2 DEF Connected, Drop, Forget
  <2>1. TypeOK'
    BY DEF TypeOK, Paired
  <2>2. Paired'
    BY DEF TypeOK, Paired
  <2>3. HeldApart'
    BY DEF TypeOK, Paired, HeldApart
  <2>4. CancelsOverdue'
    BY DEF TypeOK, Paired, HeldApart, CancelsOverdue
  <2>5. IdleIsClean'
    BY DEF TypeOK, Paired, HeldApart, CancelsOverdue, IdleIsClean
  <2>6. OneCanceller'
    BY DEF TypeOK, Paired, OneCanceller
  <2> QED BY <2>1, <2>2, <2>3, <2>4, <2>5, <2>6
<1>3. ASSUME NEW c \in Conns, Cancel(c) PROVE IInv'
  <2> USE <1>3 DEF Cancel, EndJob, Struck
  <2>1. TypeOK'
    BY DEF TypeOK, Paired
  <2>2. Paired'
    BY DEF TypeOK, Paired
  <2>3. HeldApart'
    BY DEF TypeOK, Paired, HeldApart
  <2>4. CancelsOverdue'
    BY DEF TypeOK, Paired, HeldApart, CancelsOverdue
  <2>5. IdleIsClean'
    BY DEF TypeOK, Paired, HeldApart, CancelsOverdue, IdleIsClean
  <2>6. OneCanceller'
    BY DEF TypeOK, Paired, OneCanceller
  <2> QED BY <2>1, <2>2, <2>3, <2>4, <2>5, <2>6
<1>4. ASSUME NEW c \in Conns, CancelFails(c) PROVE IInv'
  <2> USE <1>4 DEF CancelFails, Forget, EndJob
  <2>1. TypeOK'
    BY DEF TypeOK, Paired
  <2>2. Paired'
    BY DEF TypeOK, Paired
  <2>3. HeldApart'
    BY DEF TypeOK, Paired, HeldApart
  <2>4. CancelsOverdue'
    BY DEF TypeOK, Paired, HeldApart, CancelsOverdue
  <2>5. IdleIsClean'
    BY DEF TypeOK, Paired, HeldApart, CancelsOverdue, IdleIsClean
  <2>6. OneCanceller'
    BY DEF TypeOK, Paired, OneCanceller
  <2> QED BY <2>1, <2>2, <2>3, <2>4, <2>5, <2>6
<1>5. ASSUME NEW c \in Conns, Arrive(c) PROVE IInv'
  <2> USE <1>5 DEF Arrive, EndJob, Struck
  <2>1. TypeOK'
    <3>1. \A b \in {Struck(c), backend[c]} : b \in {"gone", "quiet", "open", "busy"}
      BY DEF TypeOK
    <3>2. backend' \in [Conns -> {"gone", "quiet", "open", "busy"}]
      BY <3>1 DEF TypeOK
    <3> QED BY <3>2 DEF TypeOK
  <2>2. Paired'
    BY DEF TypeOK, Paired
  <2>3. HeldApart'
    BY DEF TypeOK, Paired, HeldApart
  <2>4. CancelsOverdue'
    BY DEF TypeOK, Paired, HeldApart, CancelsOverdue
  <2>5. IdleIsClean'
    BY DEF TypeOK, Paired, HeldApart, CancelsOverdue, IdleIsClean
  <2>6. OneCanceller'
    BY DEF TypeOK, Paired, OneCanceller
  <2> QED BY <2>1, <2>2, <2>3, <2>4, <2>5, <2>6
<1> QED BY <1>1, <1>2, <1>3, <1>4, <1>5

LEMMA BorrowSteps ==
  ASSUME IInv, NEW c \in Conns, Borrow(c) \/ BorrowTimeout(c) \/ BorrowedCancel(c) \/ BorrowedFails(c)
  PROVE  IInv'
<1> USE HandleAssumption DEF IInv, TypeOK
<1>1. CASE Borrow(c)
  <2> USE <1>1 DEF Borrow, CheckOut, Available, Unused
  <2>1. TypeOK'
    BY DEF TypeOK, Paired
  <2>2. Paired'
    BY DEF TypeOK, Paired
  <2>3. HeldApart'
    BY DEF TypeOK, Paired, HeldApart
  <2>4. CancelsOverdue'
    BY DEF TypeOK, Paired, HeldApart, CancelsOverdue
  <2>5. IdleIsClean'
    BY DEF TypeOK, Paired, HeldApart, CancelsOverdue, IdleIsClean
  <2>6. OneCanceller'
    BY DEF TypeOK, Paired, OneCanceller
  <2> QED BY <2>1, <2>2, <2>3, <2>4, <2>5, <2>6
<1>2. CASE BorrowTimeout(c)
  <2> USE <1>2 DEF BorrowTimeout, GiveUp, EndJob, resources
  <2>1. TypeOK'
    BY DEF TypeOK, Paired
  <2>2. Paired'
    BY DEF TypeOK, Paired
  <2>3. HeldApart'
    BY DEF TypeOK, Paired, HeldApart
  <2>4. CancelsOverdue'
    BY DEF TypeOK, Paired, HeldApart, CancelsOverdue
  <2>5. IdleIsClean'
    BY DEF TypeOK, Paired, HeldApart, CancelsOverdue, IdleIsClean
  <2>6. OneCanceller'
    BY DEF TypeOK, Paired, OneCanceller
  <2> QED BY <2>1, <2>2, <2>3, <2>4, <2>5, <2>6
<1>3. CASE BorrowedCancel(c)
  <2> DEFINE d == via[c]
  <2>1. d \in Conns /\ pool[d] = "out" /\ c # d
    BY <1>3 DEF BorrowedCancel, Paired, HeldApart, CancelsOverdue
  <2>2. Struck(c) \in {"gone", "quiet", "open", "busy"}
        /\ (pool[c] = "idle" => Struck(c) \in {"quiet", "gone"})
    BY DEF Struck, IdleIsClean
  <2>3. /\ pool' = [pool EXCEPT ![d] = IF lost[d] THEN "none" ELSE "idle"]
        /\ backend' = [backend EXCEPT ![c] = Struck(c), ![d] = IF lost[d] THEN "gone" ELSE "quiet"]
        /\ lost' = [lost EXCEPT ![d] = FALSE]
        /\ job' = [job EXCEPT ![c] = "none"] /\ via' = [via EXCEPT ![c] = "none"]
        /\ UNCHANGED <<dedicated, known, late, pc, conn, memo, link, doomed>>
    BY <1>3 DEF BorrowedCancel, EndJob
  <2> HIDE DEF d
  <2>4. TypeOK' /\ OneCanceller'
    BY <2>1, <2>2, <2>3 DEF OneCanceller
  <2>5. Paired'
    BY <2>1, <2>3 DEF Paired
  <2>6. HeldApart'
    <3>1. \A e, f \in Conns : via'[e] = f <=> e # c /\ via[e] = f
      BY <2>3
    <3>2. \A e \in Conns : pool'[e] = "out" <=> pool[e] = "out" /\ e # d
      BY <2>1, <2>3
    <3> QED BY <2>1, <2>3, <3>1, <3>2 DEF d, HeldApart
  <2>7. CancelsOverdue'
    BY <2>1, <2>3 DEF d, CancelsOverdue, HeldApart
  <2>8. IdleIsClean'
    BY <2>1, <2>2, <2>3 DEF IdleIsClean
  <2> QED BY <2>4, <2>5, <2>6, <2>7, <2>8
<1>4. CASE BorrowedFails(c)
  <2> USE <1>4 DEF BorrowedFails, Finish
  <2>1. TypeOK'
    BY DEF TypeOK, Paired
  <2>2. Paired'
    BY DEF TypeOK, Paired
  <2>3. HeldApart'
    BY DEF TypeOK, Paired, HeldApart
  <2>4. CancelsOverdue'
    BY DEF TypeOK, Paired, HeldApart, CancelsOverdue
  <2>5. IdleIsClean'
    BY DEF TypeOK, Paired, HeldApart, CancelsOverdue, IdleIsClean
  <2>6. OneCanceller'
    BY DEF TypeOK, Paired, OneCanceller
  <2> QED BY <2>1, <2>2, <2>3, <2>4, <2>5, <2>6
<1> QED BY <1>1, <1>2, <1>3, <1>4

\* A call that returns gives its connection up and leaves nothing else behind.
LEMMA ReturnStep ==
  ASSUME IInv, NEW p \in Procs, pc[p] \in {"run", "grace", "probe"}, NEW fatal \in BOOLEAN,
         NEW b \in {"gone", "quiet", "open", "busy"},
         pc[p] # "run" /\ pc[p] # "probe" => fatal, ~fatal => b \in {"quiet", "gone"},
         Return(p, fatal, b), UNCHANGED cancels
  PROVE  IInv'
<1> USE HandleAssumption DEF IInv, TypeOK, cancels
<1> QED
  BY DEF Return, Finish, Paired, HeldApart, CancelsOverdue, IdleIsClean, OneCanceller

LEMMA CallSteps ==
  ASSUME IInv, NEW p \in Procs,
         Start(p) \/ Acquire(p) \/ Timers(p) \/ Statement(p) \/ Done(p) \/ Succeed(p) \/ Fail(p)
         \/ ProbeAnswers(p) \/ SettleLate(p)
  PROVE  IInv'
<1> USE HandleAssumption DEF IInv
<1>1. CASE Start(p) \/ AcquireTimeout(p) \/ Fail(p)
  <2> USE <1>1 DEF Start, AcquireTimeout, Fail, GiveUp, resources, cancels
  <2>1. TypeOK'
    BY DEF TypeOK
  <2>2. Paired'
    BY DEF TypeOK, Paired
  <2>3. HeldApart'
    BY DEF HeldApart
  <2>4. CancelsOverdue'
    BY DEF TypeOK, Paired, HeldApart, CancelsOverdue
  <2>5. IdleIsClean'
    BY DEF TypeOK, Paired, HeldApart, IdleIsClean
  <2>6. OneCanceller'
    BY DEF TypeOK, Paired, OneCanceller
  <2> QED BY <2>1, <2>2, <2>3, <2>4, <2>5, <2>6
<1>2. CASE Acquire(p)
  <2> USE <1>2 DEF Acquire, CheckOut, Available, Unused, cancels
  <2>1. TypeOK'
    BY DEF TypeOK
  <2>2. Paired'
    BY DEF TypeOK, Paired
  <2>3. HeldApart'
    <3>1. PICK c \in Conns : /\ pool[c] # "out" /\ pool' = [pool EXCEPT ![c] = "out"]
                            /\ conn' = [conn EXCEPT ![p] = c] /\ via' = via
      OBVIOUS
    <3>2. /\ \A q \in Procs : conn[q] # c
          /\ \A d \in Conns : via[d] # c
          /\ \A d \in Conns : conn[p] # d
      BY <3>1 DEF Paired, HeldApart
    <3> QED BY <3>1, <3>2 DEF TypeOK, HeldApart
  <2>4. CancelsOverdue'
    BY DEF TypeOK, Paired, HeldApart, CancelsOverdue
  <2>5. IdleIsClean'
    BY DEF TypeOK, Paired, HeldApart, IdleIsClean
  <2>6. OneCanceller'
    BY DEF TypeOK, Paired, OneCanceller
  <2> QED BY <2>1, <2>2, <2>3, <2>4, <2>5, <2>6
<1>3. CASE Statement(p) \/ Done(p)
  <2> USE <1>3 DEF Statement, Done, cancels
  <2>1. TypeOK'
    <3>1. known' \in [Conns -> BOOLEAN]
      BY Zenon DEF TypeOK
    <3>2. backend' \in [Conns -> {"gone", "quiet", "open", "busy"}]
      BY DEF TypeOK
    <3> QED BY <3>1, <3>2 DEF TypeOK
  <2>2. Paired'
    BY DEF TypeOK, Paired
  <2>3. HeldApart'
    BY DEF TypeOK, Paired, HeldApart
  <2>4. CancelsOverdue'
    BY DEF TypeOK, Paired, HeldApart, CancelsOverdue
  <2>5. IdleIsClean'
    BY DEF TypeOK, Paired, HeldApart, IdleIsClean
  <2>6. OneCanceller'
    BY DEF TypeOK, Paired, OneCanceller
  <2> QED BY <2>1, <2>2, <2>3, <2>4, <2>5, <2>6
<1>4. CASE Deadline(p)
  <2> DEFINE c == conn[p]
  <2>1. /\ c \in Conns /\ pool[c] = "out"
        /\ pc' = [pc EXCEPT ![p] = "grace"] /\ pc[p] = "run"
        /\ BeginCancel(c)
        /\ UNCHANGED <<dedicated, pool, backend, lost, known, late, conn>>
    BY <1>4 DEF Deadline, resources, TypeOK, Paired, HeldApart
  <2>2. job[c] = "none" /\ via[c] = "none"
    BY <2>1 DEF CancelsOverdue, HeldApart, Paired, TypeOK
  <2>3. /\ \/ job' = job
           \/ job' = [job EXCEPT ![c] = "borrow"]
           \/ job' = [job EXCEPT ![c] = "sent"]
        /\ \/ via' = via /\ job'[c] # "sent"
           \/ job'[c] = "sent" /\ \E g \in Cancellers : via' = [via EXCEPT ![c] = g]
    BY <2>1, <2>2 DEF BeginCancel, cancels, TypeOK
  <2>4. /\ memo' \in Cancellers \cup {"none"} /\ doomed' = doomed
        /\ link' \in [Cancellers -> {"none", "connecting", "open"}]
        /\ OneCanceller'
    BY <2>1 DEF BeginCancel, Share, cancels, TypeOK, OneCanceller
  <2> HIDE DEF c
  <2>5. TypeOK'
    BY <2>1, <2>3, <2>4 DEF TypeOK
  <2>6. Paired'
    BY <2>1, <2>2, <2>3 DEF TypeOK, Paired
  <2>7. HeldApart'
    <3>1. \A d, e \in Conns : via'[d] = e <=> via[d] = e
      BY <2>1, <2>2, <2>3 DEF TypeOK
    <3> QED BY <2>1, <3>1 DEF HeldApart
  <2>8. CancelsOverdue'
    BY <2>1, <2>2, <2>3 DEF c, TypeOK, Paired, HeldApart, CancelsOverdue
  <2>9. IdleIsClean'
    BY <2>1 DEF IdleIsClean
  <2> QED BY <2>4, <2>5, <2>6, <2>7, <2>8, <2>9
<1>5. CASE Succeed(p) \/ ProbeAnswers(p) \/ ProbeTimeout(p) \/ SettleLate(p) \/ GraceEnds(p)
  <2>1. pc[p] \in {"run", "grace", "probe"} => backend[conn[p]] \in {"gone", "quiet", "open", "busy"}
    BY DEF TypeOK, Paired
  <2> QED BY <1>5, <2>1, ReturnStep DEF Succeed, ProbeAnswers, ProbeTimeout, SettleLate, GraceEnds
<1> QED BY <1>1, <1>2, <1>3, <1>4, <1>5 DEF Timers

LEMMA InvStep == IInv /\ [Next]_vars => IInv'
<1>1. CASE UNCHANGED vars
  BY <1>1 DEF vars, IInv, TypeOK, Paired, HeldApart, CancelsOverdue, IdleIsClean, OneCanceller
<1> QED
  BY <1>1, PoolSteps, CancellerSteps, BorrowSteps, CallSteps DEF Next

\* Whatever times out, fails, dies or answers late, the handle's connections are
\* each held once, clean when idle, and cancelled only for their own command.
THEOREM HandleInductive == Spec => []Inductive
<1>1. IInv => Inductive
  BY HeldApartIsHeldOnce DEF IInv, Inductive
<1> QED BY <1>1, InitInv, InvStep, PTL DEF Spec

\* The connection contract of createDastar: a late cancel never reaches another
\* command's backend, an idle connection is clean, a connection is released
\* exactly once, and one canceller is shared and never left behind.
THEOREM HandleContract ==
  Spec => [](CancelsOverdue /\ IdleIsClean /\ HeldOnce /\ OneCanceller)
<1>1. Inductive => CancelsOverdue /\ IdleIsClean /\ HeldOnce /\ OneCanceller
  BY DEF Inductive
<1> QED BY <1>1, HandleInductive, PTL

\* Whatever ended the command before it, an idle connection is clean.
THEOREM HandleIdle == Spec => []IdleIsClean
<1>1. Inductive => IdleIsClean
  BY DEF Inductive
<1> QED BY <1>1, HandleInductive, PTL
=============================================================================
