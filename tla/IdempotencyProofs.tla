------------------------- MODULE IdempotencyProofs -------------------------
(***************************************************************************)
(* An idempotency key replays its outcome for its whole window, for every  *)
(* number of connections, keys, requests and retention workers.            *)
(***************************************************************************)
EXTENDS Idempotency, TLAPS

-----------------------------------------------------------------------------
(* Facts about single values and shared steps. *)

LEMMA NoRowIsNone == NoRow \notin Row /\ NoCall \notin Call
BY DEF NoRow, Row, NoCall, Call

LEMMA RowOfKey ==
  ASSUME TypeOK, NEW k \in Keys, table[k] # NoRow
  PROVE  table[k] \in Row
BY DEF TypeOK

LEMMA CallOf ==
  ASSUME TypeOK, NEW p \in Procs, pc[p] # "idle"
  PROVE  call[p].key \in Keys /\ Hash(p) \in Hashes
BY DEF TypeOK, Call, Hash, Hashes

\* What Begin and Answer leave of the types.
LEMMA BeginType ==
  ASSUME TypeOK, NEW p \in Procs, NEW n \in 1..2, Begin(p, n)
  PROVE  /\ pc' = [pc EXCEPT ![p] = "claim"]
         /\ pc' \in [Procs -> {"idle", "claim", "read", "work", "answer"}]
         /\ attempt' \in [Procs -> 1..2]
         /\ now' \in [Procs -> 0..MaxClock]
BY DEF TypeOK, Begin

LEMMA AnswerType ==
  ASSUME TypeOK, NEW p \in Procs, NEW a \in Outcomes \cup Errors, Answer(p, a)
  PROVE  /\ pc' = [pc EXCEPT ![p] = "answer"]
         /\ pc' \in [Procs -> {"idle", "claim", "read", "work", "answer"}]
         /\ attempt' \in [Procs -> 1..2]
         /\ now' \in [Procs -> 0..MaxClock]
         /\ answer' \in [Procs -> Outcomes \cup Errors \cup {"none"}]
<1>1. 0 \in 0..MaxClock /\ 1 \in 1..2
  BY IdempotencyAssumption
<1> QED BY <1>1 DEF TypeOK, Answer

\* A command that fails begins its transaction again, or gives up.
LEMMA RetryEnds ==
  ASSUME NEW p \in Procs, Retry(p)
  PROVE  (Begin(p, 2) /\ UNCHANGED answer) \/ Answer(p, "retry")
BY DEF Retry

\* What a step of a connection that leaves the tables alone does: its
\* transaction goes on, or ends without a trace.
Aside(p) ==
  /\ p \in Procs
  /\ \E s \in {"idle", "claim", "read", "answer"} : pc' = [pc EXCEPT ![p] = s]
  /\ call'[p] \in Call \/ pc'[p] = "idle"
  /\ \A q \in Procs \ {p} : call'[q] = call[q]
  /\ UNCHANGED <<clock, table, outcomes, due>>

\* It keeps the invariant.
LEMMA AsideKeeps ==
  ASSUME Consistent, NEW p, Aside(p)
  PROVE  Kept' /\ OwnerIsAlone' /\ DueRows' /\ OutcomeStored'
<1>1. Kept' /\ DueRows' /\ OutcomeStored'
  BY DEF Consistent, Aside, Kept, DueRows, OutcomeStored
<1>2. \A q \in Procs, k \in Keys : Owns(q, k)' => Owns(q, k)
  BY DEF Consistent, TypeOK, Aside, Owns
<1>3. OwnerIsAlone'
  BY <1>2 DEF Consistent, OwnerIsAlone, Aside
<1> QED BY <1>1, <1>3

-----------------------------------------------------------------------------
(* Every step keeps the invariant. *)

LEMMA InitConsistent == Init => Consistent
<1> SUFFICES ASSUME Init PROVE Consistent
  OBVIOUS
<1>1. TypeOK
  BY IdempotencyAssumption DEF Init, TypeOK
<1>2. Kept /\ OwnerIsAlone /\ DueRows /\ OutcomeStored
  BY DEF Init, Kept, OwnerIsAlone, Owns, DueRows, OutcomeStored
<1> QED BY <1>1, <1>2 DEF Consistent

\* A step of a connection that commits nothing.
LEMMA QuietStep ==
  ASSUME Consistent, NEW p \in Procs,
         Submit(p) \/ Read(p) \/ Refuse(p) \/ Conflict(p) \/ Expire(p) \/ Return(p) \/ Lose(p)
  PROVE  Consistent'
<1> USE DEF Consistent
<1>1. CASE Submit(p)
  <2>1. PICK c \in Call : call' = [call EXCEPT ![p] = c]
    BY <1>1 DEF Submit
  <2>2. TypeOK'
    BY <1>1, <2>1, BeginType DEF Submit, TypeOK
  <2>3. Aside(p)
    BY <1>1, <2>1, BeginType DEF Submit, Aside, TypeOK
  <2> QED BY <2>2, <2>3, AsideKeeps
<1>2. ASSUME (Begin(p, 2) /\ UNCHANGED answer) \/ \E a \in Outcomes \cup Errors : Answer(p, a),
             pc[p] # "idle",
             UNCHANGED <<clock, table, outcomes, call, due>>
      PROVE  Consistent'
  <2>1. /\ \E s \in {"claim", "answer"} : pc' = [pc EXCEPT ![p] = s]
        /\ TypeOK'
    <3>1. CASE Begin(p, 2) /\ UNCHANGED answer
      BY <1>2, <3>1, BeginType DEF TypeOK
    <3>2. CASE \E a \in Outcomes \cup Errors : Answer(p, a)
      BY <1>2, <3>2, AnswerType DEF TypeOK
    <3> QED BY <1>2, <3>1, <3>2
  <2>2. Aside(p)
    BY <1>2, <2>1 DEF Aside, TypeOK
  <2> QED BY <2>1, <2>2, AsideKeeps
<1>3. CASE Read(p)
  <2>1. Retry(p) \/ Answer(p, "mismatch") \/ \E a \in Outcomes : Answer(p, a)
    <3>1. call[p].key \in Keys
      BY <1>3, CallOf DEF Read
    <3> QED BY <1>3, <3>1, RowOfKey DEF Read, Replay, Row
  <2> QED BY <1>2, <1>3, <2>1, RetryEnds DEF Read, Errors
<1>4. CASE Refuse(p) \/ Conflict(p) \/ Expire(p)
  BY <1>2, <1>4, RetryEnds DEF Refuse, Conflict, Expire, Errors
<1>5. CASE Return(p) \/ Lose(p)
  <2>1. Forget(p)
    BY <1>5 DEF Return, Lose
  <2>2. TypeOK'
    <3>1. 0 \in 0..MaxClock /\ 1 \in 1..2
      BY IdempotencyAssumption
    <3> QED BY <2>1, <3>1 DEF Forget, TypeOK
  <2>3. Aside(p)
    BY <2>1 DEF Forget, Aside, TypeOK
  <2> QED BY <2>2, <2>3, AsideKeeps
<1> QED BY <1>1, <1>3, <1>4, <1>5

\* A claim that takes a key takes one without a row, a deletion or an owner.
LEMMA ClaimStep ==
  ASSUME Consistent, NEW p \in Procs, Claim(p)
  PROVE  Consistent'
<1> USE DEF Consistent
<1>1. call[p].key \in Keys
  BY CallOf DEF Claim
<1>2. TypeOK'
  BY <1>1 DEF Claim, TypeOK
<1>3. CASE table[call[p].key] # NoRow
  <2>1. Aside(p)
    BY <1>3 DEF Claim, Aside, TypeOK
  <2> QED BY <1>2, <2>1, AsideKeeps
<1>4. CASE table[call[p].key] = NoRow
  <2>1. \A q \in Procs, k \in Keys :
          Owns(q, k)' => \/ Owns(q, k) /\ k # call[p].key
                         \/ q = p /\ k = call[p].key
    BY <1>4 DEF Claim, Owns, Uncontended, TypeOK
  <2>2. OwnerIsAlone'
    BY <1>4, <2>1 DEF Claim, OwnerIsAlone, Uncontended
  <2>3. Kept' /\ DueRows' /\ OutcomeStored'
    BY DEF Claim, Kept, DueRows, OutcomeStored
  <2> QED BY <1>2, <2>2, <2>3
<1> QED BY <1>3, <1>4

\* The owner's commit: the only row the key can have, and no batch holds it.
LEMMA StoreStep ==
  ASSUME Consistent, NEW p \in Procs, Store(p)
  PROVE  Consistent'
<1> USE DEF Consistent
<1> DEFINE k == call[p].key
           until == now[p] + Window
<1>1. k \in Keys /\ Hash(p) \in Hashes
  BY CallOf DEF Store
<1>2. until \in Nat
  BY IdempotencyAssumption DEF TypeOK
<1>3. PICK o \in Outcomes :
        /\ table' = [table EXCEPT ![k] = [hash |-> Hash(p), response |-> o, purge |-> until]]
        /\ outcomes' = outcomes \cup {[key |-> k, hash |-> Hash(p), outcome |-> o, purge |-> until]}
        /\ Answer(p, o)
  BY DEF Store, Outcomes, Unused
<1>4. Owns(p, k)
  BY DEF Store, Owns
<1>5. table[k] = NoRow /\ \A e \in outcomes : e.key = k => ~(clock < e.purge)
  <2>1. table[k] = NoRow
    BY <1>1, <1>4 DEF OwnerIsAlone
  <2>2. ASSUME NEW e \in outcomes, e.key = k, clock < e.purge PROVE FALSE
    <3>1. table[k] = [hash |-> e.hash, response |-> e.outcome, purge |-> e.purge]
      BY <2>2 DEF Kept
    <3> QED BY <2>1, <3>1 DEF NoRow
  <2> QED BY <2>1, <2>2
<1>6. TypeOK'
  <2> HIDE DEF k, until
  <2>1. table' \in [Keys -> Row \cup {NoRow}]
    BY <1>1, <1>2, <1>3 DEF TypeOK, Row
  <2>2. outcomes' \subseteq Record
    BY <1>1, <1>2, <1>3 DEF TypeOK, Record
  <2>3. pc[p] = "work"
    BY DEF Store
  <2>4. UNCHANGED <<clock, call, due>>
    BY DEF Store
  <2> QED BY <1>3, <2>1, <2>2, <2>3, <2>4, AnswerType DEF TypeOK
<1>7. Kept'
  <2> HIDE DEF k, until
  <2> SUFFICES ASSUME NEW e \in outcomes', clock' < e.purge
               PROVE  table'[e.key] = [hash |-> e.hash, response |-> e.outcome, purge |-> e.purge]
    BY DEF Kept
  <2>1. clock' = clock /\ table \in [Keys -> Row \cup {NoRow}]
    BY DEF Store, TypeOK
  <2>2. CASE e \in outcomes
    <3>1. e.key # k
      BY <1>5, <2>1, <2>2
    <3> QED BY <1>3, <2>1, <2>2, <3>1 DEF Kept
  <2>3. CASE e \notin outcomes
    BY <1>1, <1>3, <2>1, <2>3
  <2> QED BY <2>2, <2>3
<1>8. \A q \in Procs, l \in Keys : Owns(q, l)' => Owns(q, l) /\ l # k
  BY <1>3, <1>4, <1>1 DEF Store, Owns, Answer, TypeOK, OwnerIsAlone
<1>9. OwnerIsAlone'
  BY <1>3, <1>8 DEF OwnerIsAlone, TypeOK
<1>10. DueRows'
  <2>1. \A w \in Workers : k \notin due[w]
    BY <1>5 DEF DueRows
  <2> QED BY <1>3, <2>1 DEF DueRows, Store, TypeOK
<1>11. OutcomeStored'
  BY <1>1, <1>3, IdempotencyAssumption DEF OutcomeStored, TypeOK
<1> QED BY <1>6, <1>7, <1>9, <1>10, <1>11

\* Time passes, and outcomes leave their window.
LEMMA TickStep == ASSUME Consistent, Tick PROVE Consistent'
<1> USE DEF Consistent
<1>1. clock \in Nat /\ clock' = clock + 1 /\ clock' \in 0..MaxClock
  BY IdempotencyAssumption DEF Tick, TypeOK
<1>2. TypeOK'
  BY <1>1 DEF Tick, TypeOK
<1>3. Kept'
  <2>1. \A e \in outcomes' : e \in outcomes /\ e.purge \in Nat
    BY DEF Tick, TypeOK, Record
  <2> QED BY <1>1, <2>1 DEF Kept, Tick
<1>4. OwnerIsAlone' /\ OutcomeStored'
  BY DEF Tick, OwnerIsAlone, Owns, OutcomeStored
<1>5. DueRows'
  <2>1. ASSUME NEW w \in Workers, NEW k \in due[w] PROVE table[k].purge <= clock'
    <3>1. k \in Keys /\ table[k] # NoRow /\ table[k].purge <= clock
      BY <2>1 DEF DueRows, TypeOK
    <3>2. table[k].purge \in Nat
      BY <3>1, RowOfKey DEF Row
    <3> QED BY <1>1, <3>1, <3>2
  <2> QED BY <2>1 DEF Tick, DueRows
<1> QED BY <1>2, <1>3, <1>4, <1>5

\* A batch takes rows past their window, and its commit deletes only those.
LEMMA PurgeStep ==
  ASSUME Consistent, NEW w \in Workers, Delete(w) \/ EndPurge(w)
  PROVE  Consistent'
<1> USE DEF Consistent
<1>1. CASE Delete(w)
  <2>1. PICK t \in 0..clock : \E S \in SUBSET Purgeable(t) : due' = [due EXCEPT ![w] = S]
    BY <1>1 DEF Delete
  <2>2. PICK S \in SUBSET Purgeable(t) : due' = [due EXCEPT ![w] = S]
    BY <2>1
  <2>3. S \subseteq Keys /\ TypeOK'
    BY <1>1, <2>2 DEF Delete, TypeOK, Purgeable
  <2>4. Kept' /\ OwnerIsAlone' /\ OutcomeStored'
    BY <1>1 DEF Delete, Kept, OwnerIsAlone, Owns, OutcomeStored
  <2>5. ASSUME NEW k \in S
        PROVE /\ table[k] # NoRow /\ table[k].purge <= clock
              /\ \A v \in Workers : k \notin due[v]
    <3>1. table[k] # NoRow /\ table[k].purge <= t /\ \A v \in Workers : k \notin due[v]
      BY <2>2, <2>5 DEF Purgeable
    <3>2. table[k].purge \in Nat
      BY <2>3, <2>5, <3>1, RowOfKey DEF Row
    <3>3. t <= clock /\ t \in Int /\ clock \in Int
      BY DEF TypeOK
    <3> QED BY <3>1, <3>2, <3>3
  <2>6. DueRows'
    BY <1>1, <2>2, <2>5 DEF Delete, DueRows, TypeOK
  <2> QED BY <2>3, <2>4, <2>6
<1>2. CASE EndPurge(w)
  <2>1. \/ table' = [k \in Keys |-> IF k \in due[w] THEN NoRow ELSE table[k]]
        \/ table' = table
    BY <1>2 DEF EndPurge
  <2>2. TypeOK'
    BY <1>2, <2>1 DEF EndPurge, TypeOK
  <2>3. Kept'
    <3> SUFFICES ASSUME NEW e \in outcomes, clock < e.purge
                 PROVE  table'[e.key] = [hash |-> e.hash, response |-> e.outcome, purge |-> e.purge]
      BY <1>2 DEF EndPurge, Kept
    <3>1. table[e.key] = [hash |-> e.hash, response |-> e.outcome, purge |-> e.purge]
      BY DEF Kept
    <3>2. e.key \in Keys /\ e.purge \in Nat /\ clock \in Nat
      BY DEF TypeOK, Record
    <3>3. e.key \notin due[w]
      BY <3>1, <3>2 DEF DueRows
    <3> QED BY <2>1, <3>1, <3>2, <3>3
  <2>4. OwnerIsAlone'
    BY <1>2, <2>1 DEF EndPurge, OwnerIsAlone, Owns
  <2>5. DueRows'
    BY <1>2, <2>1 DEF EndPurge, DueRows, TypeOK
  <2>6. OutcomeStored'
    BY <2>1 DEF OutcomeStored
  <2> QED BY <2>2, <2>3, <2>4, <2>5, <2>6
<1> QED BY <1>1, <1>2

LEMMA ConsistentStep == Consistent /\ [Next]_vars => Consistent'
<1> SUFFICES ASSUME Consistent, [Next]_vars PROVE Consistent'
  OBVIOUS
<1>1. CASE UNCHANGED vars
  BY <1>1 DEF vars, Consistent, TypeOK, Kept, OwnerIsAlone, Owns, DueRows, OutcomeStored
<1> QED
  BY <1>1, QuietStep, ClaimStep, StoreStep, TickStep, PurgeStep DEF Next, Step, Fault

-----------------------------------------------------------------------------
(* The theorems. *)

\* However claims, failures, lost answers and purges interleave, a key has at
\* most one owner, and an outcome's row stays for the whole of its window.
THEOREM IdempotencyConsistent == Spec => []Consistent
BY InitConsistent, ConsistentStep, PTL DEF Spec

\* A claim's loser never reads a row without its outcome.
THEOREM IdempotencyStored == Spec => []OutcomeStored
<1>1. Consistent => OutcomeStored
  BY DEF Consistent
<1> QED BY <1>1, IdempotencyConsistent, PTL

\* No outcome is committed under a key within the window of another: a retried
\* hold books at most once.
THEOREM IdempotencyOnce == Spec => OncePerWindow
<1> DEFINE Once == \A o \in outcomes' \ outcomes, e \in outcomes : o.key = e.key => e.purge <= clock
<1>1. ASSUME Consistent, [Next]_vars PROVE Once
  <2>1. ASSUME NEW o \in outcomes' \ outcomes, NEW e \in outcomes, o.key = e.key
        PROVE  e.purge <= clock
    <3>1. PICK p \in Procs : Store(p)
      BY <1>1, <2>1 DEF Next, vars, Tick, Submit, Begin, Step, Fault, Claim, Read, Refuse, Return,
        Forget, Conflict, Expire, Lose, Delete, EndPurge
    <3>2. o.key = call[p].key /\ Owns(p, o.key)
      BY <2>1, <3>1 DEF Store, Owns
    <3>3. o.key \in Keys
      BY <1>1, <2>1 DEF Consistent, TypeOK, Record
    <3>4. table[o.key] = NoRow
      BY <1>1, <3>2, <3>3 DEF Consistent, OwnerIsAlone
    <3>5. e.purge \in Nat /\ clock \in Nat
      BY <1>1 DEF Consistent, TypeOK, Record
    <3>6. ASSUME clock < e.purge PROVE FALSE
      <4>1. table[e.key] = [hash |-> e.hash, response |-> e.outcome, purge |-> e.purge]
        BY <1>1, <3>6 DEF Consistent, Kept
      <4> QED BY <2>1, <3>4, <4>1 DEF NoRow
    <3> QED BY <3>5, <3>6
  <2> QED BY <2>1
<1>2. Consistent /\ [Next]_vars => [Once]_vars
  BY <1>1
<1> QED BY <1>2, IdempotencyConsistent, PTL DEF Spec, OncePerWindow

\* A call decided within the window of an outcome of its key answers with that
\* outcome, or a mismatch when the payload differs.
THEOREM IdempotencyAgree == Spec => AnswersAgree
<1> DEFINE Agrees(p, e) ==
      (/\ pc[p] # "answer" /\ pc'[p] = "answer" /\ answer'[p] # "retry"
       /\ e.key = call[p].key /\ clock < e.purge)
      => answer'[p] = IF e.hash = Hash(p) THEN e.outcome ELSE "mismatch"
<1>1. ASSUME Consistent, [Next]_vars, NEW p \in Procs, NEW e \in outcomes PROVE Agrees(p, e)
  <2> SUFFICES ASSUME pc[p] # "answer", pc'[p] = "answer", answer'[p] # "retry",
                      e.key = call[p].key, clock < e.purge
               PROVE  answer'[p] = IF e.hash = Hash(p) THEN e.outcome ELSE "mismatch"
    OBVIOUS
  <2>1. table[call[p].key] = [hash |-> e.hash, response |-> e.outcome, purge |-> e.purge]
    BY <1>1 DEF Consistent, Kept
  <2>2. e.key \in Keys
    BY <1>1 DEF Consistent, TypeOK, Record
  <2>3. ~Owns(p, e.key)
    BY <1>1, <2>1, <2>2 DEF Consistent, OwnerIsAlone, NoRow
  <2>4. pc \in [Procs -> {"idle", "claim", "read", "work", "answer"}]
        /\ answer \in [Procs -> Outcomes \cup Errors \cup {"none"}]
    BY <1>1 DEF Consistent, TypeOK
  <2>5. ~Retry(p) /\ ~Answer(p, "retry")
    BY <2>4 DEF Retry, Begin, Answer
  <2>6. Read(p)
    <3>1. PICK q \in Procs : Submit(q) \/ Step(q) \/ Fault(q)
      BY <1>1 DEF Next, vars, Tick, Delete, EndPurge
    <3>2. \E s : pc' = [pc EXCEPT ![q] = s]
      BY <3>1, RetryEnds DEF Submit, Step, Fault, Claim, Read, Replay, Store, Refuse, Return, Conflict,
        Expire, Lose, Forget, Begin, Answer
    <3>3. q = p
      BY <2>4, <3>2
    <3>4. ~Submit(p) /\ ~Claim(p) /\ ~Return(p) /\ ~Lose(p)
      BY <2>4 DEF Submit, Begin, Claim, Return, Lose, Forget
    <3>5. ~Store(p) /\ ~Refuse(p)
      BY <2>3 DEF Store, Refuse, Owns
    <3>6. ~Conflict(p) /\ ~Expire(p)
      BY <2>5 DEF Conflict, Expire
    <3> QED BY <3>1, <3>3, <3>4, <3>5, <3>6 DEF Step, Fault
  <2>7. Replay(p, table[call[p].key])
    BY <2>1, <2>5, <2>6 DEF Read, NoRow
  <2>8. CASE e.hash # Hash(p)
    BY <2>1, <2>4, <2>7, <2>8 DEF Replay, Answer
  <2>9. CASE e.hash = Hash(p)
    BY <2>1, <2>4, <2>5, <2>7, <2>9 DEF Replay, Answer
  <2> QED BY <2>8, <2>9
<1>2. Consistent /\ [Next]_vars => [\A p \in Procs, e \in outcomes : Agrees(p, e)]_vars
  BY <1>1
<1> QED BY <1>2, IdempotencyConsistent, PTL DEF Spec, AnswersAgree
=============================================================================
