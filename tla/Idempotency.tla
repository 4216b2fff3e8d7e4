---------------------------- MODULE Idempotency ----------------------------
(***************************************************************************)
(* The idempotency key of a hold.  A key (a venue, an actor and a key of   *)
(* the caller's) is a row owned by one transaction from its claim to its   *)
(* stored outcome; a later call with the key replays the outcome until the *)
(* retention worker purges the row.  A call is one transaction, or two     *)
(* when the first ends in a serialization failure; a client may lose its   *)
(* connection or the answer at any moment and call again with the key.     *)
(*                                                                         *)
(* Engine.tla models what a hold books under its locks; here its booking   *)
(* is any outcome.  An owner's row and booking are invisible until it      *)
(* commits, so one step decides, stores and commits.                       *)
(***************************************************************************)
EXTENDS Integers, FiniteSets

CONSTANTS
  Procs,       \* connections that run holds
  Workers,     \* connections that run the retention job
  Keys,        \* (venue, actor, key)
  Requests,    \* hold requests, as callers spell them
  Canonical,   \* canonicalHoldRequest, which the request hash is taken over
  Ids,         \* reservation ids; bounds what a run books
  Refusals,    \* the refusals that are stored as outcomes
  Window,      \* how long a key is kept: 24 hours
  PurgeLimit,  \* rows a retention batch takes
  MaxClock     \* bound on the clock

Hashes == {Canonical[r] : r \in Requests}

Outcomes == Ids \cup Refusals

\* What a call can answer besides an outcome: another payload under the key, a
\* refusal by policy (schedule, cap, inactive assignment), a retryable failure.
Errors == {"mismatch", "refused", "retry"}

ASSUME IdempotencyAssumption ==
  /\ Window \in Nat \ {0} /\ MaxClock \in Nat /\ PurgeLimit \in Nat \ {0}
  /\ DOMAIN Canonical = Requests
  /\ Outcomes \cap (Errors \cup {"null", "none"}) = {}

VARIABLES
  clock,
  table,     \* the committed idempotency rows
  outcomes,  \* history: the outcomes committed, with key, hash and purge
             \* time, until their window has passed
  pc, call, attempt,
  now,       \* of each hold's transaction
  answer,    \* what each call returns
  due        \* the rows each worker is deleting

vars == <<clock, table, outcomes, pc, call, attempt, now, answer, due>>

Row == [hash: Hashes, response: Outcomes \cup {"null"}, purge: Nat]
NoRow == [hash |-> "none"]
Record == [key: Keys, hash: Hashes, outcome: Outcomes, purge: Nat]
Call == [key: Keys, request: Requests]
NoCall == [key |-> "none"]

TypeOK ==
  /\ clock \in 0..MaxClock
  /\ table \in [Keys -> Row \cup {NoRow}]
  /\ outcomes \subseteq Record
  /\ pc \in [Procs -> {"idle", "claim", "read", "work", "answer"}]
  /\ call \in [Procs -> Call \cup {NoCall}]
  /\ \A p \in Procs : pc[p] # "idle" => call[p] \in Call
  /\ attempt \in [Procs -> 1..2]
  /\ now \in [Procs -> 0..MaxClock]
  /\ answer \in [Procs -> Outcomes \cup Errors \cup {"none"}]
  /\ due \in [Workers -> SUBSET Keys]

Init ==
  /\ clock = 0
  /\ table = [k \in Keys |-> NoRow]
  /\ outcomes = {}
  /\ pc = [p \in Procs |-> "idle"]
  /\ call = [p \in Procs |-> NoCall]
  /\ attempt = [p \in Procs |-> 1]
  /\ now = [p \in Procs |-> 0]
  /\ answer = [p \in Procs |-> "none"]
  /\ due = [w \in Workers |-> {}]

-----------------------------------------------------------------------------
(* A hold, as far as its key goes. *)

Hash(p) == Canonical[call[p].request]

\* p has inserted the row of key k and not yet committed it.
Owns(p, k) == pc[p] = "work" /\ call[p].key = k

\* Mutant: a claim that does not wait for the owner of the key.
UncontendedByDeletes(k) == \A w \in Workers : k \notin due[w]

\* The insert waits while another transaction inserts or deletes the row.
Uncontended(k) ==
  /\ \A q \in Procs : ~Owns(q, k)
  /\ \A w \in Workers : k \notin due[w]

Begin(p, n) ==
  /\ pc' = [pc EXCEPT ![p] = "claim"]
  /\ now' = [now EXCEPT ![p] = clock]
  /\ attempt' = [attempt EXCEPT ![p] = n]

\* p's transaction has ended, and its call is to return a.
Answer(p, a) ==
  /\ pc' = [pc EXCEPT ![p] = "answer"]
  /\ answer' = [answer EXCEPT ![p] = a]
  /\ now' = [now EXCEPT ![p] = 0]
  /\ attempt' = [attempt EXCEPT ![p] = 1]

Submit(p) ==
  /\ pc[p] = "idle"
  /\ \E c \in Call : call' = [call EXCEPT ![p] = c]
  /\ Begin(p, 1)
  /\ UNCHANGED <<clock, table, outcomes, answer, due>>

Claim(p) ==
  /\ pc[p] = "claim"
  /\ Uncontended(call[p].key)
  /\ pc' = [pc EXCEPT ![p] = IF table[call[p].key] = NoRow THEN "work" ELSE "read"]
  /\ UNCHANGED <<clock, table, outcomes, call, attempt, now, answer, due>>

\* Mutant: a command that retries for as long as it fails.
RetryAlways(p) == Begin(p, 1) /\ UNCHANGED answer

\* The command runs its transaction again, once.
Retry(p) ==
  \/ attempt[p] = 1 /\ Begin(p, 2) /\ UNCHANGED answer
  \/ attempt[p] = 2 /\ Answer(p, "retry")

\* Mutant: a replay that does not compare the payloads.
ReplayAny(p, row) == Answer(p, row.response)

\* What the claim's loser answers from the row it then reads.
Replay(p, row) ==
  \/ row.hash # Hash(p) /\ Answer(p, "mismatch")
  \/ row.hash = Hash(p) /\ row.response = "null" /\ Retry(p)
  \/ row.hash = Hash(p) /\ row.response # "null" /\ Answer(p, row.response)

\* The read after a lost claim: the row may have been purged in between.
Read(p) ==
  /\ pc[p] = "read"
  /\ \/ table[call[p].key] = NoRow /\ Retry(p)
     \/ table[call[p].key] # NoRow /\ Replay(p, table[call[p].key])
  /\ UNCHANGED <<clock, table, outcomes, call, due>>

\* The ids no outcome that is kept has; a new reservation takes a new one.
Unused == {i \in Ids : /\ \A e \in outcomes : e.outcome # i
                       /\ \A k \in Keys : table[k] = NoRow \/ table[k].response # i}

\* The owner decides, stores its outcome under the key and commits.
Store(p) ==
  LET k == call[p].key
      until == now[p] + Window IN
  /\ pc[p] = "work"
  /\ \E o \in Refusals \cup Unused :
       /\ table' = [table EXCEPT ![k] = [hash |-> Hash(p), response |-> o, purge |-> until]]
       /\ outcomes' = outcomes \cup {[key |-> k, hash |-> Hash(p), outcome |-> o, purge |-> until]}
       /\ Answer(p, o)
  /\ UNCHANGED <<clock, call, due>>

\* Mutant: a refusal that commits the claim instead of rolling it back.
RefuseKeepingClaim(p) ==
  /\ pc[p] = "work"
  /\ Answer(p, "refused")
  /\ table' = [table EXCEPT ![call[p].key] =
                 [hash |-> Hash(p), response |-> "null", purge |-> now[p] + Window]]
  /\ UNCHANGED <<clock, outcomes, call, due>>

\* A refusal that is not stored rolls the claim back with everything else.
Refuse(p) ==
  /\ pc[p] = "work"
  /\ Answer(p, "refused")
  /\ UNCHANGED <<clock, table, outcomes, call, due>>

\* A deadlock or serialization failure: rolled back, and retried once.
Conflict(p) ==
  /\ pc[p] \in {"claim", "work"}
  /\ Retry(p)
  /\ UNCHANGED <<clock, table, outcomes, call, due>>

\* The deadline of the command or of a statement: rolled back.
Expire(p) ==
  /\ pc[p] \in {"claim", "read", "work"}
  /\ Answer(p, "retry")
  /\ UNCHANGED <<clock, table, outcomes, call, due>>

Forget(p) ==
  /\ pc' = [pc EXCEPT ![p] = "idle"]
  /\ call' = [call EXCEPT ![p] = NoCall]
  /\ answer' = [answer EXCEPT ![p] = "none"]
  /\ attempt' = [attempt EXCEPT ![p] = 1]
  /\ now' = [now EXCEPT ![p] = 0]
  /\ UNCHANGED <<clock, table, outcomes, due>>

Return(p) == pc[p] = "answer" /\ Forget(p)

\* The client is gone: what it had not committed is rolled back, what it had
\* committed stays, and the answer is lost.
Lose(p) == pc[p] # "idle" /\ Forget(p)

-----------------------------------------------------------------------------
(* The retention job. *)

Tick ==
  /\ clock < MaxClock
  /\ clock' = clock + 1
  /\ outcomes' = {e \in outcomes : clock' < e.purge}
  /\ UNCHANGED <<table, pc, call, attempt, now, answer, due>>

\* The rows past their purge time at t that no other worker is deleting.
Purgeable(t) ==
  {k \in Keys : /\ table[k] # NoRow /\ table[k].purge <= t
                /\ \A v \in Workers : k \notin due[v]}

\* The delete of a batch begun at t: the oldest due rows, up to the limit.
Delete(w) ==
  /\ due[w] = {}
  /\ \E t \in 0..clock : \E S \in SUBSET Purgeable(t) :
       /\ S # {} /\ Cardinality(S) <= PurgeLimit
       /\ \A k \in Purgeable(t) \ S : /\ Cardinality(S) = PurgeLimit
                                      /\ \A l \in S : table[l].purge <= table[k].purge
       /\ due' = [due EXCEPT ![w] = S]
  /\ UNCHANGED <<clock, table, outcomes, pc, call, attempt, now, answer>>

\* The batch commits, or fails and leaves its rows.
EndPurge(w) ==
  /\ due[w] # {}
  /\ due' = [due EXCEPT ![w] = {}]
  /\ \/ table' = [k \in Keys |-> IF k \in due[w] THEN NoRow ELSE table[k]]
     \/ UNCHANGED table
  /\ UNCHANGED <<clock, outcomes, pc, call, attempt, now, answer>>

-----------------------------------------------------------------------------

Step(p) == Claim(p) \/ Read(p) \/ Store(p) \/ Refuse(p) \/ Return(p)

Fault(p) == Conflict(p) \/ Expire(p) \/ Lose(p)

Next ==
  \/ Tick
  \/ \E p \in Procs : Submit(p) \/ Step(p) \/ Fault(p)
  \/ \E w \in Workers : Delete(w) \/ EndPurge(w)

Spec == Init /\ [][Next]_vars

\* A statement that waits for nothing ends; a claim whose key keeps coming free
\* is granted (its waiters wake when the owner ends); a batch ends.
FairSpec ==
  /\ Spec
  /\ \A p \in Procs : SF_vars(Step(p))
  /\ \A w \in Workers : WF_vars(EndPurge(w))

-----------------------------------------------------------------------------
(* Properties. *)

\* Invariant 3 of CORRECTNESS.md, "creates nothing": no outcome is committed
\* under a key while an earlier outcome of the key is within its window, whoever
\* claims, loses, retries or purges meanwhile.
OncePerWindow ==
  [][\A o \in outcomes' \ outcomes, e \in outcomes : o.key = e.key => e.purge <= clock]_vars

\* Invariant 3, "the same outcome": a call decided within the window of an
\* outcome of its key answers that outcome to the same payload, however spelled,
\* and a mismatch to any other, unless it fails and asks for a retry.  No policy
\* refusal comes first.
AnswersAgree ==
  [][\A p \in Procs, e \in outcomes :
       (/\ pc[p] # "answer" /\ pc'[p] = "answer" /\ answer'[p] # "retry"
        /\ e.key = call[p].key /\ clock < e.purge)
       => answer'[p] = IF e.hash = Hash(p) THEN e.outcome ELSE "mismatch"]_vars

\* A committed row always has its outcome: the loser of a claim never reads a
\* null response.
OutcomeStored == \A k \in Keys : table[k] # NoRow => table[k].response # "null"

\* The parts of the inductive invariant.  What a call is to find is in the table:
\* an outcome's row is there until its window has passed.
Kept ==
  \A e \in outcomes : clock < e.purge =>
    table[e.key] = [hash |-> e.hash, response |-> e.outcome, purge |-> e.purge]

\* A key has one owner, which claimed a key without a row.
OwnerIsAlone ==
  \A p \in Procs, k \in Keys :
    Owns(p, k) => table[k] = NoRow /\ \A q \in Procs \ {p} : ~Owns(q, k)

\* A batch holds committed rows past their window, which no other batch holds.
DueRows ==
  \A w \in Workers : \A k \in due[w] :
    /\ table[k] # NoRow
    /\ table[k].purge <= clock
    /\ \A v \in Workers \ {w} : k \notin due[v]

Consistent == TypeOK /\ Kept /\ OwnerIsAlone /\ DueRows /\ OutcomeStored

\* Every call returns or its client is gone: no claim waits forever, and a
\* command retries at most once.
CallsEnd == \A p \in Procs : pc[p] # "idle" ~> pc[p] = "idle"
=============================================================================
