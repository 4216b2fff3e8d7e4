-------------------------- MODULE LifecycleProofs --------------------------
(***************************************************************************)
(* The audit trail, the events, the versions and the tokens of every       *)
(* reservation, for any number of reservations, connections and tokens.    *)
(***************************************************************************)
EXTENDS Lifecycle, TLAPS

-----------------------------------------------------------------------------
(* Rows and commands. *)

LEMMA RowIsRow ==
  ASSUME NEW w \in Row
  PROVE  /\ w # NoRow /\ Shown(w) \in Image /\ Shown(w) # NoRow
         /\ Shown(w).status = w.status /\ Shown(w).version = w.version
BY DEF Row, NoRow, Shown, Image, Statuses

LEMMA ShownType ==
  ASSUME NEW w \in Row \cup {NoRow}
  PROVE  Shown(w) \in Image \cup {NoRow}
BY RowIsRow DEF Shown

LEMMA CommandFields ==
  ASSUME NEW c \in Commands
  PROVE  /\ c # NoCmd
         /\ c.op \in RowOps \cup {"hold", "sweep", "force"}
         /\ c.op \in RowOps => c.res \in Res
         /\ c.op = "confirm" => c.token \in Tokens \cup {NoToken}
         /\ c.op = "update" => c.to \in Statuses
BY LifecycleAssumption
   DEF NoCmd, ConfirmCmd, VersionedCmd, UpdateCmd, BatchCmd, RowOps

\* What an update makes of a row.
LEMMA UpdatedRow ==
  ASSUME NEW c \in Commands, NEW w \in Row, NEW t \in Nat, NEW token \in Tokens \cup {NoToken},
         Allowed(c, w, t)
  PROVE  LET v == Updated(w, Target(c, w), token) IN
         /\ v \in Row /\ v.version = w.version + 1
         /\ v.status = Target(c, w)
         /\ v.token = IF Target(c, w) = "held" THEN token ELSE NoToken
         /\ c.op = "confirm" => v.status = "confirmed"
         /\ c.op = "mint" => v.status = w.status /\ v.status = "held"
         /\ c.op # "mint" => v.status # w.status /\ v.status # "held"
<1> DEFINE s == Target(c, w)
<1>1. s \in Statuses
  BY CommandFields DEF Target, Statuses, Row, RowOps
<1>2. /\ c.op = "confirm" => s = "confirmed"
      /\ c.op = "mint" => s = w.status /\ s = "held"
      /\ c.op # "mint" => s # w.status /\ s # "held"
  BY CommandFields DEF Target, RowOps, Allowed, Transitions
<1>3. w.version + 1 \in Nat \ {0} /\ w.version \in Nat \ {0}
  BY DEF Row
<1> HIDE DEF s
<1>4. Updated(w, s, token)
        = [w EXCEPT !.status = s, !.version = w.version + 1,
                    !.token = IF s = "held" THEN token ELSE NoToken]
  BY DEF Updated
<1>5. Updated(w, s, token) \in Row
  BY <1>1, <1>3, <1>4 DEF Row
<1>6. /\ Updated(w, s, token).version = w.version + 1
      /\ Updated(w, s, token).status = s
      /\ Updated(w, s, token).token = IF s = "held" THEN token ELSE NoToken
  BY <1>4 DEF Row
<1> QED BY <1>2, <1>5, <1>6 DEF s

LEMMA ActorType ==
  ASSUME NEW c \in Commands, NEW w
  PROVE  Actor(c, w) \in Actors /\ (Actor(c, w) = "operator" <=> c.op = "update")
BY CommandFields DEF Actor, Actors, RowOps

\* Every row a transaction puts is a row, as is every entry it logs.
LEMMA PutType ==
  ASSUME TypeOK, NEW p \in Procs, NEW r \in Res, NEW w \in Row, cmd[p] \in Commands,
         Put(p, r, w)
  PROVE  /\ draft' \in [Procs -> [Res -> Row \cup {NoRow}]]
         /\ log' \in [Procs -> SUBSET Entry]
<1>1. draft' \in [Procs -> [Res -> Row \cup {NoRow}]]
  BY DEF Put, TypeOK
<1>2. PICK i \in 1..MaxId :
        log' = [log EXCEPT ![p] = log[p] \cup
          {[id |-> i, res |-> r, before |-> Shown(row[r]), after |-> Shown(w),
            actor |-> Actor(cmd[p], w)]}]
  BY DEF Put
<1>3. Shown(row[r]) \in Image \cup {NoRow} /\ Shown(w) \in Image
  BY ShownType, RowIsRow DEF TypeOK
<1>4. i \in Nat
  BY LifecycleAssumption
<1>5. [id |-> i, res |-> r, before |-> Shown(row[r]), after |-> Shown(w),
       actor |-> Actor(cmd[p], w)] \in Entry
  BY <1>3, <1>4, ActorType DEF Entry
<1> QED BY <1>1, <1>2, <1>5 DEF TypeOK

-----------------------------------------------------------------------------
(* Types. *)

LEMMA ReleaseType ==
  ASSUME TypeOK, NEW p \in Procs, Release(p)
  PROVE  /\ pc' \in [Procs -> {"idle", "begun", "lock", "write", "booked", "commit"}]
         /\ cmd' \in [Procs -> Commands \cup {NoCmd}]
         /\ now' \in [Procs -> 0..MaxClock]
         /\ locks' \in [Procs -> SUBSET Res] /\ todo' \in [Procs -> SUBSET Res]
         /\ work' \in [Procs -> SUBSET Res] /\ owed' \in [Procs -> SUBSET Res]
         /\ draft' \in [Procs -> [Res -> Row \cup {NoRow}]]
         /\ log' \in [Procs -> SUBSET Entry] /\ mail' \in [Procs -> SUBSET Event]
         /\ receipt' \in [Procs -> Receipt \cup {NoReceipt}]
<1>1. 0 \in 0..MaxClock
  BY LifecycleAssumption
<1>2. NoDraft \in [Res -> Row \cup {NoRow}]
  BY DEF NoDraft
<1> QED BY <1>1, <1>2 DEF Release, TypeOK

\* The row a receipt is about is pending.
LEMMA SubjectRow ==
  ASSUME Inductive, NEW p \in Procs, ReadReceipt(p)
  PROVE  \E r \in Res, e \in audit \cup log[p] :
           /\ draft[p][r] \in Row
           /\ Latest(e, r, audit \cup log[p])
           /\ receipt' = [receipt EXCEPT ![p] =
                [res |-> r, status |-> draft[p][r].status, version |-> draft[p][r].version,
                 audit |-> e.id]]
<1>1. PICK r \in Res, e \in audit \cup log[p] :
           /\ Subject(p, r) /\ Latest(e, r, audit \cup log[p])
           /\ receipt' = [receipt EXCEPT ![p] =
                [res |-> r, status |-> draft[p][r].status, version |-> draft[p][r].version,
                 audit |-> e.id]]
  BY DEF ReadReceipt
<1>2. draft[p][r] \in Row \cup {NoRow}
  BY DEF Inductive, TypeOK
<1>3. CASE cmd[p].op = "hold"
  <2>1. draft[p][r].status = "held"
    BY <1>1, <1>3 DEF Subject
  <2>2. draft[p][r] # NoRow
    BY <2>1 DEF NoRow
  <2> QED BY <1>1, <1>2, <2>2
<1>4. CASE cmd[p].op # "hold"
  <2>1. pc[p] = "write" /\ cmd[p].op \in RowOps /\ work[p] = {}
    BY <1>4 DEF ReadReceipt, Inductive, Placed, WithReceipt, RowOps
  <2>2. draft[p][cmd[p].res] # NoRow
    BY <2>1 DEF Inductive, Placed
  <2> QED BY <1>1, <1>2, <1>4, <2>2 DEF Subject
<1> QED BY <1>1, <1>3, <1>4

LEMMA TypeStep ==
  ASSUME Inductive, [Next]_vars
  PROVE  TypeOK'
<1> USE LifecycleAssumption DEF Inductive
<1>1. CASE UNCHANGED vars
  BY <1>1 DEF vars, TypeOK
<1>2. CASE Tick
  BY <1>2 DEF Tick, TypeOK
<1>3. ASSUME NEW p \in Procs, Begin(p) PROVE TypeOK'
  BY <1>3 DEF Begin, tables, TypeOK
<1>4. ASSUME NEW p \in Procs, Abort(p) PROVE TypeOK'
  BY <1>4, ReleaseType DEF Abort, tables, TypeOK
<1>5. ASSUME NEW p \in Procs, Commit(p) PROVE TypeOK'
  <2>1. row' \in [Res -> Row \cup {NoRow}] /\ audit' \subseteq Entry /\ outbox' \subseteq Event
    BY <1>5 DEF Commit, TypeOK
  <2>2. UNCHANGED <<clock, minted>> /\ Release(p)
    BY <1>5 DEF Commit
  <2> QED BY <2>1, <2>2, ReleaseType DEF TypeOK
<1>6. ASSUME NEW p \in Procs, ReadRows(p) PROVE TypeOK'
  <2>1. PICK c \in Commands, S \in SUBSET Res :
          /\ cmd' = [cmd EXCEPT ![p] = c]
          /\ todo' = [todo EXCEPT ![p] = S]
          /\ pc' = [pc EXCEPT ![p] = IF S = {} THEN "write" ELSE "lock"]
    BY <1>6 DEF ReadRows
  <2> QED BY <1>6, <2>1 DEF ReadRows, tables, TypeOK
<1>7. ASSUME NEW p \in Procs, LockRow(p) PROVE TypeOK'
  BY <1>7 DEF LockRow, tables, TypeOK
<1>8. ASSUME NEW p \in Procs, SweepRows(p) PROVE TypeOK'
  BY <1>8 DEF SweepRows, tables, TypeOK
<1>9. ASSUME NEW p \in Procs, NEW r \in Res, Update(p, r) PROVE TypeOK'
  <2>1. cmd[p] \in Commands /\ row[r] \in Row
    <3>1. pc[p] = "write" /\ r \in work[p]
      BY <1>9 DEF Update
    <3>2. Placed(p) /\ row[r] \in Row \cup {NoRow}
      BY DEF TypeOK
    <3> QED BY <3>1, <3>2 DEF Placed
  <2>2. PICK token \in IF cmd[p].op = "mint" THEN Tokens \ minted ELSE {row[r].token} :
          /\ Put(p, r, Updated(row[r], Target(cmd[p], row[r]), token))
          /\ minted' = IF cmd[p].op = "mint" THEN minted \cup {token} ELSE minted
    BY <1>9 DEF Update
  <2>3. token \in Tokens \cup {NoToken} /\ now[p] \in Nat
    BY <2>1, <2>2 DEF Row, TypeOK
  <2>4. Updated(row[r], Target(cmd[p], row[r]), token) \in Row
    BY <1>9, <2>1, <2>3, UpdatedRow DEF Update
  <2>5. minted' \subseteq Tokens
    BY <2>2 DEF TypeOK
  <2>6. /\ draft' \in [Procs -> [Res -> Row \cup {NoRow}]]
        /\ log' \in [Procs -> SUBSET Entry]
    BY <2>1, <2>2, <2>4, PutType
  <2> QED BY <1>9, <2>5, <2>6 DEF Update, TypeOK
<1>10. ASSUME NEW p \in Procs, NEW r \in Res, Skip(p, r) PROVE TypeOK'
  BY <1>10 DEF Skip, tables, TypeOK
<1>11. ASSUME NEW p \in Procs, Insert(p) PROVE TypeOK'
  <2>1. PICK r \in Res :
          /\ Put(p, r, [status |-> "held", version |-> 1, expires |-> now[p] + Ttl,
                        token |-> NoToken])
          /\ locks' = [locks EXCEPT ![p] = @ \cup {r}]
          /\ owed' = [owed EXCEPT ![p] = {r}]
    BY <1>11 DEF Insert
  <2>2. [status |-> "held", version |-> 1, expires |-> now[p] + Ttl, token |-> NoToken] \in Row
    BY DEF Row, Statuses, TypeOK
  <2>3. cmd[p] \in Commands
    BY <1>11 DEF Insert, Placed, TypeOK
  <2>4. /\ draft' \in [Procs -> [Res -> Row \cup {NoRow}]]
        /\ log' \in [Procs -> SUBSET Entry]
    BY <2>1, <2>2, <2>3, PutType
  <2>5. locks' \in [Procs -> SUBSET Res] /\ owed' \in [Procs -> SUBSET Res]
    BY <2>1 DEF TypeOK
  <2>6. /\ pc' = [pc EXCEPT ![p] = "booked"]
        /\ UNCHANGED <<clock, row, audit, outbox, minted, cmd, now, todo, work, mail, receipt>>
    BY <1>11 DEF Insert, tables
  <2> QED BY <2>4, <2>5, <2>6 DEF TypeOK
<1>12. ASSUME NEW p \in Procs, NEW r \in Res, Enqueue(p, r) PROVE TypeOK'
  <2>1. draft[p][r] \in Row
    BY <1>12 DEF Enqueue, Mailed, TypeOK
  <2>2. PICK i \in 1..MaxId : mail' = [mail EXCEPT ![p] = mail[p] \cup
            {[id |-> i, res |-> r, topic |-> draft[p][r].status,
              version |-> draft[p][r].version]}]
    BY <1>12 DEF Enqueue
  <2>3. [id |-> i, res |-> r, topic |-> draft[p][r].status, version |-> draft[p][r].version]
          \in Event
    BY <2>1 DEF Event, Row
  <2>4. mail' \in [Procs -> SUBSET Event]
    BY <2>2, <2>3 DEF TypeOK
  <2> QED BY <1>12, <2>4 DEF Enqueue, tables, TypeOK
<1>13. ASSUME NEW p \in Procs, ReadReceipt(p) PROVE TypeOK'
  <2>1. PICK r \in Res, e \in audit \cup log[p] :
           /\ draft[p][r] \in Row
           /\ receipt' = [receipt EXCEPT ![p] =
                [res |-> r, status |-> draft[p][r].status, version |-> draft[p][r].version,
                 audit |-> e.id]]
    BY <1>13, SubjectRow
  <2>2. e \in Entry
    BY DEF TypeOK
  <2>3. [res |-> r, status |-> draft[p][r].status, version |-> draft[p][r].version,
         audit |-> e.id] \in Receipt
    BY <2>1, <2>2 DEF Receipt, Row, Entry
  <2>4. receipt' \in [Procs -> Receipt \cup {NoReceipt}]
    BY <2>1, <2>3 DEF TypeOK
  <2> QED BY <1>13, <2>4 DEF ReadReceipt, tables, TypeOK
<1> QED
  BY <1>1, <1>2, <1>3, <1>4, <1>5, <1>6, <1>7, <1>8, <1>9, <1>10, <1>11, <1>12, <1>13
     DEF Next, Step

-----------------------------------------------------------------------------
(* What a step of one transaction leaves to the others. *)

Local(p) == Placed(p) /\ Drafted(p) /\ Logged(p) /\ Mailed(p)

Same(q) ==
  /\ pc'[q] = pc[q] /\ cmd'[q] = cmd[q] /\ locks'[q] = locks[q] /\ todo'[q] = todo[q]
  /\ work'[q] = work[q] /\ owed'[q] = owed[q] /\ draft'[q] = draft[q] /\ log'[q] = log[q]
  /\ mail'[q] = mail[q] /\ receipt'[q] = receipt[q]

LEMMA Others ==
  ASSUME Inductive, NEW p \in Procs, NEW q \in Procs, p # q, Begin(p) \/ Step(p) \/ Abort(p)
  PROVE  Same(q)
<1> USE DEF Same
<1> SUFFICES ASSUME TypeOK PROVE Same(q)
  BY DEF Inductive
<1>1. CASE Begin(p)
  BY <1>1 DEF Begin, TypeOK
<1>2. CASE Abort(p) \/ Commit(p)
  BY <1>2 DEF Abort, Commit, Release, TypeOK
<1>3. CASE ReadRows(p)
  BY <1>3 DEF ReadRows, TypeOK
<1>4. CASE LockRow(p)
  BY <1>4 DEF LockRow, TypeOK
<1>5. CASE SweepRows(p)
  BY <1>5 DEF SweepRows, TypeOK
<1>6. CASE \E r \in Res : Update(p, r)
  BY <1>6 DEF Update, Put, TypeOK
<1>7. CASE \E r \in Res : Skip(p, r)
  BY <1>7 DEF Skip, TypeOK
<1>8. CASE \E r \in Res : Enqueue(p, r)
  BY <1>8 DEF Enqueue, TypeOK
<1>9. CASE Insert(p)
  BY <1>9 DEF Insert, Put, TypeOK
<1>10. CASE ReadReceipt(p)
  BY <1>10 DEF ReadReceipt, TypeOK
<1> QED BY <1>1, <1>2, <1>3, <1>4, <1>5, <1>6, <1>7, <1>8, <1>9, <1>10 DEF Step

LEMMA SameLocal ==
  ASSUME NEW q \in Procs, Local(q), Same(q), UNCHANGED <<row, audit, outbox>>
  PROVE  Local(q)'
<1>1. Placed(q)'
  BY DEF Local, Placed, Same, NoDraft
<1>2. Drafted(q)'
  BY DEF Local, Drafted, Fits, Same, VersionMatches, TokenMatches
<1>3. Logged(q)'
  BY DEF Local, Logged, Same
<1>4. Mailed(q)'
  BY DEF Local, Mailed, Same
<1> QED BY <1>1, <1>2, <1>3, <1>4 DEF Local

\* A step that writes nothing keeps what is said of tables and tokens.
LEMMA QuietTables ==
  ASSUME Inductive, UNCHANGED <<row, audit, outbox, minted, draft>>
  PROVE  (TokensApart /\ AuditReplays /\ EventsFollow /\ TokenNeedsHold)'
<1>1. AuditReplays'
  BY DEF Inductive, AuditReplays, TrailOf, Of, Shown, NoRow
<1>2. EventsFollow'
  BY DEF Inductive, EventsFollow, Announced, Reports
<1>3. TokensApart' /\ TokenNeedsHold'
  BY DEF Inductive, TokensApart, Bears, TokenNeedsHold
<1> QED BY <1>1, <1>2, <1>3

\* A command that has been chosen and has not written yet.
LEMMA FreshLocal ==
  ASSUME Inductive, NEW p \in Procs, pc[p] = "begun",
         UNCHANGED <<row, audit, outbox, minted, draft, log, mail, owed, receipt>>
  PROVE  Drafted(p)' /\ Logged(p)' /\ Mailed(p)'
<1>1. draft[p] = NoDraft /\ log[p] = {} /\ mail[p] = {} /\ owed[p] = {}
  BY DEF Inductive, Placed
<1>2. \A r \in Res : draft'[p][r] = NoRow
  BY <1>1 DEF NoDraft
<1> QED BY <1>1, <1>2 DEF Drafted, Logged, Mailed

-----------------------------------------------------------------------------
(* What each step leaves to its own transaction. *)

LEMMA ReleaseLocal ==
  ASSUME Inductive, NEW p \in Procs, Release(p)
  PROVE  Local(p)' /\ \A r \in Res : draft'[p][r] = NoRow
<1>1. /\ pc'[p] = "idle" /\ cmd'[p] = NoCmd /\ locks'[p] = {} /\ todo'[p] = {}
      /\ work'[p] = {} /\ owed'[p] = {} /\ draft'[p] = NoDraft /\ log'[p] = {}
      /\ mail'[p] = {} /\ receipt'[p] = NoReceipt
  BY DEF Inductive, TypeOK, Release
<1>2. \A r \in Res : draft'[p][r] = NoRow
  BY <1>1 DEF NoDraft
<1>3. NoCmd.op \notin RowOps
  BY DEF NoCmd, RowOps
<1> QED BY <1>1, <1>2, <1>3 DEF Local, Placed, Drafted, Logged, Mailed

LEMMA BeginLocal ==
  ASSUME Inductive, NEW p \in Procs, Begin(p)
  PROVE  Local(p)'
<1>1. Placed(p)'
  BY DEF Inductive, TypeOK, Begin, tables, Placed, NoDraft
<1>2. UNCHANGED <<row, audit, outbox, draft, log, mail, owed, locks>> /\ draft[p] = NoDraft
      /\ log[p] = {} /\ mail[p] = {} /\ owed[p] = {}
  BY DEF Inductive, Begin, tables, Placed
<1>3. \A r \in Res : draft'[p][r] = NoRow
  BY <1>2 DEF NoDraft
<1> QED BY <1>1, <1>2, <1>3 DEF Local, Drafted, Logged, Mailed

LEMMA ReadRowsLocal ==
  ASSUME Inductive, NEW p \in Procs, ReadRows(p) \/ SweepRows(p)
  PROVE  Local(p)'
<1>1. /\ pc[p] = "begun"
      /\ UNCHANGED <<row, audit, outbox, minted, draft, log, mail, owed, receipt>>
  BY DEF ReadRows, SweepRows, tables
<1>2. Drafted(p)' /\ Logged(p)' /\ Mailed(p)'
  BY <1>1, FreshLocal
<1>3. /\ draft[p] = NoDraft /\ locks[p] = {} /\ todo[p] = {} /\ work[p] = {} /\ owed[p] = {}
  BY <1>1 DEF Inductive, Placed
<1>4. CASE ReadRows(p)
  <2>1. PICK c \in Commands, S \in SUBSET Res :
       /\ c.op # "sweep"
       /\ c.op \in RowOps => S = {c.res} /\ row[c.res] # NoRow
       /\ c.op = "hold" => \A r \in S : Occupies(row[r])
       /\ c.op = "force" => \A r \in S : Live(row[r], now[p])
       /\ cmd' = [cmd EXCEPT ![p] = c]
       /\ todo' = [todo EXCEPT ![p] = S]
       /\ pc' = [pc EXCEPT ![p] = IF S = {} THEN "write" ELSE "lock"]
    BY <1>4 DEF ReadRows
  <2>2. /\ cmd'[p] = c /\ todo'[p] = S /\ pc'[p] = IF S = {} THEN "write" ELSE "lock"
        /\ locks'[p] = {} /\ work'[p] = {} /\ row' = row /\ draft' = draft
    BY <1>3, <1>4, <2>1 DEF ReadRows, tables, Inductive, TypeOK
  <2>3. \A r \in S : row[r] # NoRow
    BY <2>1, CommandFields DEF Occupies, OccupyingStatuses, LiveStatuses, Live, EffectiveStatus,
          NoRow, RowOps
  <2>4. c.op \in RowOps => S = {c.res}
    BY <2>1
  <2>5. Placed(p)'
    BY <1>3, <2>2, <2>3, <2>4 DEF Placed, NoDraft
  <2> QED BY <1>2, <2>5 DEF Local
<1>5. CASE SweepRows(p)
  <2>1. PICK c \in Commands, S \in SUBSET {r \in Res : Dead(row[r], now[p]) /\ RowFree(p, r)} :
       /\ c.op = "sweep" /\ S # {}
       /\ cmd' = [cmd EXCEPT ![p] = c]
       /\ locks' = [locks EXCEPT ![p] = S]
       /\ work' = [work EXCEPT ![p] = S]
    BY <1>5 DEF SweepRows
  <2>2. /\ cmd'[p] = c /\ locks'[p] = S /\ work'[p] = S /\ pc'[p] = "write"
        /\ todo'[p] = {} /\ row' = row /\ draft' = draft
    BY <1>3, <1>5, <2>1 DEF SweepRows, tables, Inductive, TypeOK
  <2>3. \A r \in S : r \in Res /\ row[r] # NoRow
    BY <2>1 DEF Dead, NoRow
  <2>4. Placed(p)'
    BY <1>3, <2>1, <2>2, <2>3 DEF Placed, NoDraft, RowOps
  <2> QED BY <1>2, <2>4 DEF Local
<1> QED BY <1>4, <1>5

LEMMA LockRowLocal ==
  ASSUME Inductive, NEW p \in Procs, LockRow(p)
  PROVE  Local(p)'
<1>1. PICK r \in todo[p] :
        /\ locks' = [locks EXCEPT ![p] = @ \cup {r}]
        /\ work' = [work EXCEPT ![p] = @ \cup {r}]
        /\ todo' = [todo EXCEPT ![p] = @ \ {r}]
        /\ pc' = [pc EXCEPT ![p] = IF todo[p] = {r} THEN "write" ELSE "lock"]
  BY DEF LockRow
<1>2. /\ pc[p] = "lock" /\ r \in Res
      /\ locks'[p] = locks[p] \cup {r} /\ work'[p] = work[p] \cup {r}
      /\ todo'[p] = todo[p] \ {r} /\ pc'[p] = IF todo[p] = {r} THEN "write" ELSE "lock"
      /\ UNCHANGED <<row, audit, outbox, minted, cmd, owed, draft, log, mail, receipt>>
  BY <1>1 DEF LockRow, tables, Inductive, TypeOK
<1>3. draft[p] = NoDraft /\ \A q \in Res : draft[p][q] = NoRow
  BY <1>2 DEF Inductive, Placed, NoDraft
<1>4. Placed(p)'
  <2>1. cmd[p].op \in RowOps => todo[p] = {cmd[p].res}
    BY <1>1 DEF Inductive, Placed
  <2> QED BY <1>1, <1>2, <1>3, <2>1 DEF Inductive, Placed, NoDraft
<1>5. Drafted(p)'
  BY <1>2, <1>3 DEF Drafted
<1>6. Logged(p)' /\ Mailed(p)'
  BY <1>2 DEF Inductive, Logged, Mailed
<1> QED BY <1>4, <1>5, <1>6 DEF Local

LEMMA SkipLocal ==
  ASSUME Inductive, NEW p \in Procs, NEW r \in Res, Skip(p, r)
  PROVE  Local(p)'
<1>1. /\ pc[p] = "write" /\ work'[p] = work[p] \ {r} /\ cmd[p].op \in {"hold", "force"}
      /\ UNCHANGED <<row, audit, outbox, minted, pc, cmd, locks, todo, owed, draft, log, mail, receipt>>
  BY DEF Skip, Concerns, tables, Inductive, TypeOK
<1>2. Placed(p)'
  BY <1>1 DEF Inductive, Placed, RowOps, NoDraft
<1>3. Drafted(p)' /\ Logged(p)' /\ Mailed(p)'
  BY <1>1 DEF Inductive, Drafted, Fits, Logged, Mailed, VersionMatches, TokenMatches
<1> QED BY <1>2, <1>3 DEF Local

LEMMA ReadReceiptLocal ==
  ASSUME Inductive, NEW p \in Procs, ReadReceipt(p)
  PROVE  Local(p)' /\ ReceiptTrue'
<1>1. /\ pc[p] \in {"write", "booked"} /\ pc'[p] = "commit" /\ owed[p] = {} /\ work[p] = {}
      /\ UNCHANGED <<row, audit, outbox, minted, cmd, locks, todo, work, owed, draft, log, mail>>
  BY DEF ReadReceipt, tables, Inductive, TypeOK, Placed
<1>2. Placed(p)'
  BY <1>1 DEF Inductive, Placed, NoDraft
<1>3. Drafted(p)' /\ Logged(p)' /\ Mailed(p)'
  BY <1>1 DEF Inductive, Drafted, Fits, Logged, Mailed, VersionMatches, TokenMatches
<1>4. PICK r \in Res, e \in audit \cup log[p] :
           /\ draft[p][r] \in Row
           /\ Latest(e, r, audit \cup log[p])
           /\ receipt' = [receipt EXCEPT ![p] =
                [res |-> r, status |-> draft[p][r].status, version |-> draft[p][r].version,
                 audit |-> e.id]]
  BY SubjectRow
<1>5. e.res = r /\ \A f \in audit \cup log[p] : f.res = r => f.id <= e.id
  BY <1>4 DEF Latest
<1>6. PICK f \in log[p] : f.res = r
  BY <1>4, RowIsRow DEF Inductive, Logged
<1>7. e \in log[p]
  <2>1. SUFFICES ASSUME e \in audit PROVE FALSE
    OBVIOUS
  <2>2. e.id < f.id /\ f.id <= e.id /\ e.id \in Nat /\ f.id \in Nat
    BY <1>5, <1>6, <2>1 DEF Inductive, Logged, TypeOK, Entry
  <2> QED BY <2>2
<1>8. e.after.status = draft[p][r].status /\ e.after.version = draft[p][r].version
  BY <1>4, <1>5, <1>7, RowIsRow DEF Inductive, Logged
<1>9. ReceiptTrue'
  BY <1>1, <1>4, <1>5, <1>7, <1>8 DEF Inductive, ReceiptTrue, TypeOK
<1> QED BY <1>2, <1>3, <1>9 DEF Local

-----------------------------------------------------------------------------
(* Updating, inserting and enqueueing. *)

\* A row put for the first time is logged once, after all that was logged of it
\* before, and leaves the events as they are.
LEMMA PutLocal ==
  ASSUME Inductive, NEW p \in Procs, NEW r \in Res, NEW w \in Row, cmd[p] \in Commands,
         Put(p, r, w), draft[p][r] = NoRow,
         UNCHANGED <<row, audit, outbox, mail>>, cmd'[p] = cmd[p],
         locks[p] \subseteq locks'[p], Fits(p, r, w)',
         owed'[p] = IF Silent(cmd[p]) THEN owed[p] ELSE owed[p] \cup {r}
  PROVE  Drafted(p)' /\ Logged(p)' /\ Mailed(p)'
<1> USE DEF Inductive
<1>1. /\ draft'[p][r] = w
      /\ \A q \in Res : q # r => draft'[p][q] = draft[p][q]
  BY DEF Put, TypeOK
<1>2. w # NoRow
  BY RowIsRow
<1>3. Drafted(p)'
  <2>1. \A q \in Res : q # r /\ draft[p][q] # NoRow => Fits(p, q, draft[p][q])'
    BY <1>1 DEF Drafted, Fits, VersionMatches, TokenMatches
  <2> QED BY <1>1, <2>1 DEF Drafted
<1>4. PICK i \in 1..MaxId :
        /\ NextId(i, Entries)
        /\ log' = [log EXCEPT ![p] = log[p] \cup
             {[id |-> i, res |-> r, before |-> Shown(row[r]), after |-> Shown(w),
               actor |-> Actor(cmd[p], w)]}]
  BY DEF Put
<1> DEFINE e0 == [id |-> i, res |-> r, before |-> Shown(row[r]), after |-> Shown(w),
                  actor |-> Actor(cmd[p], w)]
<1>5. /\ e0.res = r /\ e0.id = i /\ e0.before = Shown(row[r]) /\ e0.after = Shown(w)
      /\ e0.actor = "operator" <=> cmd[p].op = "update"
  BY ActorType
<1>6. log'[p] = log[p] \cup {e0} /\ \A f \in audit : f.id < i
  BY <1>4 DEF TypeOK, NextId, Entries
<1>7. \A e \in log[p] : e.res \in Res /\ e.res # r
  BY DEF Logged, TypeOK, Entry
<1> HIDE DEF e0
<1>8. Logged(p)'
  <2>1. ASSUME NEW e \in log[p]
        PROVE  /\ draft'[p][e.res] # NoRow
               /\ e.before = Shown(row[e.res]) /\ e.after = Shown(draft'[p][e.res])
               /\ e.actor = "operator" <=> cmd[p].op = "update"
               /\ \A f \in log[p] \cup {e0} : f.res = e.res => f = e
               /\ \A f \in audit : f.res = e.res => f.id < e.id
    BY <1>1, <1>5, <1>7 DEF Logged
  <2>2. /\ draft'[p][e0.res] # NoRow
        /\ e0.before = Shown(row[e0.res]) /\ e0.after = Shown(draft'[p][e0.res])
        /\ e0.actor = "operator" <=> cmd[p].op = "update"
        /\ \A f \in log[p] \cup {e0} : f.res = e0.res => f = e0
        /\ \A f \in audit : f.res = e0.res => f.id < e0.id
    BY <1>1, <1>2, <1>5, <1>6, <1>7
  <2>3. \A q \in Res : draft'[p][q] # NoRow => \E e \in log[p] \cup {e0} : e.res = q
    BY <1>1, <1>5 DEF Logged
  <2>4. row' = row /\ audit' = audit /\ cmd'[p] = cmd[p]
    OBVIOUS
  <2>5. \A q : Shown(row[q])' = Shown(row[q]) /\ Shown(draft[p][q])' = Shown(draft'[p][q])
    BY <2>4 DEF Shown
  <2> QED BY <1>6, <2>1, <2>2, <2>3, <2>4, <2>5 DEF Logged
<1>9. Mailed(p)'
  <2>1. \A m \in mail[p] : m.res \in Res /\ m.res # r
    BY DEF Mailed, TypeOK, Event
  <2>2. owed[p] \subseteq Res
    BY DEF TypeOK
  <2> QED BY <1>1, <1>2, <2>1, <2>2 DEF Mailed, Silent
<1> QED BY <1>3, <1>8, <1>9

\* A row put with its own token, with none, or with one minted for it.
LEMMA PutTokens ==
  ASSUME Inductive, NEW p \in Procs, NEW r \in Res, NEW w \in Row, Put(p, r, w),
         row' = row, minted \subseteq minted',
         \/ w.token = NoToken
         \/ Bears(r, w.token)
         \/ w.token \notin minted /\ w.token \in minted'
  PROVE  TokensApart'
<1>1. ASSUME NEW q \in Res, NEW t \in Tokens, Bears(q, t)'
      PROVE  Bears(q, t) \/ (q = r /\ t = w.token)
  BY <1>1 DEF Bears, Put, Inductive, TypeOK
<1>2. NoToken \notin Tokens
  BY LifecycleAssumption
<1> QED BY <1>1, <1>2 DEF Inductive, TokensApart

LEMMA UpdateLocal ==
  ASSUME Inductive, NEW p \in Procs, NEW r \in Res, Update(p, r)
  PROVE  Local(p)' /\ TokensApart'
<1>1. /\ pc[p] = "write" /\ r \in work[p] /\ r \in locks[p]
      /\ row[r] \in Row /\ draft[p][r] = NoRow /\ cmd[p] \in Commands /\ now[p] \in Nat
      /\ row[r].status \in Origin[cmd[p].op]
      /\ VersionMatches(cmd[p], row[r]) /\ TokenMatches(cmd[p], row[r])
      /\ Allowed(cmd[p], row[r], now[p])
  BY LifecycleAssumption DEF Update, Inductive, Placed, TypeOK
<1>2. PICK token \in IF cmd[p].op = "mint" THEN Tokens \ minted ELSE {row[r].token} :
        /\ Put(p, r, Updated(row[r], Target(cmd[p], row[r]), token))
        /\ minted' = IF cmd[p].op = "mint" THEN minted \cup {token} ELSE minted
  BY DEF Update
<1>3. token \in Tokens \cup {NoToken}
  BY <1>1, <1>2 DEF Row
<1>w. PICK w \in Row : w = Updated(row[r], Target(cmd[p], row[r]), token)
  BY <1>1, <1>3, UpdatedRow
<1>4. /\ w.version = row[r].version + 1
      /\ w.token = IF w.status = "held" THEN token ELSE NoToken
      /\ cmd[p].op = "confirm" => w.status = "confirmed"
      /\ cmd[p].op = "mint" => w.status = row[r].status
      /\ cmd[p].op # "mint" => w.status # row[r].status
  BY <1>1, <1>3, <1>w, UpdatedRow
<1>5. /\ UNCHANGED <<row, audit, outbox, pc, cmd, locks, todo, mail, receipt>>
      /\ work'[p] = work[p] \ {r}
      /\ owed'[p] = IF Silent(cmd[p]) THEN owed[p] ELSE owed[p] \cup {r}
  BY DEF Update, Inductive, TypeOK
<1>6. Put(p, r, w)
  BY <1>2, <1>w
<1>7. row[r] # NoRow
  BY <1>1, RowIsRow
<1>8. Fits(p, r, w)'
  <2>1. cmd[p].op \in RowOps => r = cmd[p].res
    BY <1>1 DEF Inductive, Placed
  <2> QED BY <1>1, <1>4, <1>5, <1>7, <2>1 DEF Fits, VersionMatches, TokenMatches
<1>9. Drafted(p)' /\ Logged(p)' /\ Mailed(p)'
  BY <1>1, <1>4, <1>5, <1>6, <1>8, PutLocal
<1>10. Placed(p)'
  <2>1. /\ draft'[p][r] = w
        /\ \A q \in Res : q # r => draft'[p][q] = draft[p][q]
    BY <1>6 DEF Put, Inductive, TypeOK
  <2>2. w # NoRow /\ work[p] \subseteq Res
    BY <1>4, RowIsRow DEF Inductive, TypeOK
  <2>3. cmd[p].op \in RowOps => r = cmd[p].res
    BY <1>1 DEF Inductive, Placed
  <2> QED BY <1>1, <1>5, <2>1, <2>2, <2>3 DEF Inductive, Placed
<1>11. TokensApart'
  <2>1. minted \subseteq minted'
    BY <1>2
  <2>2. CASE cmd[p].op = "mint"
    BY <1>2, <1>4, <1>5, <1>6, <2>1, <2>2, PutTokens
  <2>3. CASE cmd[p].op # "mint"
    <3>1. w.token = NoToken \/ Bears(r, w.token)
      BY <1>2, <1>4, <1>7, <2>3 DEF Bears
    <3> QED BY <1>4, <1>5, <1>6, <2>1, <3>1, PutTokens
  <2> QED BY <2>2, <2>3
<1> QED BY <1>9, <1>10, <1>11 DEF Local

LEMMA InsertLocal ==
  ASSUME Inductive, NEW p \in Procs, Insert(p)
  PROVE  Local(p)' /\ TokensApart'
<1>1. PICK r \in Res :
       /\ row[r] = NoRow /\ \A q \in Procs : r \notin locks[q]
       /\ Put(p, r, [status |-> "held", version |-> 1, expires |-> now[p] + Ttl,
                     token |-> NoToken])
       /\ locks' = [locks EXCEPT ![p] = @ \cup {r}]
       /\ owed' = [owed EXCEPT ![p] = {r}]
  BY DEF Insert
<1>2. PICK w \in Row :
        w = [status |-> "held", version |-> 1, expires |-> now[p] + Ttl, token |-> NoToken]
  <2>1. now[p] + Ttl \in Nat
    BY LifecycleAssumption DEF Inductive, TypeOK
  <2>2. [status |-> "held", version |-> 1, expires |-> now[p] + Ttl, token |-> NoToken] \in Row
    BY <2>1 DEF Row, Statuses
  <2> QED BY <2>2
<1>3. /\ pc[p] = "write" /\ cmd[p].op = "hold" /\ work[p] = {} /\ owed[p] = {}
      /\ cmd[p] \in Commands /\ pc'[p] = "booked" /\ locks'[p] = locks[p] \cup {r}
      /\ owed'[p] = {r}
      /\ UNCHANGED <<row, audit, outbox, minted, cmd, todo, work, mail, receipt>>
  <2>1. /\ pc[p] = "write" /\ cmd[p].op = "hold" /\ work[p] = {} /\ owed[p] = {}
        /\ pc' = [pc EXCEPT ![p] = "booked"]
        /\ UNCHANGED <<row, audit, outbox, minted, cmd, todo, work, mail, receipt>>
    BY DEF Insert, tables
  <2>2. cmd[p] \in Commands
    BY <2>1 DEF Inductive, Placed
  <2>3. pc'[p] = "booked" /\ locks'[p] = locks[p] \cup {r} /\ owed'[p] = {r}
    BY <1>1, <2>1 DEF Inductive, TypeOK
  <2> QED BY <2>1, <2>2, <2>3
<1>4. draft[p][r] = NoRow
  BY <1>1 DEF Inductive, Drafted, Fits
<1>5. Put(p, r, w)
  BY <1>1, <1>2
<1>6. NoRow.status # "held"
  BY DEF NoRow
<1>7. Fits(p, r, w)'
  BY <1>1, <1>2, <1>3, <1>6 DEF Fits, RowOps
<1>8. ~Silent(cmd[p]) /\ owed'[p] = owed[p] \cup {r}
  BY <1>3 DEF Silent
<1>9. Drafted(p)' /\ Logged(p)' /\ Mailed(p)'
  BY <1>2, <1>3, <1>4, <1>5, <1>7, <1>8, PutLocal
<1>10. Placed(p)'
  BY <1>3 DEF Inductive, Placed, RowOps
<1>11. TokensApart'
  BY <1>2, <1>3, <1>5, PutTokens
<1> QED BY <1>9, <1>10, <1>11 DEF Local

LEMMA EnqueueLocal ==
  ASSUME Inductive, NEW p \in Procs, NEW r \in Res, Enqueue(p, r)
  PROVE  Local(p)'
<1> USE DEF Inductive
<1>1. PICK i \in 1..MaxId :
       /\ NextId(i, Of(r, Events))
       /\ mail' = [mail EXCEPT ![p] = mail[p] \cup
            {[id |-> i, res |-> r, topic |-> draft[p][r].status,
              version |-> draft[p][r].version]}]
  BY DEF Enqueue
<1> DEFINE m0 == [id |-> i, res |-> r, topic |-> draft[p][r].status,
                  version |-> draft[p][r].version]
<1>2. m0.id = i /\ m0.res = r /\ m0.topic = draft[p][r].status
      /\ m0.version = draft[p][r].version
  OBVIOUS
<1>3. mail'[p] = mail[p] \cup {m0}
  BY <1>1 DEF TypeOK
<1> HIDE DEF m0
<1>4. /\ r \in owed[p] /\ owed'[p] = owed[p] \ {r} /\ pc[p] \in {"write", "booked"}
      /\ UNCHANGED <<row, audit, outbox, minted, pc, cmd, locks, todo, work, draft, log, receipt>>
  BY DEF Enqueue, tables, TypeOK
<1>5. Placed(p)'
  BY <1>4 DEF Placed, NoDraft
<1>6. Drafted(p)' /\ Logged(p)'
  BY <1>4 DEF Drafted, Fits, Logged, VersionMatches, TokenMatches
<1>7. Mailed(p)'
  <2>1. \A n \in outbox : n.res = r => n.id < i
    BY <1>1 DEF NextId, Of, Events
  <2>2. draft[p][r] # NoRow /\ cmd[p].op \notin {"mint", "update"}
    BY <1>4 DEF Mailed
  <2>3. \A m \in mail[p] : m.res # r
    BY <1>4 DEF Mailed
  <2> QED BY <1>2, <1>3, <1>4, <2>1, <2>2, <2>3 DEF Mailed
<1> QED BY <1>5, <1>6, <1>7 DEF Local

-----------------------------------------------------------------------------
(* Committing. *)

\* The images of one reservation that a commit publishes continue its trail.
LEMMA TrailExtends ==
  ASSUME NEW r, NEW v \in Row \cup {NoRow}, NEW w \in Row, NEW S \in SUBSET Entry,
         NEW e0 \in Entry, TrailOf(r, v, S),
         w.version = IF v = NoRow THEN 1 ELSE v.version + 1,
         e0.before = Shown(v), e0.after = Shown(w), \A f \in S : f.id < e0.id
  PROVE  TrailOf(r, w, S \cup {e0})
<1>1. /\ w.version \in Nat \ {0} /\ e0.after.version = w.version /\ w # NoRow
      /\ e0.id \in Nat
  BY RowIsRow DEF Row, Entry
<1>2. \A e \in S : e.after.version \in Nat /\ e.id \in Nat
  BY DEF Entry, Image
<1>3. CASE v = NoRow
  <2>1. S = {}
    BY <1>3 DEF TrailOf
  <2>2. 1..w.version = {w.version} /\ w.version = 1
    BY <1>3
  <2>3. {e.after.version : e \in S \cup {e0}} = {w.version}
    BY <1>1, <2>1
  <2>4. e0.before = NoRow
    BY <1>3 DEF Shown
  <2>5. \A e, f \in {e0} : e.after.version < f.after.version <=> e.id < f.id
    BY <1>1
  <2> QED BY <1>1, <2>1, <2>2, <2>3, <2>4, <2>5 DEF TrailOf
<1>4. CASE v # NoRow
  <2>1. /\ v.version \in Nat \ {0} /\ w.version = v.version + 1 /\ v \in Row
    BY <1>4 DEF Row
  <2>2. {e.after.version : e \in S} = 1..v.version
    BY <1>4 DEF TrailOf
  <2>3. \A e \in S : e.after.version < w.version
    BY <2>1, <2>2
  <2>4. {e.after.version : e \in S \cup {e0}} = 1..w.version
    <3>1. {e.after.version : e \in S \cup {e0}} = (1..v.version) \cup {w.version}
      BY <1>1, <2>2
    <3>2. (1..v.version) \cup {w.version} = 1..w.version
      BY <2>1
    <3> QED BY <3>1, <3>2
  <2>5. \A e, f \in S \cup {e0} : e.after.version < f.after.version <=> e.id < f.id
    <3>1. \A e, f \in S : e.after.version < f.after.version <=> e.id < f.id
      BY DEF TrailOf
    <3> QED BY <1>1, <1>2, <2>3, <3>1
  <2>6. \A e \in S \cup {e0} :
          IF e.after.version = 1 THEN e.before = NoRow
          ELSE \E f \in S \cup {e0} :
                 f.after = e.before /\ f.after.version = e.after.version - 1
    <3>1. \E f \in S : f.after = Shown(v)
      BY <1>4 DEF TrailOf
    <3>2. Shown(v).version = v.version
      BY <2>1, RowIsRow
    <3>3. e0.after.version # 1 /\ v.version = e0.after.version - 1
      BY <1>1, <2>1
    <3>4. \A e \in S :
            IF e.after.version = 1 THEN e.before = NoRow
            ELSE \E f \in S : f.after = e.before /\ f.after.version = e.after.version - 1
      BY DEF TrailOf
    <3> QED BY <3>1, <3>2, <3>3, <3>4
  <2> QED BY <1>1, <2>4, <2>5, <2>6 DEF TrailOf
<1> QED BY <1>3, <1>4

\* What a commit does to one row, and to what the rest of the log says of it.
LEMMA CommitRow ==
  ASSUME Inductive, NEW p \in Procs, Commit(p), NEW r \in Res
  PROVE  /\ draft[p][r] = NoRow => row'[r] = row[r] /\ Of(r, audit') = Of(r, audit)
         /\ draft[p][r] # NoRow =>
              /\ row'[r] = draft[p][r] /\ draft[p][r] \in Row /\ Fits(p, r, draft[p][r])
              /\ \E e \in log[p] : /\ Of(r, audit') = Of(r, audit) \cup {e}
                                   /\ e.before = Shown(row[r]) /\ e.after = Shown(row'[r])
                                   /\ \A f \in Of(r, audit) : f.id < e.id
<1> USE DEF Inductive
<1>1. /\ row' = [q \in Res |-> IF draft[p][q] = NoRow THEN row[q] ELSE draft[p][q]]
      /\ audit' = audit \cup log[p]
  BY DEF Commit
<1>2. CASE draft[p][r] = NoRow
  <2>1. Of(r, log[p]) = {}
    BY <1>2 DEF Logged, Of
  <2> QED BY <1>1, <1>2, <2>1 DEF Of
<1>3. CASE draft[p][r] # NoRow
  <2>1. row'[r] = draft[p][r] /\ draft[p][r] \in Row /\ Fits(p, r, draft[p][r])
    BY <1>1, <1>3 DEF Drafted, TypeOK
  <2>2. PICK e \in log[p] : e.res = r
    BY <1>3 DEF Logged
  <2>3. Of(r, log[p]) = {e}
    BY <2>2 DEF Of, Logged
  <2>4. Of(r, audit') = Of(r, audit) \cup {e}
    BY <1>1, <2>3 DEF Of
  <2>5. /\ e.before = Shown(row[r]) /\ e.after = Shown(draft[p][r])
        /\ \A f \in Of(r, audit) : f.id < e.id
    BY <2>2 DEF Of, Logged
  <2> QED BY <1>3, <2>1, <2>4, <2>5
<1> QED BY <1>2, <1>3

\* A commit replaces rows that no other transaction has locked.
LEMMA CommitOthers ==
  ASSUME Inductive, NEW p \in Procs, NEW q \in Procs, p # q, Commit(p)
  PROVE  Local(q)'
<1> USE DEF Inductive
<1>1. Same(q)
  BY Others DEF Step
<1>2. \A r \in Res : draft[p][r] # NoRow => r \in locks[p]
  BY DEF Drafted, Fits
<1>3. \A r \in locks[q] : draft[p][r] = NoRow /\ r \in Res
  BY <1>2 DEF Exclusion, TypeOK
<1>4. \A r \in locks[q] : row'[r] = row[r]
  BY <1>3 DEF Commit
<1>5. \A r \in Res : row[r] # NoRow => row'[r] # NoRow
  BY DEF Commit
<1>6. Placed(q)'
  <2>1. todo[q] \cup work[q] \subseteq Res
    BY DEF TypeOK
  <2> QED BY <1>1, <1>5, <2>1 DEF Same, Placed, NoDraft
<1>7. Drafted(q)'
  <2>1. ASSUME NEW r \in Res, draft[q][r] # NoRow
        PROVE  Fits(q, r, draft[q][r])'
    <3>1. Fits(q, r, draft[q][r])
      BY <2>1 DEF Drafted
    <3>2. row'[r] = row[r]
      BY <1>4, <3>1 DEF Fits
    <3> QED BY <1>1, <3>1, <3>2 DEF Fits, Same, VersionMatches, TokenMatches
  <2> QED BY <1>1, <2>1 DEF Drafted, Same
<1>8. \A r \in Res : draft[q][r] # NoRow => row'[r] = row[r] /\ draft[p][r] = NoRow
  BY <1>3, <1>4 DEF Drafted, Fits
<1>9. Logged(q)'
  <2>1. audit' = audit \cup log[p] /\ \A f \in log[p] : draft[p][f.res] # NoRow
    BY DEF Commit, Logged
  <2>2. \A e \in log[q] : e.res \in Res
    BY DEF TypeOK, Entry
  <2>3. \A e \in log[q] : \A f \in audit' : f.res = e.res => f \in audit
    BY <1>8, <2>1, <2>2 DEF Logged
  <2>4. \A e \in log[q] : row'[e.res] = row[e.res]
    BY <1>8, <2>2 DEF Logged
  <2> QED BY <1>1, <2>3, <2>4 DEF Logged, Same
<1>10. Mailed(q)'
  <2>1. outbox' = outbox \cup mail[p] /\ \A n \in mail[p] : draft[p][n.res] # NoRow
    BY DEF Commit, Mailed
  <2>2. \A m \in mail[q] : m.res \in Res
    BY DEF TypeOK, Event
  <2>3. \A m \in mail[q] : \A n \in outbox' : n.res = m.res => n \in outbox
    BY <1>8, <2>1, <2>2 DEF Mailed
  <2> QED BY <1>1, <2>3 DEF Mailed, Same
<1> QED BY <1>6, <1>7, <1>9, <1>10 DEF Local

LEMMA CommitAudit ==
  ASSUME Inductive, NEW p \in Procs, Commit(p)
  PROVE  AuditReplays'
<1> USE DEF Inductive
<1> SUFFICES ASSUME NEW r \in Res PROVE TrailOf(r, row'[r], Of(r, audit'))
  BY DEF AuditReplays, TrailOf, Of, Shown
<1>1. TrailOf(r, row[r], Of(r, audit))
  BY DEF AuditReplays
<1>2. CASE draft[p][r] = NoRow
  BY <1>1, <1>2, CommitRow
<1>3. CASE draft[p][r] # NoRow
  <2>1. PICK e \in log[p] :
          /\ Of(r, audit') = Of(r, audit) \cup {e}
          /\ e.before = Shown(row[r]) /\ e.after = Shown(row'[r])
          /\ \A f \in Of(r, audit) : f.id < e.id
    BY <1>3, CommitRow
  <2>2. row'[r] = draft[p][r] /\ draft[p][r] \in Row /\ Fits(p, r, draft[p][r])
    BY <1>3, CommitRow
  <2>3. /\ row[r] \in Row \cup {NoRow} /\ e \in Entry /\ Of(r, audit) \in SUBSET Entry
        /\ row'[r].version = IF row[r] = NoRow THEN 1 ELSE row[r].version + 1
    BY <2>2 DEF TypeOK, Of, Fits
  <2> QED BY <1>1, <2>1, <2>2, <2>3, TrailExtends
<1> QED BY <1>2, <1>3

\* What it logged or enqueued, and what it has no longer to enqueue.
LEMMA CommitEvents ==
  ASSUME Inductive, NEW p \in Procs, Commit(p)
  PROVE  EventsFollow'
<1> USE DEF Inductive
<1>1. audit' = audit \cup log[p] /\ outbox' = outbox \cup mail[p] /\ owed[p] = {}
  BY DEF Commit, Ready, Placed
<1>2. \A r : Shown(row[r]).status = row[r].status
  BY DEF Shown
<1>3. ASSUME NEW e \in log[p]
      PROVE  /\ e.res \in Res /\ draft[p][e.res] \in Row /\ Fits(p, e.res, draft[p][e.res])
             /\ e.before.status = row[e.res].status
             /\ e.after.status = draft[p][e.res].status
             /\ e.after.version = draft[p][e.res].version
             /\ e.actor = "operator" <=> cmd[p].op = "update"
  <2>1. /\ e.res \in Res /\ draft[p][e.res] # NoRow
        /\ e.before = Shown(row[e.res]) /\ e.after = Shown(draft[p][e.res])
        /\ e.actor = "operator" <=> cmd[p].op = "update"
    BY DEF Logged, TypeOK, Entry
  <2>2. draft[p][e.res] \in Row
    BY <2>1 DEF TypeOK
  <2> QED BY <1>2, <2>1, <2>2, RowIsRow DEF Drafted
<1>4. ASSUME NEW m \in mail[p]
      PROVE  /\ \E e \in log[p] : Announced(e) /\ Reports(m, e)
             /\ m.version = draft[p][m.res].version /\ Fits(p, m.res, draft[p][m.res])
             /\ m.res \in Res
  <2>1. /\ m.res \in Res /\ draft[p][m.res] # NoRow /\ m.version = draft[p][m.res].version
        /\ m.topic = draft[p][m.res].status /\ cmd[p].op \notin {"mint", "update"}
    BY DEF Mailed, TypeOK, Event
  <2>2. PICK e \in log[p] : e.res = m.res
    BY <2>1 DEF Logged
  <2>3. Reports(m, e)
    BY <1>3, <2>1, <2>2 DEF Reports
  <2>4. Announced(e)
    BY <1>3, <2>1, <2>2 DEF Announced, Fits
  <2> QED BY <2>1, <2>3, <2>4 DEF Drafted
<1>5. \A m \in outbox' : \E e \in audit' : Announced(e) /\ Reports(m, e)
  BY <1>1, <1>4 DEF EventsFollow
<1>6. ASSUME NEW e \in audit', Announced(e)
      PROVE  \E m \in outbox' : Reports(m, e)
  <2>1. CASE e \in audit
    BY <1>1, <1>6, <2>1 DEF EventsFollow
  <2>2. CASE e \in log[p]
    <3>1. cmd[p].op \notin {"mint", "update"}
      BY <1>3, <1>6, <2>2 DEF Announced, Fits
    <3>2. draft[p][e.res] # NoRow
      BY <2>2 DEF Logged
    <3>3. PICK m \in mail[p] : m.res = e.res
      BY <1>1, <1>3, <2>2, <3>1, <3>2 DEF Mailed
    <3>4. Reports(m, e)
      BY <1>3, <2>2, <3>3 DEF Mailed, Reports
    <3> QED BY <1>1, <3>4
  <2> QED BY <1>1, <2>1, <2>2
<1>7. ASSUME NEW m \in outbox, NEW n \in mail[p], m.res = n.res
      PROVE  m.version < n.version /\ m.id < n.id
  <2>1. PICK e \in audit : Reports(m, e)
    BY DEF EventsFollow
  <2>2. e \in Of(n.res, audit) /\ e.after.version = m.version
    BY <1>7, <2>1 DEF Reports, Of
  <2>3. TrailOf(n.res, row[n.res], Of(n.res, audit))
    BY <1>4 DEF AuditReplays
  <2>4. row[n.res] # NoRow
    BY <2>2, <2>3 DEF TrailOf
  <2>5. m.version \in 1..row[n.res].version
    BY <2>2, <2>3, <2>4 DEF TrailOf
  <2>6. n.version = row[n.res].version + 1
    BY <1>4, <2>4 DEF Fits
  <2>7. row[n.res].version \in Nat
    BY <1>4, <2>4 DEF TypeOK, Row
  <2>8. m.id < n.id
    BY <1>7 DEF Mailed
  <2> QED BY <2>5, <2>6, <2>7, <2>8
<1>8. \A m, n \in outbox' : m.res = n.res => (m.version < n.version <=> m.id < n.id)
  <2>1. \A m \in outbox \cup mail[p] : m.version \in Nat /\ m.id \in Nat
    BY DEF TypeOK, Event
  <2>2. \A m, n \in mail[p] : m.res = n.res => m = n
    BY DEF Mailed
  <2>3. \A m, n \in outbox : m.res = n.res => (m.version < n.version <=> m.id < n.id)
    BY DEF EventsFollow
  <2> QED BY <1>1, <1>7, <2>1, <2>2, <2>3
<1> QED BY <1>5, <1>6, <1>8 DEF EventsFollow, Announced, Reports

LEMMA CommitTokens ==
  ASSUME Inductive, NEW p \in Procs, Commit(p)
  PROVE  TokensApart' /\ TokenNeedsHold'
<1> USE DEF Inductive
<1>1. /\ row' = [r \in Res |-> IF draft[p][r] = NoRow THEN row[r] ELSE draft[p][r]]
      /\ minted' = minted
      /\ \A q \in Procs, r \in Res : draft'[q][r] \in {NoRow, draft[q][r]}
  BY DEF Commit, Release, TypeOK, NoDraft
<1>2. \A r \in Res, t \in Tokens : Bears(r, t)' => Bears(r, t)
  BY <1>1 DEF Bears
<1>3. TokensApart'
  BY <1>1, <1>2 DEF TokensApart
<1>4. TokenNeedsHold'
  BY <1>1 DEF TokenNeedsHold, Drafted, Fits
<1> QED BY <1>3, <1>4

-----------------------------------------------------------------------------
(* The invariant. *)

LEMMA InitInductive == Init => Inductive
<1> SUFFICES ASSUME Init PROVE Inductive
  OBVIOUS
<1> USE DEF Init
<1>1. NoDraft \in [Res -> Row \cup {NoRow}] /\ \A r \in Res : NoDraft[r] = NoRow
  BY DEF NoDraft
<1>2. TypeOK
  BY <1>1, LifecycleAssumption DEF TypeOK
<1>3. Exclusion /\ TokensApart /\ TokenNeedsHold /\ ReceiptTrue
  BY <1>1 DEF Exclusion, TokensApart, Bears, TokenNeedsHold, ReceiptTrue
<1>4. ASSUME NEW p \in Procs
      PROVE  Placed(p) /\ Drafted(p) /\ Logged(p) /\ Mailed(p)
  <2>1. NoCmd.op \notin RowOps
    BY DEF NoCmd, RowOps
  <2> QED BY <1>1, <2>1 DEF Placed, Drafted, Logged, Mailed
<1>5. AuditReplays /\ EventsFollow
  <2>1. \A r \in Res : row[r] = NoRow /\ Of(r, audit) = {}
    BY <1>1 DEF Of
  <2>2. \A r \in Res : TrailOf(r, NoRow, {})
    BY DEF TrailOf
  <2> QED BY <2>1, <2>2 DEF AuditReplays, EventsFollow
<1> QED BY <1>2, <1>3, <1>4, <1>5 DEF Inductive

LEMMA ExclusionStep ==
  ASSUME Inductive, NEW p \in Procs, Begin(p) \/ Step(p) \/ Abort(p)
  PROVE  Exclusion'
<1> USE DEF Inductive
<1>1. \A q \in Procs : q # p => locks'[q] = locks[q]
  BY Others DEF Same
<1>2. SUFFICES \A q \in Procs : q # p => locks'[p] \cap locks[q] = {}
  BY <1>1, <1>2 DEF Exclusion
<1>3. CASE locks'[p] \subseteq locks[p]
  BY <1>3 DEF Exclusion
<1>4. CASE Abort(p) \/ Commit(p)
  BY <1>3, <1>4 DEF Abort, Commit, Release, TypeOK
<1>5. CASE Begin(p) \/ ReadRows(p) \/ ReadReceipt(p)
           \/ \E r \in Res : Update(p, r) \/ Skip(p, r) \/ Enqueue(p, r)
  BY <1>3, <1>5 DEF Begin, ReadRows, ReadReceipt, Update, Skip, Enqueue
<1>6. CASE LockRow(p)
  <2>1. PICK r \in todo[p] : RowFree(p, r) /\ locks'[p] = locks[p] \cup {r}
    BY <1>6 DEF LockRow, TypeOK
  <2> QED BY <2>1 DEF RowFree, Exclusion
<1>7. CASE SweepRows(p)
  <2>1. \A r \in locks'[p] : RowFree(p, r)
    BY <1>7 DEF SweepRows, TypeOK
  <2> QED BY <2>1 DEF RowFree
<1>8. CASE Insert(p)
  <2>1. PICK r \in Res : locks'[p] = locks[p] \cup {r} /\ \A q \in Procs : r \notin locks[q]
    BY <1>8 DEF Insert, TypeOK
  <2> QED BY <2>1 DEF Exclusion
<1> QED BY <1>4, <1>5, <1>6, <1>7, <1>8 DEF Step

\* Receipts: none but its own transaction's changes by a step.
LEMMA ReceiptStep ==
  ASSUME Inductive, NEW p \in Procs, Begin(p) \/ Step(p) \/ Abort(p)
  PROVE  ReceiptTrue'
<1> USE DEF Inductive
<1>1. CASE ReadReceipt(p)
  BY <1>1, ReadReceiptLocal
<1>2. CASE ~ReadReceipt(p)
  <2>1. \A q \in Procs : q # p => receipt'[q] = receipt[q] /\ log'[q] = log[q]
    BY Others DEF Same
  <2>2. receipt'[p] = NoReceipt \/ (receipt'[p] = receipt[p] /\ log[p] \subseteq log'[p])
    <3>1. CASE Abort(p) \/ Commit(p)
      BY <3>1 DEF Abort, Commit, Release, TypeOK
    <3>2. CASE Begin(p) \/ ReadRows(p) \/ LockRow(p) \/ SweepRows(p)
               \/ \E r \in Res : Skip(p, r) \/ Enqueue(p, r)
      BY <3>2 DEF Begin, ReadRows, LockRow, SweepRows, Skip, Enqueue
    <3>3. CASE Insert(p) \/ \E r \in Res : Update(p, r)
      BY <3>3 DEF Insert, Update, Put, TypeOK
    <3> QED BY <1>2, <3>1, <3>2, <3>3 DEF Step
  <2> QED BY <2>1, <2>2 DEF ReceiptTrue
<1> QED BY <1>1, <1>2

LEMMA LocalStep ==
  ASSUME Inductive, NEW p \in Procs, Begin(p) \/ Step(p) \/ Abort(p)
  PROVE  /\ \A q \in Procs : Local(q)'
         /\ (TokensApart /\ AuditReplays /\ EventsFollow /\ TokenNeedsHold)'
<1>1. \A q \in Procs : Local(q)
  BY DEF Inductive, Local
<1>2. CASE Commit(p)
  <2>1. Local(p)'
    BY <1>2, ReleaseLocal DEF Commit
  <2> QED BY <1>2, <2>1, CommitOthers, CommitAudit, CommitEvents, CommitTokens
<1>3. ASSUME UNCHANGED <<row, audit, outbox>>, Local(p)'
      PROVE  \A q \in Procs : Local(q)'
  BY <1>1, <1>3, Others, SameLocal
<1>4. ASSUME UNCHANGED <<row, audit, outbox>>
      PROVE  (AuditReplays /\ EventsFollow /\ TokenNeedsHold)'
  <2>1. AuditReplays'
    BY <1>4 DEF Inductive, AuditReplays, TrailOf, Of, Shown, NoRow
  <2>2. EventsFollow'
    BY <1>4 DEF Inductive, EventsFollow, Announced, Reports
  <2>3. TokenNeedsHold'
    BY <1>4 DEF Inductive, TokenNeedsHold
  <2> QED BY <2>1, <2>2, <2>3
<1>5. CASE Abort(p)
  <2>1. Local(p)' /\ UNCHANGED <<row, audit, outbox, minted>>
    BY <1>5, ReleaseLocal DEF Abort, tables
  <2>2. \A q \in Procs, r \in Res : draft'[q][r] \in {NoRow, draft[q][r]}
    BY <1>5 DEF Abort, Release, Inductive, TypeOK, NoDraft
  <2>3. TokensApart'
    BY <2>1, <2>2 DEF Inductive, TokensApart, Bears
  <2> QED BY <1>3, <1>4, <2>1, <2>3
<1>6. CASE Begin(p)
  <2>1. UNCHANGED <<row, audit, outbox, minted, draft>>
    BY <1>6 DEF Begin, tables
  <2> QED BY <1>3, <1>6, <2>1, BeginLocal, QuietTables
<1>7. CASE ReadRows(p) \/ SweepRows(p)
  <2>1. UNCHANGED <<row, audit, outbox, minted, draft>>
    BY <1>7 DEF ReadRows, SweepRows, tables
  <2> QED BY <1>3, <1>7, <2>1, ReadRowsLocal, QuietTables
<1>8. CASE LockRow(p)
  <2>1. UNCHANGED <<row, audit, outbox, minted, draft>>
    BY <1>8 DEF LockRow, tables
  <2> QED BY <1>3, <1>8, <2>1, LockRowLocal, QuietTables
<1>9. CASE \E r \in Res : Update(p, r)
  <2>1. UNCHANGED <<row, audit, outbox>>
    BY <1>9 DEF Update
  <2> QED BY <1>3, <1>4, <1>9, <2>1, UpdateLocal
<1>10. CASE \E r \in Res : Skip(p, r)
  <2>1. UNCHANGED <<row, audit, outbox, minted, draft>>
    BY <1>10 DEF Skip, tables
  <2> QED BY <1>3, <1>10, <2>1, SkipLocal, QuietTables
<1>11. CASE \E r \in Res : Enqueue(p, r)
  <2>1. UNCHANGED <<row, audit, outbox, minted, draft>>
    BY <1>11 DEF Enqueue, tables
  <2> QED BY <1>3, <1>11, <2>1, EnqueueLocal, QuietTables
<1>12. CASE Insert(p)
  <2>1. UNCHANGED <<row, audit, outbox>>
    BY <1>12 DEF Insert, tables
  <2> QED BY <1>3, <1>4, <1>12, <2>1, InsertLocal
<1>13. CASE ReadReceipt(p)
  <2>1. UNCHANGED <<row, audit, outbox, minted, draft>>
    BY <1>13 DEF ReadReceipt, tables
  <2> QED BY <1>3, <1>13, <2>1, ReadReceiptLocal, QuietTables
<1> QED BY <1>2, <1>5, <1>6, <1>7, <1>8, <1>9, <1>10, <1>11, <1>12, <1>13 DEF Step

LEMMA InductiveStep == Inductive /\ [Next]_vars => Inductive'
<1> SUFFICES ASSUME Inductive, [Next]_vars PROVE Inductive'
  OBVIOUS
<1>1. TypeOK'
  BY TypeStep
<1>2. CASE UNCHANGED vars \/ Tick
  <2>1. UNCHANGED <<row, audit, outbox, minted, draft, receipt, log, locks>>
    BY <1>2 DEF vars, Tick
  <2>2. \A q \in Procs : Same(q) /\ Local(q)
    BY <1>2 DEF vars, Tick, Same, Local, Inductive
  <2>3. \A q \in Procs : Local(q)'
    BY <2>1, <2>2, SameLocal
  <2>4. Exclusion' /\ ReceiptTrue'
    BY <2>1 DEF Inductive, Exclusion, ReceiptTrue
  <2> QED BY <1>1, <2>1, <2>3, <2>4, QuietTables DEF Inductive, Local
<1>3. CASE \E p \in Procs : Begin(p) \/ Step(p) \/ Abort(p)
  BY <1>1, <1>3, LocalStep, ExclusionStep, ReceiptStep DEF Inductive, Local
<1> QED BY <1>2, <1>3 DEF Next

\* What transactions hold uncommitted always extends what is committed: rows
\* they have locked, one audit entry for each, and an event for each that needs
\* one; and what is committed is complete.
THEOREM LifecycleInductive == Spec => []Inductive
BY InitInductive, InductiveStep, PTL DEF Spec

\* A reservation's audit entries, by whatever commands, statements and sweeps
\* they were written, replay version by version to its row (t50, t60).
THEOREM LifecycleAudit == Spec => []AuditReplays
<1>1. Inductive => AuditReplays
  BY DEF Inductive
<1> QED BY <1>1, LifecycleInductive, PTL

\* The outbox has one event for every change of status by a command, none for
\* anything else, and in the order of the changes.
THEOREM LifecycleEvents == Spec => []EventsFollow
<1>1. Inductive => EventsFollow
  BY DEF Inductive
<1> QED BY <1>1, LifecycleInductive, PTL

\* No reservation that has left held has a confirm token (t20).
THEOREM LifecycleTokens == Spec => []TokenNeedsHold
<1>1. Inductive => TokenNeedsHold
  BY DEF Inductive
<1> QED BY <1>1, LifecycleInductive, PTL

\* The audit id a command answers with is that of the entry its own update wrote.
THEOREM LifecycleReceipts == Spec => []ReceiptTrue
<1>1. Inductive => ReceiptTrue
  BY DEF Inductive
<1> QED BY <1>1, LifecycleInductive, PTL

\* A transaction that commits a change has put a row that met its terms.
LEMMA CommittedRow ==
  ASSUME Inductive, [Next]_vars, NEW p \in Procs, Commits(p), cmd[p].op \in RowOps
  PROVE  /\ Commit(p) /\ cmd[p].res \in Res /\ draft[p][cmd[p].res] # NoRow
         /\ Fits(p, cmd[p].res, draft[p][cmd[p].res])
<1> USE DEF Inductive
<1>1. PICK q \in Procs : Begin(q) \/ Step(q) \/ Abort(q)
  BY DEF Commits, Next, Tick, vars
<1>2. q = p
  BY <1>1, Others DEF Commits, Same
<1>3. audit' = audit \/ Commit(p)
  BY <1>1, <1>2 DEF Begin, Abort, Step, tables, ReadRows, LockRow, SweepRows, Update, Skip,
       Enqueue, Insert, ReadReceipt
<1>4. Commit(p) /\ log[p] # {}
  BY <1>3 DEF Commits, Commit
<1>5. PICK e \in log[p] : draft[p][e.res] # NoRow /\ e.res \in Res
  BY <1>4 DEF Logged, TypeOK, Entry
<1>6. Fits(p, e.res, draft[p][e.res])
  BY <1>5 DEF Drafted
<1> QED BY <1>4, <1>5, <1>6 DEF Fits

\* Of two commands that state the same version of a reservation at most one
\* commits a change: the other no longer matches the row (confirm, cancel, seat,
\* complete and mint compare it under the row lock).
THEOREM LifecycleVersions == Spec => VersionRespected
<1>1. ASSUME Inductive, [Next]_vars, NEW p \in Procs, Commits(p),
             cmd[p].op \in RowOps \ {"update"}, cmd[p].expected # Unknown
      PROVE  row[cmd[p].res].version = cmd[p].expected
  BY <1>1, CommittedRow DEF Fits, VersionMatches
<1>2. Inductive /\ [Next]_vars =>
        [\A p \in Procs :
           (Commits(p) /\ cmd[p].op \in RowOps \ {"update"} /\ cmd[p].expected # Unknown)
           => row[cmd[p].res].version = cmd[p].expected]_vars
  BY <1>1
<1> QED BY <1>2, LifecycleInductive, PTL DEF Spec, VersionRespected

\* A token confirms at most once, and only while it is the row's current one:
\* after the confirmation no row has it.
THEOREM LifecycleTokenOnce == Spec => TokenRespected
<1>1. ASSUME Inductive, [Next]_vars, NEW p \in Procs, Commits(p),
             cmd[p].op = "confirm", cmd[p].token # NoToken
      PROVE  /\ row[cmd[p].res].token = cmd[p].token
             /\ \A r \in Res : row'[r] # NoRow => row'[r].token # cmd[p].token
  <2> DEFINE s == cmd[p].res
             t == cmd[p].token
  <2>1. /\ Commit(p) /\ s \in Res /\ draft[p][s] # NoRow /\ Fits(p, s, draft[p][s])
    BY <1>1, CommittedRow DEF RowOps
  <2>2. /\ row[s].token = t /\ row[s] # NoRow /\ draft[p][s].status = "confirmed"
        /\ draft[p][s].token = NoToken
    BY <1>1, <2>1 DEF Fits, TokenMatches, RowOps
  <2>3. t \in Tokens
    <3>1. cmd[p] \in Commands
      BY <1>1 DEF Inductive, TypeOK, NoCmd
    <3> QED BY <1>1, <3>1, CommandFields
  <2>4. Bears(s, t)
    BY <2>2 DEF Bears
  <2>5. ASSUME NEW r \in Res, row'[r] # NoRow, row'[r].token = t
        PROVE  FALSE
    <3>1. Bears(r, t)
      BY <2>1, <2>5 DEF Commit, Bears
    <3>2. r = s
      BY <1>1, <2>1, <2>3, <2>4, <3>1 DEF Inductive, TokensApart
    <3>3. row'[s] = draft[p][s]
      BY <2>1 DEF Commit
    <3> QED BY <1>1, <2>2, <2>5, <3>2, <3>3
  <2> QED BY <2>2, <2>5
<1>2. Inductive /\ [Next]_vars =>
        [\A p \in Procs :
           (Commits(p) /\ cmd[p].op = "confirm" /\ cmd[p].token # NoToken)
           => /\ row[cmd[p].res].token = cmd[p].token
              /\ \A r \in Res : row'[r] # NoRow => row'[r].token # cmd[p].token]_vars
  BY <1>1
<1> QED BY <1>2, LifecycleInductive, PTL DEF Spec, TokenRespected
=============================================================================
