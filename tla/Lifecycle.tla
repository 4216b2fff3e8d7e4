------------------------------ MODULE Lifecycle ------------------------------
(***************************************************************************)
(* What a reservation row carries besides its booking: its version, its    *)
(* confirm token, its audit trail and its outbox events, through every     *)
(* command and every plain UPDATE of a status by the application role.     *)
(*                                                                         *)
(* As in Engine.tla, a process is a connection that runs one transaction   *)
(* at a time and a step is one statement, or one row of it.  Here the only *)
(* locks are those of reservation rows: what the venue and unit locks      *)
(* decide (which rows overlap a hold, which a configuration write strands, *)
(* whether a booking is refused) is any outcome.  A trigger writes one     *)
(* audit entry for each updated row, in the statement that updates it; the *)
(* command then enqueues an event for each and reads its receipt's audit   *)
(* id.  Ids come from sequences and are only compared: an id is above all  *)
(* ids given out before that still exist, and gaps are left out.           *)
(***************************************************************************)
EXTENDS Status, FiniteSets

CONSTANTS
  Procs,     \* connections
  Res,       \* reservation ids; ordered, as rows are locked by id
  Tokens,    \* random tokens; bounds how many are minted
  Ttl,
  MaxClock,
  MaxId,     \* bound on the ids of each sequence
  Commands   \* the commands clients may issue; bounds a run

Unknown == 0   \* no expected version is given
NoToken == "none"

ConfirmCmd == [op: {"confirm"}, res: Res, expected: Nat, token: Tokens \cup {NoToken}]
VersionedCmd == [op: {"cancel", "seat", "complete", "mint"}, res: Res, expected: Nat]
UpdateCmd == [op: {"update"}, res: Res, to: Statuses]
BatchCmd == [op: {"hold", "sweep", "force"}]
NoCmd == [op |-> "none"]

ASSUME LifecycleAssumption ==
  /\ Res \subseteq Nat
  /\ Ttl \in Nat \ {0} /\ MaxClock \in Nat /\ MaxId \in Nat
  /\ NoToken \notin Tokens
  /\ Commands \subseteq ConfirmCmd \cup VersionedCmd \cup UpdateCmd \cup BatchCmd

VARIABLES
  clock,
  row,       \* the committed reservation rows
  audit,     \* the committed audit log
  outbox,    \* the committed events
  minted,    \* history: the tokens drawn so far
  pc, cmd, now,
  locks,     \* row locks
  todo,      \* rows its statement has yet to lock
  work,      \* locked rows it has yet to update
  owed,      \* updated rows whose event it has yet to enqueue
  draft,     \* its uncommitted rows,
  log,       \* audit entries
  mail,      \* and events
  receipt    \* what it answers if it commits

tables == <<clock, row, audit, outbox, minted>>
vars == <<clock, row, audit, outbox, minted,
          pc, cmd, now, locks, todo, work, owed, draft, log, mail, receipt>>

Row == [status: Statuses, version: Nat \ {0}, expires: Nat, token: Tokens \cup {NoToken}]
\* A row as the audit log stores it: without the token's hash.
Image == [status: Statuses, version: Nat \ {0}, expires: Nat]
Shown(w) ==
  IF w = NoRow THEN NoRow
  ELSE [status |-> w.status, version |-> w.version, expires |-> w.expires]

Actors == {"client", "token", "operator", "system:conflict", "system:sweeper"}
Entry == [id: Nat, res: Res, before: Image \cup {NoRow}, after: Image, actor: Actors]
Event == [id: Nat, res: Res, topic: Statuses, version: Nat]
Receipt == [res: Res, status: Statuses, version: Nat, audit: Nat]
NoReceipt == [res |-> "none"]
NoDraft == [r \in Res |-> NoRow]

TypeOK ==
  /\ clock \in 0..MaxClock
  /\ row \in [Res -> Row \cup {NoRow}]
  /\ audit \subseteq Entry /\ outbox \subseteq Event /\ minted \subseteq Tokens
  /\ pc \in [Procs -> {"idle", "begun", "lock", "write", "booked", "commit"}]
  /\ cmd \in [Procs -> Commands \cup {NoCmd}]
  /\ now \in [Procs -> 0..MaxClock]
  /\ locks \in [Procs -> SUBSET Res] /\ todo \in [Procs -> SUBSET Res]
  /\ work \in [Procs -> SUBSET Res] /\ owed \in [Procs -> SUBSET Res]
  /\ draft \in [Procs -> [Res -> Row \cup {NoRow}]]
  /\ log \in [Procs -> SUBSET Entry] /\ mail \in [Procs -> SUBSET Event]
  /\ receipt \in [Procs -> Receipt \cup {NoReceipt}]

Init ==
  /\ clock = 0
  /\ row = NoDraft /\ audit = {} /\ outbox = {} /\ minted = {}
  /\ pc = [p \in Procs |-> "idle"]
  /\ cmd = [p \in Procs |-> NoCmd]
  /\ now = [p \in Procs |-> 0]
  /\ locks = [p \in Procs |-> {}] /\ todo = [p \in Procs |-> {}]
  /\ work = [p \in Procs |-> {}] /\ owed = [p \in Procs |-> {}]
  /\ draft = [p \in Procs |-> NoDraft]
  /\ log = [p \in Procs |-> {}] /\ mail = [p \in Procs |-> {}]
  /\ receipt = [p \in Procs |-> NoReceipt]

-----------------------------------------------------------------------------
(* Sequences and locks. *)

Entries == audit \cup UNION {log[p] : p \in Procs}
Events == outbox \cup UNION {mail[p] : p \in Procs}

Of(r, S) == {e \in S : e.res = r}

\* The least id above those of S.
NextId(i, S) ==
  /\ \A e \in S : e.id < i
  /\ i = 1 \/ \E e \in S : e.id = i - 1

\* Mutant: rows read without `for update`.
RowFreeAlways(p, r) == TRUE
RowFree(p, r) == \A q \in Procs \ {p} : r \notin locks[q]

Least(r, S) == r \in S /\ \A q \in S : r <= q

-----------------------------------------------------------------------------
(* Beginning and ending a transaction. *)

\* What a transaction runs is decided at its first statement.
Begin(p) ==
  /\ pc[p] = "idle"
  /\ pc' = [pc EXCEPT ![p] = "begun"]
  /\ now' = [now EXCEPT ![p] = clock]
  /\ UNCHANGED <<tables, cmd, locks, todo, work, owed, draft, log, mail, receipt>>

Release(p) ==
  /\ pc' = [pc EXCEPT ![p] = "idle"]
  /\ cmd' = [cmd EXCEPT ![p] = NoCmd]
  /\ now' = [now EXCEPT ![p] = 0]
  /\ locks' = [locks EXCEPT ![p] = {}] /\ todo' = [todo EXCEPT ![p] = {}]
  /\ work' = [work EXCEPT ![p] = {}] /\ owed' = [owed EXCEPT ![p] = {}]
  /\ draft' = [draft EXCEPT ![p] = NoDraft]
  /\ log' = [log EXCEPT ![p] = {}] /\ mail' = [mail EXCEPT ![p] = {}]
  /\ receipt' = [receipt EXCEPT ![p] = NoReceipt]

\* A refusal that rolls back, a deadline, a lost client or a deadlock.
Abort(p) == pc[p] # "idle" /\ Release(p) /\ UNCHANGED tables

\* A transaction commits with its receipt, or with every row written and every
\* event enqueued when its command has none.  A hold whose booking was refused
\* commits what it expired.
WithReceipt == {"confirm", "cancel", "seat", "complete"}
Ready(p) ==
  \/ pc[p] = "commit"
  \/ pc[p] = "write" /\ cmd[p].op \notin WithReceipt /\ work[p] = {} /\ owed[p] = {}

Commit(p) ==
  /\ Ready(p)
  /\ row' = [r \in Res |-> IF draft[p][r] = NoRow THEN row[r] ELSE draft[p][r]]
  /\ audit' = audit \cup log[p]
  /\ outbox' = outbox \cup mail[p]
  /\ Release(p)
  /\ UNCHANGED <<clock, minted>>

Tick ==
  /\ clock < MaxClock
  /\ clock' = clock + 1
  /\ UNCHANGED <<row, audit, outbox, minted,
                 pc, cmd, now, locks, todo, work, owed, draft, log, mail, receipt>>

-----------------------------------------------------------------------------
(* Reading and locking rows. *)

RowOps == {"confirm", "cancel", "seat", "complete", "mint", "update"}

\* The rows a statement locks in id order: the one a command names, those a
\* hold's overlap read returned, or those an admin write's stranded read did,
\* none of which may be seated.
ReadRows(p) ==
  /\ pc[p] = "begun"
  /\ \E c \in Commands, S \in SUBSET Res :
       /\ c.op # "sweep"
       /\ c.op \in RowOps => S = {c.res} /\ row[c.res] # NoRow
       /\ c.op = "hold" => \A r \in S : Occupies(row[r])
       /\ c.op = "force" =>
            S # {} /\ \A r \in S : Live(row[r], now[p]) /\ row[r].status # "seated"
       /\ cmd' = [cmd EXCEPT ![p] = c]
       /\ todo' = [todo EXCEPT ![p] = S]
       /\ pc' = [pc EXCEPT ![p] = IF S = {} THEN "write" ELSE "lock"]
  /\ UNCHANGED <<tables, now, locks, work, owed, draft, log, mail, receipt>>

LockRow(p) ==
  /\ pc[p] = "lock"
  /\ \E r \in todo[p] :
       /\ Least(r, todo[p]) /\ RowFree(p, r)
       /\ locks' = [locks EXCEPT ![p] = @ \cup {r}]
       /\ work' = [work EXCEPT ![p] = @ \cup {r}]
       /\ todo' = [todo EXCEPT ![p] = @ \ {r}]
       /\ pc' = [pc EXCEPT ![p] = IF todo[p] = {r} THEN "write" ELSE "lock"]
  /\ UNCHANGED <<tables, cmd, now, owed, draft, log, mail, receipt>>

\* The sweeper takes due rows that nobody has locked.
SweepRows(p) ==
  /\ pc[p] = "begun"
  /\ \E c \in Commands, S \in SUBSET {r \in Res : Dead(row[r], now[p]) /\ RowFree(p, r)} :
       /\ c.op = "sweep" /\ S # {}
       /\ cmd' = [cmd EXCEPT ![p] = c]
       /\ locks' = [locks EXCEPT ![p] = S]
       /\ work' = [work EXCEPT ![p] = S]
  /\ pc' = [pc EXCEPT ![p] = "write"]
  /\ UNCHANGED <<tables, now, todo, owed, draft, log, mail, receipt>>

-----------------------------------------------------------------------------
(* Updating rows, with their triggers. *)

\* The statuses a command moves a row from, and the one it moves it to.
Origin == [confirm |-> {"held"}, cancel |-> LiveStatuses, seat |-> {"confirmed"},
           complete |-> {"seated"}, mint |-> Statuses, update |-> Statuses,
           hold |-> {"held"}, sweep |-> {"held"}, force |-> LiveStatuses]
Target(c, w) ==
  CASE c.op = "confirm" -> "confirmed" [] c.op = "seat" -> "seated"
    [] c.op = "complete" -> "completed" [] c.op \in {"cancel", "force"} -> "cancelled"
    [] c.op \in {"hold", "sweep"} -> "expired"
    [] c.op = "update" -> c.to [] c.op = "mint" -> w.status

\* Mutant: an expected version that is not compared under the row lock.
VersionMatchesAny(c, w) == TRUE
VersionMatches(c, w) ==
  c.op \in RowOps \ {"update"} => c.expected \in {Unknown, w.version}

\* Mutant: any token will do for a row that has one.
TokenMatchesAny(c, w) == (c.op = "confirm" /\ c.token # NoToken) => w.token # NoToken
TokenMatches(c, w) == (c.op = "confirm" /\ c.token # NoToken) => c.token = w.token

\* What the command's own conditions leave of the rows it locked: a hold expires
\* dead ones, a forced write cancels live ones.
Concerns(p, r) ==
  CASE cmd[p].op = "hold" -> Dead(row[r], now[p])
    [] cmd[p].op = "force" -> Live(row[r], now[p])
    [] OTHER -> TRUE

\* t20, t30 and t55: the transition table, time, and tokens for held rows only.
Allowed(c, w, t) ==
  LET s == Target(c, w) IN
  /\ IF c.op = "mint" THEN w.status = "held" ELSE <<w.status, s>> \in Transitions
  /\ s = "expired" => w.expires <= t
  /\ (s = "confirmed" \/ c.op = "mint") => t < w.expires

\* t20 clears the token of a row that leaves held; t50 counts the version.
Updated(w, s, token) ==
  [w EXCEPT !.status = s, !.version = @ + 1, !.token = IF s = "held" THEN token ELSE NoToken]

\* The actor of the transaction when it writes a row that ends as w: confirm
\* names the token that authorised it, a hold speaks for the system while it
\* expires the dead ones, and plain UPDATEs name whoever runs them.
Actor(c, w) ==
  CASE c.op = "confirm" -> IF c.token = NoToken THEN "client" ELSE "token"
    [] c.op = "hold" -> IF w.status = "expired" THEN "system:conflict" ELSE "client"
    [] c.op = "sweep" -> "system:sweeper"
    [] c.op = "update" -> "operator"
    [] OTHER -> "client"

\* Row r becomes w in p's transaction, and t60 logs it.
Put(p, r, w) ==
  /\ draft' = [draft EXCEPT ![p][r] = w]
  /\ \E i \in 1..MaxId :
       /\ NextId(i, Entries)
       /\ log' = [log EXCEPT ![p] = @ \cup
            {[id |-> i, res |-> r, before |-> Shown(row[r]), after |-> Shown(w),
              actor |-> Actor(cmd[p], w)]}]

\* Mutant: a sweep that enqueues no events.
SilentSweep(c) == c.op \in {"mint", "update", "sweep"}
\* Minting is no change of status, and a plain UPDATE writes no event.
Silent(c) == c.op \in {"mint", "update"}

\* One row of an UPDATE; a hold enqueues each row's event before the next row.
Update(p, r) ==
  LET c == cmd[p]
      w == row[r] IN
  /\ pc[p] = "write" /\ r \in work[p] /\ (c.op = "hold" => owed[p] = {})
  /\ Concerns(p, r)
  /\ w.status \in Origin[c.op] /\ VersionMatches(c, w) /\ TokenMatches(c, w)
  /\ Allowed(c, w, now[p])
  /\ \E token \in IF c.op = "mint" THEN Tokens \ minted ELSE {w.token} :
       /\ Put(p, r, Updated(w, Target(c, w), token))
       /\ minted' = IF c.op = "mint" THEN minted \cup {token} ELSE minted
  /\ work' = [work EXCEPT ![p] = @ \ {r}]
  /\ owed' = [owed EXCEPT ![p] = IF Silent(c) THEN @ ELSE @ \cup {r}]
  /\ UNCHANGED <<clock, row, audit, outbox, pc, cmd, now, locks, todo, mail, receipt>>

Skip(p, r) ==
  /\ pc[p] = "write" /\ r \in work[p] /\ ~Concerns(p, r)
  /\ work' = [work EXCEPT ![p] = @ \ {r}]
  /\ UNCHANGED <<tables, pc, cmd, now, locks, todo, owed, draft, log, mail, receipt>>

\* A hold's own row, under an id that nobody uses.
Insert(p) ==
  /\ pc[p] = "write" /\ cmd[p].op = "hold" /\ work[p] = {} /\ owed[p] = {}
  /\ \E r \in Res :
       /\ row[r] = NoRow /\ \A q \in Procs : r \notin locks[q]
       /\ Put(p, r, [status |-> "held", version |-> 1, expires |-> now[p] + Ttl,
                     token |-> NoToken])
       /\ locks' = [locks EXCEPT ![p] = @ \cup {r}]
       /\ owed' = [owed EXCEPT ![p] = {r}]
  /\ pc' = [pc EXCEPT ![p] = "booked"]
  /\ UNCHANGED <<tables, cmd, now, todo, work, mail, receipt>>

-----------------------------------------------------------------------------
(* Events, receipts, and the ways to the commit. *)

\* One event: a hold's as each row is written, the others' after the statement.
Enqueue(p, r) ==
  /\ pc[p] \in {"write", "booked"} /\ r \in owed[p]
  /\ cmd[p].op # "hold" => work[p] = {}
  /\ \E i \in 1..MaxId :
       /\ NextId(i, Of(r, Events))
       /\ mail' = [mail EXCEPT ![p] = @ \cup
            {[id |-> i, res |-> r, topic |-> draft[p][r].status,
              version |-> draft[p][r].version]}]
  /\ owed' = [owed EXCEPT ![p] = @ \ {r}]
  /\ UNCHANGED <<tables, pc, cmd, now, locks, todo, work, draft, log, receipt>>

\* Mutant: the latest entry of any reservation.
LatestOfAll(e, r, S) == e \in S /\ \A f \in S : f.id <= e.id
\* max(id) of the reservation's entries, as the transaction sees them.
Latest(e, r, S) == e \in S /\ e.res = r /\ \A f \in S : f.res = r => f.id <= e.id

\* The row a receipt is about: the one a command names, or the one a hold made.
Subject(p, r) ==
  IF cmd[p].op = "hold" THEN draft[p][r].status = "held" ELSE r = cmd[p].res

ReadReceipt(p) ==
  /\ \/ pc[p] = "booked"
     \/ pc[p] = "write" /\ cmd[p].op \in WithReceipt /\ work[p] = {}
  /\ owed[p] = {}
  /\ \E r \in Res, e \in audit \cup log[p] :
       /\ Subject(p, r) /\ Latest(e, r, audit \cup log[p])
       /\ receipt' = [receipt EXCEPT ![p] =
            [res |-> r, status |-> draft[p][r].status, version |-> draft[p][r].version,
             audit |-> e.id]]
  /\ pc' = [pc EXCEPT ![p] = "commit"]
  /\ UNCHANGED <<tables, cmd, now, locks, todo, work, owed, draft, log, mail>>

-----------------------------------------------------------------------------

Step(p) ==
  \/ ReadRows(p) \/ LockRow(p) \/ SweepRows(p)
  \/ \E r \in Res : Update(p, r) \/ Skip(p, r) \/ Enqueue(p, r)
  \/ Insert(p) \/ ReadReceipt(p)
  \/ Commit(p)

Next == Tick \/ \E p \in Procs : Begin(p) \/ Step(p) \/ Abort(p)

Spec == Init /\ [][Next]_vars

-----------------------------------------------------------------------------
(* Properties. *)

\* Invariants 5 and 6 of CORRECTNESS.md: the audit trail of a reservation,
\* whoever wrote it, replays to its row.  It has one entry for every version, in
\* the order of their ids, and each begins with the row the one before left.
TrailOf(r, w, S) ==
  /\ {e.after.version : e \in S} = IF w = NoRow THEN {} ELSE 1..w.version
  /\ \A e, f \in S : e.after.version < f.after.version <=> e.id < f.id
  /\ \A e \in S :
       IF e.after.version = 1 THEN e.before = NoRow
       ELSE \E f \in S : f.after = e.before /\ f.after.version = e.after.version - 1
  /\ w # NoRow => \E e \in S : e.after = Shown(w)
AuditReplays == \A r \in Res : TrailOf(r, row[r], Of(r, audit))

Reports(m, e) == m.res = e.res /\ m.version = e.after.version /\ m.topic = e.after.status

\* The change of a status, by a command: what an event is for.
Announced(e) == e.actor # "operator" /\ e.before.status # e.after.status

\* "The reservation, audit entries, outbox events ... commit together"
\* (README.md, Holds): a reservation's events are its changes of status by
\* commands, one each, and in that order.
EventsFollow ==
  /\ \A m \in outbox : \E e \in audit : Announced(e) /\ Reports(m, e)
  /\ \A e \in audit : Announced(e) => \E m \in outbox : Reports(m, e)
  /\ \A m, n \in outbox : m.res = n.res => (m.version < n.version <=> m.id < n.id)

\* A confirm token exists only for a hold: what confirms, cancels or expires the
\* reservation voids it.
TokenNeedsHold == \A r \in Res : row[r] # NoRow /\ row[r].token # NoToken => row[r].status = "held"

\* A receipt names the audit entry of its own change, although others commit
\* between the update and the read of the id.
ReceiptTrue ==
  \A p \in Procs : receipt[p] # NoReceipt =>
    \E e \in log[p] :
      /\ e.id = receipt[p].audit /\ e.res = receipt[p].res
      /\ e.after.status = receipt[p].status /\ e.after.version = receipt[p].version

\* A transaction that commits a change.
Commits(p) == pc[p] # "idle" /\ pc'[p] = "idle" /\ audit' # audit

\* A command that states the version it has seen commits only if the row it
\* replaces still has that version: of two such commands one fails.
VersionRespected ==
  [][\A p \in Procs :
       (Commits(p) /\ cmd[p].op \in RowOps \ {"update"} /\ cmd[p].expected # Unknown)
       => row[cmd[p].res].version = cmd[p].expected]_vars

\* A token confirms once, and only if no later one replaced it, no matter when
\* the confirmation began.
TokenRespected ==
  [][\A p \in Procs :
       (Commits(p) /\ cmd[p].op = "confirm" /\ cmd[p].token # NoToken)
       => /\ row[cmd[p].res].token = cmd[p].token
          /\ \A r \in Res : row'[r] # NoRow => row'[r].token # cmd[p].token]_vars

-----------------------------------------------------------------------------
(* The inductive invariant. *)

Exclusion == \A p, q \in Procs : p # q => locks[p] \cap locks[q] = {}

\* Where a transaction is: it updates rows it has locked, and none twice.
Placed(p) ==
  /\ pc[p] \in {"idle", "begun"} =>
       /\ cmd[p] = NoCmd /\ locks[p] = {} /\ todo[p] = {} /\ work[p] = {} /\ owed[p] = {}
       /\ draft[p] = NoDraft /\ log[p] = {} /\ mail[p] = {} /\ receipt[p] = NoReceipt
  /\ pc[p] \notin {"idle", "begun"} => cmd[p] \in Commands
  /\ pc[p] = "lock" => draft[p] = NoDraft
  /\ pc[p] \in {"booked", "commit"} => work[p] = {}
  /\ pc[p] = "booked" => cmd[p].op = "hold"
  /\ pc[p] = "commit" => owed[p] = {}
  /\ work[p] \subseteq locks[p]
  /\ \A r \in todo[p] \cup work[p] : row[r] # NoRow
  /\ \A r \in work[p] : draft[p][r] = NoRow
  /\ cmd[p].op \in RowOps =>
       /\ todo[p] \cup work[p] \subseteq {cmd[p].res}
       /\ pc[p] = "write" => cmd[p].res \in work[p] \/ draft[p][cmd[p].res] # NoRow

\* A pending row is the next version of a locked row that met the command's terms.
Fits(p, r, w) ==
  LET c == cmd[p] IN
  /\ r \in locks[p]
  /\ w.version = IF row[r] = NoRow THEN 1 ELSE row[r].version + 1
  /\ w.token # NoToken => w.status = "held"
  /\ c.op = "mint" => w.status = row[r].status
  /\ c.op \notin {"mint", "update"} => w.status # row[r].status
  /\ c.op = "confirm" => w.status = "confirmed"
  /\ c.op \in RowOps => /\ r = c.res /\ row[r] # NoRow
                        /\ VersionMatches(c, row[r]) /\ TokenMatches(c, row[r])
Drafted(p) == \A r \in Res : draft[p][r] # NoRow => Fits(p, r, draft[p][r])

\* It has logged each pending row once, and after all that was logged of it before.
Logged(p) ==
  /\ \A e \in log[p] :
       /\ draft[p][e.res] # NoRow
       /\ e.before = Shown(row[e.res]) /\ e.after = Shown(draft[p][e.res])
       /\ e.actor = "operator" <=> cmd[p].op = "update"
       /\ \A f \in log[p] : f.res = e.res => f = e
       /\ \A f \in audit : f.res = e.res => f.id < e.id
  /\ \A r \in Res : draft[p][r] # NoRow => \E e \in log[p] : e.res = r

\* It owes or has enqueued one event for each pending row that needs one.
Mailed(p) ==
  /\ \A m \in mail[p] :
       /\ draft[p][m.res] # NoRow /\ m.res \notin owed[p]
       /\ m.version = draft[p][m.res].version /\ m.topic = draft[p][m.res].status
       /\ cmd[p].op \notin {"mint", "update"}
       /\ \A n \in mail[p] : n.res = m.res => n = m
       /\ \A n \in outbox : n.res = m.res => n.id < m.id
  /\ \A r \in owed[p] : draft[p][r] # NoRow /\ cmd[p].op \notin {"mint", "update"}
  /\ cmd[p].op \notin {"mint", "update"} =>
       \A r \in Res : draft[p][r] # NoRow => r \in owed[p] \/ \E m \in mail[p] : m.res = r

\* A token is one reservation's, and was minted.
Bears(r, t) ==
  \/ row[r] # NoRow /\ row[r].token = t
  \/ \E p \in Procs : draft[p][r] # NoRow /\ draft[p][r].token = t
TokensApart ==
  \A t \in Tokens, r \in Res : Bears(r, t) =>
    t \in minted /\ \A q \in Res : Bears(q, t) => q = r

\* Every transaction's pending rows, entries and events extend the committed
\* ones, and what is committed is complete.
Inductive ==
  /\ TypeOK /\ Exclusion /\ TokensApart
  /\ \A p \in Procs : Placed(p) /\ Drafted(p) /\ Logged(p) /\ Mailed(p)
  /\ AuditReplays /\ EventsFollow /\ TokenNeedsHold /\ ReceiptTrue
=============================================================================
