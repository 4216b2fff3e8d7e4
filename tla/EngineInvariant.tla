-------------------------- MODULE EngineInvariant --------------------------
(***************************************************************************)
(* The inductive invariant of Engine: which locks a transaction holds at   *)
(* each statement, what its pending rows are, and what the triggers judged *)
(* that its locks keep true until it commits.  MCEngine checks it on small *)
(* instances; EngineProofs proves it and derives the rest from it.         *)
(***************************************************************************)
EXTENDS Engine

RowOps == {"confirm", "seat", "complete", "cancel"}

-----------------------------------------------------------------------------
(* Where a command can be, and the locks it holds there. *)

Placed(p) ==
  LET op == cmd[p].op IN
  /\ (pc[p] = "idle") <=> (cmd[p] = NoCmd)
  /\ pc[p] \in {"idle", "begun"} =>
       venue[p] = "none" /\ unitLocks[p] = {} /\ rowLocks[p] = {}
  /\ pc[p] = "venue" => op \in {"hold", "confirm"} \cup ConfigOps
  /\ pc[p] = "units" => op \in {"hold", "confirm", "unit", "combo"}
  /\ pc[p] = "read" => op = "hold"
  /\ pc[p] \in {"rows", "write"} => op # "sweep"
  /\ pc[p] \in {"judge", "config", "apply"} => op \in ConfigOps

HoldLocks(p) ==
  cmd[p].op = "hold" =>
    /\ pc[p] \in {"units", "read", "rows", "write", "commit"} => venue[p] = "S"
    /\ pc[p] \in {"read", "rows", "write", "commit"} => Members(cmd[p].asg) \subseteq unitLocks[p]
    /\ pc[p] = "rows" => Overlapping(p) \subseteq rowLocks[p] \cup todo[p]
    /\ pc[p] = "write" => Overlapping(p) \subseteq rowLocks[p]

ConfirmLocks(p) ==
  cmd[p].op = "confirm" =>
    /\ pc[p] \in {"units", "rows", "write", "commit"} => venue[p] = "S"
    /\ pc[p] \in {"venue", "units", "rows", "write", "commit"} => res[cmd[p].res] # NoRow
    /\ pc[p] \in {"rows", "write", "commit"} =>
         Members(res[cmd[p].res].asg) \subseteq unitLocks[p]

MoveLocks(p) ==
  cmd[p].op \in RowOps =>
    /\ pc[p] \in {"venue", "units", "rows"} => todo[p] = {cmd[p].res}
    /\ pc[p] \in {"write", "commit"} => cmd[p].res \in rowLocks[p]

ConfigLocks(p) ==
  LET c == cmd[p] IN
  c.op \in ConfigOps =>
    /\ pc[p] \in {"judge", "rows", "write"} => ~c.sql /\ venue[p] = "X"
    /\ pc[p] = "config" => c.sql \/ venue[p] = "X"
    /\ (pc[p] = "venue" /\ c.sql) => c.op = "blackout" /\ ConfigRow(c) \in rowLocks[p]
    /\ pc[p] \in {"units", "apply", "commit"} => ConfigRow(c) \in rowLocks[p]
    /\ pc[p] \in {"apply", "commit"} =>
         /\ Wanted(p) \subseteq unitLocks[p]
         /\ c.op = "blackout" => venue[p] = "X"

-----------------------------------------------------------------------------
(* The pending rows, and the judgements they were written on. *)

HoldDraft(p) ==
  LET c == cmd[p] IN
  \E E \in SUBSET (rowLocks[p] \cap Res) :
    /\ \A e \in E : Dead(res[e], now[p])
    /\ \/ draft[p] = Pending(E, "expired")
       \/ /\ Usable(c.asg) /\ Fits(c.asg, c.party) /\ ~Blackedout(c.during)
          /\ \A q \in Res \ E : ~Clashes(res[q], c.asg, c.during)
          /\ \E r \in rowLocks[p] \cap Res :
               /\ res[r] = NoRow
               /\ draft[p] = [Pending(E, "expired") EXCEPT ![r] = NewRow(p)]

MoveDraft(p) ==
  /\ MayMove(p, res[cmd[p].res])
  /\ draft[p] = Pending({cmd[p].res}, Into[cmd[p].op])

SweepDraft(p) ==
  \E S \in SUBSET (rowLocks[p] \cap Res) :
    /\ \A r \in S : Dead(res[r], now[p])
    /\ draft[p] = Pending(S, "expired")

ConfigDraft(p) ==
  \E C \in SUBSET (rowLocks[p] \cap Res) :
    /\ \A r \in C : Live(res[r], now[p])
    /\ draft[p] = Pending(C, "cancelled")

Drafted(p) ==
  LET op == cmd[p].op IN
  /\ (pc[p] # "commit" /\ op \notin ConfigOps) => draft[p] = NoDraft
  /\ op \in ConfigOps => ConfigDraft(p)
  /\ pc[p] = "commit" =>
       /\ op = "hold" => HoldDraft(p)
       /\ op \in RowOps => MoveDraft(p)
       /\ op = "sweep" => SweepDraft(p)
       /\ op \in ConfigOps => Stranded(p, View(p)) = {}

-----------------------------------------------------------------------------

Local(p) ==
  /\ now[p] <= clock
  /\ Placed(p) /\ HoldLocks(p) /\ ConfirmLocks(p) /\ MoveLocks(p) /\ ConfigLocks(p)
  /\ Drafted(p)

\* Locks exclude: a venue lock in mode X everyone else, a unit or a row lock
\* every other holder.
Exclusion ==
  \A p, q \in Procs : p # q =>
    /\ venue[p] = "X" => venue[q] = "none"
    /\ unitLocks[p] \cap unitLocks[q] = {}
    /\ rowLocks[p] \cap rowLocks[q] = {}

\* Every transaction holds the locks its statement needs, its pending rows are
\* legal successors of the committed ones, and what its triggers judged is
\* still true when it commits, whatever other transactions committed meanwhile.
Inductive == TypeOK /\ Exclusion /\ \A p \in Procs : Local(p)

-----------------------------------------------------------------------------
(* The order of the locks. *)

\* The units that a command may come to lock.
Whole(p) == IF cmd[p].op = "confirm" THEN Members(res[cmd[p].res].asg) ELSE Members(cmd[p].asg)

\* Every command takes the venue lock first, and its units and rows in the order
\* of their ids.  An admin write, alone in its venue, takes the reservations it
\* cancels before its own row and its units.
InOrder(p) ==
  LET locks == rowLocks[p] op == cmd[p].op IN
  /\ pc[p] = "venue" => venue[p] = "none" /\ unitLocks[p] = {} /\ locks = {}
  /\ pc[p] \in {"read", "judge"} => locks = {}
  /\ pc[p] \in {"rows", "write", "config"} => locks \subseteq Res
  /\ pc[p] = "rows" => \A r \in locks, s \in todo[p] : r < s
  /\ (pc[p] \in {"judge", "rows", "write", "config"} /\ op \notin {"hold", "confirm"}) =>
        unitLocks[p] = {}
  /\ (pc[p] = "config" /\ locks # {}) => venue[p] = "X"
  /\ pc[p] = "units" =>
        /\ \A u \in unitLocks[p], v \in Whole(p) \ unitLocks[p] : u < v
        /\ op \in {"hold", "confirm"} => locks = {}
        /\ locks \cap Res # {} => venue[p] = "X"

\* The queue for the venue lock: whoever waits, behind those who waited before.
InQueue(p) ==
  /\ pc[p] # "venue" => ahead[p] = {}
  /\ p \notin ahead[p]
  /\ \A q \in ahead[p] : pc[q] = "venue" /\ ahead[q] \subseteq ahead[p]

Ordered ==
  (\A c \in Commands : c.op = "blackout" => ~c.sql) => \A p \in Procs : InOrder(p) /\ InQueue(p)
=============================================================================
