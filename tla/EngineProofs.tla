---------------------------- MODULE EngineProofs ----------------------------
(***************************************************************************)
(* The concurrent engine implements the abstract database, for every set   *)
(* of connections, commands, units, combinations, blackouts and rows.      *)
(*                                                                         *)
(* The argument: a step that does not commit changes nothing but the state *)
(* of its own process (Frame), so the others' part of the invariant stands;*)
(* a commit changes only rows it has locked, adds bookings only on units   *)
(* it has locked, and narrows the configuration only under locks that no   *)
(* one who judged it can hold (CommitEffect), so what the others judged is *)
(* still true (Stable).  That no circle of waits forms is the order in     *)
(* which locks are taken (Ordered, NoCircle).                              *)
(***************************************************************************)
EXTENDS EngineInvariant, TLAPS, FiniteSetTheorems

-----------------------------------------------------------------------------
(* Lemmas about commands, assignments and rows. *)

LEMMA CommandFields ==
  ASSUME NEW c \in Commands \cup {NoCmd}
  PROVE  /\ c.op \in {"none", "hold", "sweep"} \cup RowOps \cup ConfigOps
         /\ c.op = "none" <=> c = NoCmd
         /\ c.op = "hold" => c.asg \in Assignments /\ c.party \in Parties /\ c.during \in Ranges
         /\ c.op \in RowOps => c.res \in Res
         /\ c.op = "unit" => c.asg \in Units /\ c.capacity \in Capacities
         /\ c.op = "combo" => c.asg \in Combos
         /\ c.op \in {"unit", "combo"} => c.asg \in Assignments
         /\ c.op = "blackout" => c.blackout \in Blackouts
         /\ c.op \in ConfigOps => c.active \in BOOLEAN /\ c.sql \in BOOLEAN
<1>1. CASE c = NoCmd
  BY <1>1 DEF NoCmd, RowOps, ConfigOps
<1>2. CASE c \in HoldCmd
  BY <1>2 DEF HoldCmd, NoCmd, RowOps, ConfigOps
<1>3. CASE c \in RowCmd
  BY <1>3 DEF RowCmd, NoCmd, RowOps, ConfigOps
<1>4. CASE c \in SweepCmd
  BY <1>4 DEF SweepCmd, NoCmd, RowOps, ConfigOps
<1>5. CASE c \in UnitCmd
  BY <1>5 DEF UnitCmd, NoCmd, RowOps, ConfigOps, Assignments
<1>6. CASE c \in ComboCmd
  BY <1>6 DEF ComboCmd, NoCmd, RowOps, ConfigOps, Assignments
<1>7. CASE c \in BlackoutCmd
  BY <1>7 DEF BlackoutCmd, NoCmd, RowOps, ConfigOps
<1> QED
  BY <1>1, <1>2, <1>3, <1>4, <1>5, <1>6, <1>7, EngineAssumption DEF ConfigCmd

LEMMA NoCommand == NoCmd \notin Commands
BY EngineAssumption
   DEF NoCmd, HoldCmd, RowCmd, SweepCmd, ConfigCmd, UnitCmd, ComboCmd, BlackoutCmd

LEMMA MembersOf ==
  ASSUME NEW a \in Assignments
  PROVE  Members(a) \subseteq Units /\ Members(a) # {}
BY RulesAssumption DEF Members, Assignments

LEMMA RowCases ==
  ASSUME TypeOK, NEW r \in Res
  PROVE  /\ res[r] # NoRow => res[r] \in Row
         /\ res[r].status \in Statuses => res[r] \in Row
         /\ res[r] = NoRow <=> res[r].status = "free"
BY DEF TypeOK, NoRow, Row, Statuses

LEMMA NoRowIsNothing ==
  ASSUME NEW a, NEW d, NEW t
  PROVE  ~Occupies(NoRow) /\ ~Clashes(NoRow, a, d) /\ ~Live(NoRow, t) /\ ~Dead(NoRow, t)
BY DEF NoRow, Occupies, OccupyingStatuses, LiveStatuses, Clashes, Live, EffectiveStatus, Dead

LEMMA PendingType ==
  ASSUME TypeOK, NEW S \in SUBSET Res, NEW s \in Statuses, \A r \in S : res[r] \in Row
  PROVE  Pending(S, s) \in [Res -> Row \cup {NoRow}]
<1> SUFFICES ASSUME NEW r \in S PROVE WithStatus(res[r], s) \in Row
  BY DEF Pending
<1> QED BY DEF WithStatus, Row

-----------------------------------------------------------------------------
(* Types. *)

LEMMA GotoType ==
  ASSUME TypeOK, NEW p \in Procs, NEW l \in PCs, Goto(p, l)
  PROVE  /\ pc' \in [Procs -> PCs] /\ ahead' \in [Procs -> SUBSET Procs]
         /\ pc'[p] = l /\ \A q \in Procs \ {p} : pc'[q] = pc[q]
BY DEF Goto, TypeOK

LEMMA ReleaseType ==
  ASSUME TypeOK, NEW p \in Procs, Release(p)
  PROVE  /\ pc' \in [Procs -> PCs] /\ ahead' \in [Procs -> SUBSET Procs]
         /\ cmd' \in [Procs -> Commands \cup {NoCmd}] /\ now' \in [Procs -> 0..MaxClock]
         /\ venue' \in [Procs -> {"none", "S", "X"}] /\ unitLocks' \in [Procs -> SUBSET Units]
         /\ rowLocks' \in [Procs -> SUBSET LockIds] /\ todo' \in [Procs -> SUBSET Res]
         /\ draft' \in [Procs -> [Res -> Row \cup {NoRow}]]
<1>1. "idle" \in PCs /\ 0 \in 0..MaxClock /\ NoDraft \in [Res -> Row \cup {NoRow}]
  BY EngineAssumption DEF PCs, NoDraft
<1> QED BY <1>1, GotoType DEF Release, TypeOK

LEMMA ViewType ==
  ASSUME TypeOK, NEW p \in Procs
  PROVE  View(p) \in [Res -> Row \cup {NoRow}]
BY DEF View, TypeOK

LEMMA CommitType ==
  ASSUME TypeOK, NEW p \in Procs, Commit(p)
  PROVE  TypeOK'
<1> DEFINE c == cmd[p]
<1>1. c \in Commands \cup {NoCmd}
  BY DEF TypeOK
<1>2. res' \in [Res -> Row \cup {NoRow}]
  BY ViewType DEF Commit
<1>3. capacity' \in [Assignments -> Capacities]
  BY <1>1, CommandFields DEF Commit, TypeOK
<1>4. active' \in [Assignments -> BOOLEAN]
  BY <1>1, CommandFields DEF Commit, TypeOK, ConfigOps
<1>5. closed' \in [Blackouts -> {"absent", "inactive", "active"}]
  BY <1>1, CommandFields DEF Commit, TypeOK
<1>6. clock' \in 0..MaxClock
  BY DEF Commit, TypeOK
<1>7. Release(p)
  BY DEF Commit
<1> QED BY <1>2, <1>3, <1>4, <1>5, <1>6, <1>7, ReleaseType DEF TypeOK

\* Every step keeps the types; the invariant says which command a pc belongs to.
LEMMA TypeStep == Inductive /\ [Next]_vars => TypeOK'
<1> SUFFICES ASSUME TypeOK, \A p \in Procs : Placed(p), [Next]_vars PROVE TypeOK'
  BY DEF Inductive, Local
<1>1. CASE Tick
  BY <1>1, EngineAssumption DEF Tick, TypeOK
<1>2. CASE UNCHANGED vars
  BY <1>2 DEF vars, TypeOK
<1>3. ASSUME NEW p \in Procs, Begin(p) \/ Step(p) \/ Abort(p) PROVE TypeOK'
  <2> DEFINE c == cmd[p]
  <2>0. /\ Placed(p) /\ c \in Commands \cup {NoCmd} /\ pc[p] \in PCs
        /\ todo[p] \in SUBSET Res /\ rowLocks[p] \in SUBSET LockIds
    BY DEF TypeOK
  <2> USE DEF PCs
  <2>1. CASE Begin(p)
    BY <2>1, GotoType DEF Begin, TypeOK, tables
  <2>2. CASE Abort(p)
    BY <2>2, ReleaseType DEF Abort, Rollback, TypeOK, tables
  <2>3. CASE Commit(p)
    BY <2>3, CommitType
  <2>4. CASE LockVenue(p)
    BY <2>4, GotoType DEF LockVenue, VenueMode, TypeOK, tables
  <2>5. CASE LockUnit(p)
    BY <2>5, GotoType DEF LockUnit, TypeOK, tables
  <2>6. CASE LockRow(p)
    BY <2>6, GotoType DEF LockRow, TypeOK, tables, LockIds
  <2>7. CASE ResolveHold(p)
    BY <2>7, GotoType, ReleaseType DEF ResolveHold, Rollback, TypeOK, tables
  <2>8. CASE ReadOverlap(p)
    BY <2>8, GotoType DEF ReadOverlap, Overlapping, TypeOK, tables
  <2>9. CASE BookHold(p)
    <3>1. c.op = "hold" /\ InTheWay(p) \in SUBSET Res /\ \A r \in InTheWay(p) : res[r] \in Row
      BY <2>9, RowCases DEF BookHold, At, InTheWay, Dead, Statuses
    <3>2. Pending(InTheWay(p), "expired") \in [Res -> Row \cup {NoRow}]
      BY <3>1, PendingType DEF Statuses
    <3>3. NewRow(p) \in Row
      BY <2>0, <3>1, CommandFields, EngineAssumption DEF NewRow, Row, Statuses, TypeOK
    <3> QED BY <2>9, <3>2, <3>3, GotoType DEF BookHold, TypeOK, tables, LockIds
  <2>10. CASE RefuseHold(p)
    <3>1. InTheWay(p) \in SUBSET Res /\ \A r \in InTheWay(p) : res[r] \in Row
      BY RowCases DEF InTheWay, Dead, Statuses
    <3>2. Pending(InTheWay(p), "expired") \in [Res -> Row \cup {NoRow}]
      BY <3>1, PendingType DEF Statuses
    <3> QED BY <2>10, <3>2, GotoType DEF RefuseHold, TypeOK, tables
  <2>11. CASE FailHold(p)
    BY <2>11, ReleaseType DEF FailHold, Rollback, TypeOK, tables
  <2>12. CASE FindRow(p)
    <3>1. c.res \in Res
      BY <2>0, <2>12, CommandFields DEF FindRow, At, RowOps
    <3>2. CASE Rollback(p)
      BY <3>2, ReleaseType DEF Rollback, TypeOK, tables
    <3>3. CASE ~Rollback(p)
      <4>1. /\ todo' = [todo EXCEPT ![p] = {c.res}]
            /\ Goto(p, IF c.op = "confirm" THEN "venue" ELSE "rows")
            /\ UNCHANGED <<tables, cmd, now, venue, unitLocks, rowLocks, draft>>
        BY <2>12, <3>3 DEF FindRow
      <4>2. (IF c.op = "confirm" THEN "venue" ELSE "rows") \in PCs
        BY DEF PCs
      <4>3. pc' \in [Procs -> PCs] /\ ahead' \in [Procs -> SUBSET Procs]
        BY <4>1, <4>2, GotoType
      <4> QED BY <3>1, <4>1, <4>3 DEF TypeOK, tables
    <3> QED BY <3>2, <3>3
  <2>13. CASE WriteRow(p)
    <3>1. c.op \in RowOps /\ c.res \in Res
      BY <2>0, <2>13, CommandFields DEF WriteRow, At, RowOps
    <3>2. ASSUME MayMove(p, res[c.res]) PROVE Pending({c.res}, Into[c.op]) \in [Res -> Row \cup {NoRow}]
      <4>1. res[c.res] \in Row
        BY <3>1, <3>2, RowCases DEF MayMove, MayConfirm, From, RowOps, LiveStatuses, Statuses
      <4>2. Into[c.op] \in Statuses
        BY <3>1 DEF Into, RowOps, Statuses
      <4> QED BY <3>1, <4>1, <4>2, PendingType
    <3>3. CASE Rollback(p)
      BY <3>3, ReleaseType DEF Rollback, TypeOK, tables
    <3>4. CASE ~Rollback(p)
      <4>1. /\ MayMove(p, res[c.res])
            /\ draft' = [draft EXCEPT ![p] = Pending({c.res}, Into[c.op])]
            /\ Goto(p, "commit")
            /\ UNCHANGED <<tables, cmd, now, venue, unitLocks, rowLocks, todo>>
        BY <2>13, <3>4 DEF WriteRow
      <4>2. pc' \in [Procs -> PCs] /\ ahead' \in [Procs -> SUBSET Procs]
        BY <4>1, GotoType DEF PCs
      <4> QED BY <3>2, <4>1, <4>2 DEF TypeOK, tables
    <3> QED BY <3>3, <3>4
  <2>14. CASE Sweep(p)
    <3>1. PICK S \in SUBSET {r \in Res : Dead(res[r], now[p]) /\ RowFree(p, r)} :
            /\ rowLocks' = [rowLocks EXCEPT ![p] = S]
            /\ draft' = [draft EXCEPT ![p] = Pending(S, "expired")]
      BY <2>14 DEF Sweep
    <3>2. Pending(S, "expired") \in [Res -> Row \cup {NoRow}]
      BY <3>1, PendingType, RowCases DEF Dead, Statuses
    <3> QED BY <2>14, <3>1, <3>2, GotoType DEF Sweep, TypeOK, tables, LockIds
  <2>15. CASE BeginConfig(p)
    BY <2>15, GotoType DEF BeginConfig, TypeOK, tables
  <2>16. CASE Judge(p)
    <3>1. CASE Rollback(p)
      BY <3>1, ReleaseType DEF Rollback, TypeOK, tables
    <3>2. Stranded(p, res) \in SUBSET Res
      BY DEF Stranded
    <3>3. CASE ~Rollback(p)
      <4>1. PICK l \in PCs : Goto(p, l)
        BY <2>16, <3>3 DEF Judge, PCs
      <4>2. /\ todo' \in {todo, [todo EXCEPT ![p] = Stranded(p, res)]}
            /\ UNCHANGED <<tables, cmd, now, venue, unitLocks, rowLocks, draft>>
        BY <2>16, <3>3 DEF Judge
      <4>3. pc' \in [Procs -> PCs] /\ ahead' \in [Procs -> SUBSET Procs]
        BY <4>1, GotoType
      <4> QED BY <3>2, <4>2, <4>3 DEF TypeOK, tables
    <3> QED BY <3>1, <3>3
  <2>17. CASE ForceCancel(p)
    <3> DEFINE C == {r \in rowLocks[p] \cap Res : Live(res[r], now[p])}
    <3>1. \A r \in C : res[r] \in Row
      BY RowCases DEF Live, EffectiveStatus, LiveStatuses, Statuses
    <3>2. Pending(C, "cancelled") \in [Res -> Row \cup {NoRow}]
      BY <3>1, PendingType DEF Statuses
    <3> QED BY <2>17, <3>2, GotoType DEF ForceCancel, TypeOK, tables
  <2>18. CASE LockConfigRow(p)
    <3>1. ConfigRow(c) \in LockIds
      BY <2>0, <2>18, CommandFields DEF LockConfigRow, Placed, ConfigOps, ConfigRow, LockIds
    <3> QED BY <2>18, <3>1, GotoType DEF LockConfigRow, TypeOK, tables
  <2>19. CASE Apply(p)
    BY <2>19, GotoType, ReleaseType DEF Apply, Rollback, TypeOK, tables
  <2> QED
    BY <1>3, <2>1, <2>2, <2>3, <2>4, <2>5, <2>6, <2>7, <2>8, <2>9, <2>10, <2>11, <2>12, <2>13,
       <2>14, <2>15, <2>16, <2>17, <2>18, <2>19 DEF Step
<1> QED BY <1>1, <1>2, <1>3 DEF Next

-----------------------------------------------------------------------------
(* Frame: a step of p leaves the others' state alone, and their part of the *)
(* invariant with it as long as the tables stay.                            *)

Same(q) ==
  /\ pc'[q] = pc[q] /\ cmd'[q] = cmd[q] /\ now'[q] = now[q] /\ venue'[q] = venue[q]
  /\ unitLocks'[q] = unitLocks[q] /\ rowLocks'[q] = rowLocks[q]
  /\ todo'[q] = todo[q] /\ draft'[q] = draft[q]

LEMMA OthersSame ==
  ASSUME TypeOK, NEW p \in Procs, NEW q \in Procs \ {p}, Begin(p) \/ Step(p) \/ Abort(p)
  PROVE  Same(q)
<1> USE DEF Same, TypeOK, Goto
<1>1. CASE Release(p)
  BY <1>1 DEF Release
<1>2. CASE Begin(p)
  BY <1>2 DEF Begin
<1>3. CASE LockVenue(p) \/ LockUnit(p) \/ LockRow(p) \/ BeginConfig(p) \/ LockConfigRow(p)
  BY <1>3 DEF LockVenue, LockUnit, LockRow, BeginConfig, LockConfigRow
<1>4. CASE ResolveHold(p) \/ ReadOverlap(p) \/ BookHold(p) \/ RefuseHold(p) \/ FailHold(p)
  BY <1>1, <1>4 DEF ResolveHold, ReadOverlap, BookHold, RefuseHold, FailHold, Rollback
<1>5. CASE FindRow(p) \/ WriteRow(p) \/ Sweep(p)
  BY <1>1, <1>5 DEF FindRow, WriteRow, Sweep, Rollback
<1>6. CASE Judge(p) \/ ForceCancel(p) \/ Apply(p)
  BY <1>1, <1>6 DEF Judge, ForceCancel, Apply, Rollback
<1>7. CASE Abort(p) \/ Commit(p)
  BY <1>1, <1>7 DEF Abort, Commit, Rollback
<1> QED BY <1>2, <1>3, <1>4, <1>5, <1>6, <1>7 DEF Step

LEMMA Frame ==
  ASSUME NEW q \in Procs, Same(q), UNCHANGED <<res, capacity, active, closed>>,
         now[q] <= clock => now[q] <= clock', Local(q)
  PROVE  Local(q)'
<1> USE DEF Same, Local
<1>1. Placed(q)'
  BY DEF Placed
<1>2. HoldLocks(q)'
  BY DEF HoldLocks, Overlapping
<1>3. ConfirmLocks(q)' /\ MoveLocks(q)'
  BY DEF ConfirmLocks, MoveLocks
<1>4. ConfigLocks(q)'
  BY DEF ConfigLocks, Wanted, Resizing, Deactivating
<1>5. HoldDraft(q) => HoldDraft(q)'
  <2>1. \A E : Pending(E, "expired")' = Pending(E, "expired")
    BY DEF Pending
  <2>2. NewRow(q)' = NewRow(q)
    BY DEF NewRow
  <2>3. /\ Usable(cmd[q].asg)' = Usable(cmd[q].asg)
        /\ Fits(cmd[q].asg, cmd[q].party)' = Fits(cmd[q].asg, cmd[q].party)
        /\ Blackedout(cmd[q].during)' = Blackedout(cmd[q].during)
    BY DEF Usable, Fits, Blackedout
  <2> QED BY <2>1, <2>2, <2>3 DEF HoldDraft
<1>6. MoveDraft(q) => MoveDraft(q)'
  BY DEF MoveDraft, MayMove, MayConfirm, Pending, Usable, Fits, Blackedout
<1>7. SweepDraft(q) => SweepDraft(q)'
  BY DEF SweepDraft, Pending
<1>8. ConfigDraft(q) => ConfigDraft(q)'
  BY DEF ConfigDraft, Pending
<1>9. Stranded(q, View(q)) = {} => Stranded(q, View(q))' = {}
  BY DEF Stranded, View, Strands, Resizing, Deactivating, Closing
<1> QED BY <1>1, <1>2, <1>3, <1>4, <1>5, <1>6, <1>7, <1>8, <1>9 DEF Drafted

-----------------------------------------------------------------------------
(* A step that does not commit keeps its own part of the invariant.        *)

\* The tables and the transaction's command and start do not change.
Continues(p) ==
  /\ UNCHANGED <<clock, res, capacity, active, closed>>
  /\ cmd'[p] = cmd[p] /\ now'[p] = now[p]

LEMMA SameJudgements ==
  ASSUME NEW p \in Procs, Continues(p)
  PROVE  /\ Wanted(p)' = Wanted(p) /\ Overlapping(p)' = Overlapping(p)
         /\ NewRow(p)' = NewRow(p)
         /\ \A S, s : Pending(S, s)' = Pending(S, s)
         /\ Usable(cmd[p].asg)' = Usable(cmd[p].asg)
         /\ Fits(cmd[p].asg, cmd[p].party)' = Fits(cmd[p].asg, cmd[p].party)
         /\ Blackedout(cmd[p].during)' = Blackedout(cmd[p].during)
         /\ MayMove(p, res[cmd[p].res])' = MayMove(p, res[cmd[p].res])
<1> USE DEF Continues
<1>1. Wanted(p)' = Wanted(p)
  BY DEF Wanted, Resizing, Deactivating
<1>2. Overlapping(p)' = Overlapping(p)
  BY DEF Overlapping
<1>3. NewRow(p)' = NewRow(p)
  BY DEF NewRow
<1>4. \A S, s : Pending(S, s)' = Pending(S, s)
  BY DEF Pending
<1>5. MayMove(p, res[cmd[p].res])' = MayMove(p, res[cmd[p].res])
  BY DEF MayMove, MayConfirm, Usable, Fits, Blackedout
<1> QED BY <1>1, <1>2, <1>3, <1>4, <1>5 DEF Usable, Fits, Blackedout

LEMMA DraftKept ==
  ASSUME NEW p \in Procs, Continues(p), rowLocks[p] \subseteq rowLocks'[p],
         draft'[p] = draft[p], Drafted(p), pc[p] # "commit", pc'[p] # "commit"
  PROVE  Drafted(p)'
<1>1. cmd[p].op \in ConfigOps => ConfigDraft(p)'
  BY SameJudgements DEF Drafted, ConfigDraft, Continues
<1> QED BY <1>1 DEF Drafted, Continues

LEMMA FreshLocal ==
  ASSUME TypeOK, NEW p \in Procs, Release(p), UNCHANGED clock
  PROVE  /\ Local(p)' /\ venue'[p] = "none" /\ unitLocks'[p] = {} /\ rowLocks'[p] = {}
<1>1. /\ pc'[p] = "idle" /\ cmd'[p] = NoCmd /\ now'[p] = 0 /\ venue'[p] = "none"
      /\ unitLocks'[p] = {} /\ rowLocks'[p] = {} /\ todo'[p] = {} /\ draft'[p] = NoDraft
  BY DEF Release, Goto, TypeOK
<1>2. NoCmd.op = "none"
  BY DEF NoCmd
<1>3. now'[p] <= clock'
  BY <1>1, EngineAssumption DEF TypeOK
<1> QED
  BY <1>1, <1>2, <1>3
     DEF Local, Placed, HoldLocks, ConfirmLocks, MoveLocks, ConfigLocks, Drafted, RowOps, ConfigOps

LEMMA BeginLocal ==
  ASSUME Inductive, NEW p \in Procs, Begin(p)
  PROVE  Local(p)'
<1>1. /\ pc'[p] = "begun" /\ cmd'[p] \in Commands /\ now'[p] = clock /\ clock' = clock
      /\ UNCHANGED <<venue, unitLocks, rowLocks, todo, draft>>
  BY DEF Begin, Goto, Inductive, TypeOK, tables
<1>2. cmd'[p] # NoCmd
  BY <1>1, EngineAssumption, NoCommand
<1>3. venue[p] = "none" /\ unitLocks[p] = {} /\ rowLocks[p] = {} /\ draft[p] = NoDraft
  BY DEF Begin, Inductive, Local, Placed, Drafted, NoCmd, ConfigOps
<1>4. ConfigDraft(p)'
  <2>1. draft'[p] = Pending({}, "cancelled")'
    BY <1>1, <1>3 DEF Pending, NoDraft
  <2> QED BY <2>1 DEF ConfigDraft
<1>5. now'[p] <= clock'
  BY <1>1, EngineAssumption DEF Inductive, TypeOK
<1> QED
  BY <1>1, <1>2, <1>3, <1>4, <1>5
     DEF Local, Placed, HoldLocks, ConfirmLocks, MoveLocks, ConfigLocks, Drafted

\* What the step of p that waits for or takes a lock, or that only reads, leaves.
LEMMA LockVenueLocal ==
  ASSUME Inductive, NEW p \in Procs, LockVenue(p)
  PROVE  Local(p)'
<1> USE DEF Local
<1>1. /\ Local(p) /\ Continues(p) /\ pc[p] = "venue" /\ venue'[p] = VenueMode(p)
      /\ pc'[p] = IF cmd[p].op \notin ConfigOps THEN "units"
                  ELSE IF cmd[p].sql THEN "apply" ELSE "judge"
      /\ UNCHANGED <<unitLocks, rowLocks, todo, draft>>
  BY DEF LockVenue, Goto, Inductive, TypeOK, tables, Continues
<1>2. Placed(p)'
  BY <1>1 DEF Placed, ConfigOps, Continues
<1>3. HoldLocks(p)' /\ ConfirmLocks(p)' /\ MoveLocks(p)'
  BY <1>1 DEF HoldLocks, ConfirmLocks, MoveLocks, Continues, VenueMode, ConfigOps, RowOps, Placed
<1>4. ConfigLocks(p)'
  <2>1. cmd[p].op = "blackout" => Wanted(p)' = {}
    BY <1>1, SameJudgements DEF Wanted
  <2> QED BY <1>1, <2>1 DEF ConfigLocks, Continues, VenueMode, ConfigOps
<1>5. Drafted(p)'
  BY <1>1, DraftKept
<1> QED BY <1>1, <1>2, <1>3, <1>4, <1>5 DEF Continues

LEMMA LockUnitLocal ==
  ASSUME Inductive, NEW p \in Procs, LockUnit(p)
  PROVE  Local(p)'
<1> USE DEF Local
<1>1. PICK u \in Units :
        /\ unitLocks' = [unitLocks EXCEPT ![p] = @ \cup {u}]
        /\ Goto(p, IF Wanted(p) \subseteq unitLocks[p] \cup {u}
                   THEN CASE cmd[p].op = "hold" -> "read"
                          [] cmd[p].op = "confirm" -> "rows"
                          [] OTHER -> "apply"
                   ELSE "units")
  BY DEF LockUnit
<1>2. /\ Local(p) /\ Continues(p) /\ pc[p] = "units" /\ unitLocks'[p] = unitLocks[p] \cup {u}
      /\ UNCHANGED <<venue, rowLocks, todo, draft>>
  BY <1>1 DEF LockUnit, Inductive, TypeOK, tables, Continues
<1>3. \/ pc'[p] = "units"
      \/ /\ Wanted(p) \subseteq unitLocks'[p]
         /\ \/ cmd[p].op = "hold" /\ pc'[p] = "read"
            \/ cmd[p].op = "confirm" /\ pc'[p] = "rows"
            \/ cmd[p].op \in {"unit", "combo"} /\ pc'[p] = "apply"
  BY <1>1, <1>2 DEF Goto, Placed, Inductive, TypeOK
<1>4. Placed(p)'
  BY <1>2, <1>3 DEF Placed, ConfigOps, Continues
<1>5. HoldLocks(p)' /\ ConfirmLocks(p)' /\ MoveLocks(p)'
  BY <1>2, <1>3 DEF HoldLocks, ConfirmLocks, MoveLocks, Continues, Wanted, RowOps
<1>6. ConfigLocks(p)'
  BY <1>2, <1>3, SameJudgements DEF ConfigLocks, Continues, ConfigOps
<1>7. Drafted(p)'
  BY <1>2, <1>3, DraftKept
<1> QED BY <1>2, <1>4, <1>5, <1>6, <1>7 DEF Continues

LEMMA LockRowLocal ==
  ASSUME Inductive, NEW p \in Procs, LockRow(p)
  PROVE  Local(p)'
<1> USE DEF Local
<1>1. PICK r \in Res :
        /\ r \in todo[p]
        /\ rowLocks' = [rowLocks EXCEPT ![p] = @ \cup {r}]
        /\ todo' = [todo EXCEPT ![p] = @ \ {r}]
        /\ Goto(p, IF todo[p] = {r} THEN "write" ELSE "rows")
  BY DEF LockRow, Least
<1>2. /\ Local(p) /\ Continues(p) /\ pc[p] = "rows" /\ rowLocks'[p] = rowLocks[p] \cup {r}
      /\ todo'[p] = todo[p] \ {r} /\ UNCHANGED <<venue, unitLocks, draft>>
  BY <1>1 DEF LockRow, Inductive, TypeOK, tables, Continues
<1>3. \/ pc'[p] = "rows" /\ todo[p] # {r}
      \/ pc'[p] = "write" /\ todo[p] = {r}
  BY <1>1 DEF Goto, Inductive, TypeOK
<1>4. Placed(p)'
  BY <1>2, <1>3 DEF Placed, Continues
<1>5. HoldLocks(p)'
  BY <1>2, <1>3, SameJudgements DEF HoldLocks, Continues
<1>6. ConfirmLocks(p)' /\ MoveLocks(p)'
  BY <1>1, <1>2, <1>3 DEF ConfirmLocks, MoveLocks, Continues, RowOps
<1>7. ConfigLocks(p)'
  BY <1>2, <1>3 DEF ConfigLocks, Continues
<1>8. Drafted(p)'
  BY <1>2, <1>3, DraftKept
<1> QED BY <1>2, <1>4, <1>5, <1>6, <1>7, <1>8 DEF Continues

LEMMA ReadLocal ==
  ASSUME Inductive, NEW p \in Procs,
         ResolveHold(p) \/ ReadOverlap(p) \/ FindRow(p) \/ BeginConfig(p), ~Rollback(p)
  PROVE  Local(p)'
<1> USE DEF Local
<1>1. /\ Local(p) /\ Continues(p) /\ UNCHANGED <<venue, unitLocks, rowLocks, draft>>
      /\ pc[p] \in {"begun", "read"}
  BY DEF ResolveHold, ReadOverlap, FindRow, BeginConfig, At, Inductive, tables, Continues
<1>2. cmd[p] # NoCmd
  BY <1>1 DEF Placed
<1>3. CASE ResolveHold(p)
  <2>1. pc'[p] = "venue" /\ cmd[p].op = "hold"
    BY <1>3 DEF ResolveHold, At, Goto, Inductive, TypeOK
  <2>2. Drafted(p)'
    BY <1>1, <2>1, DraftKept
  <2> QED
    BY <1>1, <1>2, <2>1, <2>2
       DEF Placed, HoldLocks, ConfirmLocks, MoveLocks, ConfigLocks, Continues, RowOps, ConfigOps
<1>4. CASE ReadOverlap(p)
  <2>1. /\ pc[p] = "read" /\ todo'[p] = Overlapping(p)
        /\ pc'[p] = IF Overlapping(p) = {} THEN "write" ELSE "rows"
    BY <1>4 DEF ReadOverlap, Goto, Inductive, TypeOK
  <2>2. cmd[p].op = "hold"
    BY <1>1, <2>1 DEF Placed
  <2>3. Drafted(p)'
    BY <1>1, <2>1, DraftKept
  <2>4. HoldLocks(p)'
    BY <1>1, <2>1, <2>2, SameJudgements DEF HoldLocks, Continues
  <2> QED
    BY <1>1, <1>2, <2>1, <2>2, <2>3, <2>4
       DEF Placed, ConfirmLocks, MoveLocks, ConfigLocks, Continues, RowOps, ConfigOps
<1>5. CASE FindRow(p)
  <2>1. /\ pc[p] = "begun" /\ cmd[p].op \in RowOps /\ res[cmd[p].res] # NoRow
        /\ todo'[p] = {cmd[p].res}
        /\ pc'[p] = IF cmd[p].op = "confirm" THEN "venue" ELSE "rows"
    BY <1>5 DEF FindRow, At, Goto, Inductive, TypeOK, RowOps
  <2>2. Drafted(p)'
    BY <1>1, <2>1, DraftKept
  <2> QED
    BY <1>1, <1>2, <2>1, <2>2
       DEF Placed, HoldLocks, ConfirmLocks, MoveLocks, ConfigLocks, Continues, RowOps, ConfigOps
<1>6. CASE BeginConfig(p)
  <2>1. /\ pc[p] = "begun" /\ cmd[p].op \in ConfigOps
        /\ pc'[p] = IF cmd[p].sql THEN "config" ELSE "venue"
    BY <1>6 DEF BeginConfig, At, Goto, Inductive, TypeOK
  <2>2. Drafted(p)'
    BY <1>1, <2>1, DraftKept
  <2> QED
    BY <1>1, <1>2, <2>1, <2>2
       DEF Placed, HoldLocks, ConfirmLocks, MoveLocks, ConfigLocks, Continues, RowOps, ConfigOps
<1> QED BY <1>3, <1>4, <1>5, <1>6

\* The statements that write pending rows.
LEMMA BookHoldLocal ==
  ASSUME Inductive, NEW p \in Procs, BookHold(p)
  PROVE  Local(p)'
<1> USE DEF Local
<1>1. PICK r \in Res :
        /\ res[r] = NoRow
        /\ draft' = [draft EXCEPT ![p] = [Pending(InTheWay(p), "expired") EXCEPT ![r] = NewRow(p)]]
        /\ rowLocks' = [rowLocks EXCEPT ![p] = @ \cup {r}]
  BY DEF BookHold
<1>2. PICK E \in SUBSET (rowLocks[p] \cap Res) : E = InTheWay(p)
  BY DEF InTheWay
<1>3. /\ Local(p) /\ Continues(p) /\ pc[p] = "write" /\ cmd[p].op = "hold" /\ pc'[p] = "commit"
      /\ draft'[p] = [Pending(E, "expired") EXCEPT ![r] = NewRow(p)]
      /\ rowLocks'[p] = rowLocks[p] \cup {r} /\ UNCHANGED <<venue, unitLocks, todo>>
  BY <1>1, <1>2 DEF BookHold, At, Goto, Inductive, TypeOK, tables, Continues
<1>4. HoldDraft(p)'
  <2>1. /\ E \in SUBSET (rowLocks'[p] \cap Res) /\ r \in rowLocks'[p] \cap Res
        /\ res'[r] = NoRow /\ \A e \in E : Dead(res'[e], now'[p])
    BY <1>1, <1>2, <1>3 DEF InTheWay, Continues
  <2>2. draft'[p] = [Pending(E, "expired")' EXCEPT ![r] = NewRow(p)']
    BY <1>3, SameJudgements
  <2>3. /\ Usable(cmd[p].asg)' /\ Fits(cmd[p].asg, cmd[p].party)' /\ ~Blackedout(cmd[p].during)'
    BY <1>3, SameJudgements DEF BookHold
  <2>4. \A q \in Res \ E : ~Clashes(res'[q], cmd'[p].asg, cmd'[p].during)
    BY <1>2, <1>3 DEF BookHold, Conflict, Continues
  <2> QED BY <2>1, <2>2, <2>3, <2>4 DEF HoldDraft
<1> QED
  BY <1>3, <1>4
     DEF Placed, HoldLocks, ConfirmLocks, MoveLocks, ConfigLocks, Drafted, Continues, RowOps, ConfigOps,
         NoCmd

LEMMA RefuseHoldLocal ==
  ASSUME Inductive, NEW p \in Procs, RefuseHold(p)
  PROVE  Local(p)'
<1> USE DEF Local
<1>1. PICK E \in SUBSET (rowLocks[p] \cap Res) : E = InTheWay(p)
  BY DEF InTheWay
<1>2. /\ Local(p) /\ Continues(p) /\ pc[p] = "write" /\ cmd[p].op = "hold" /\ pc'[p] = "commit"
      /\ draft'[p] = Pending(E, "expired")
      /\ UNCHANGED <<venue, unitLocks, rowLocks, todo>>
  BY <1>1 DEF RefuseHold, At, Goto, Inductive, TypeOK, tables, Continues
<1>3. HoldDraft(p)'
  <2>1. E \in SUBSET (rowLocks'[p] \cap Res) /\ \A e \in E : Dead(res'[e], now'[p])
    BY <1>1, <1>2 DEF InTheWay, Continues
  <2>2. draft'[p] = Pending(E, "expired")'
    BY <1>2, SameJudgements
  <2> QED BY <2>1, <2>2 DEF HoldDraft
<1> QED
  BY <1>2, <1>3
     DEF Placed, HoldLocks, ConfirmLocks, MoveLocks, ConfigLocks, Drafted, Continues, RowOps, ConfigOps,
         NoCmd

LEMMA WriteRowLocal ==
  ASSUME Inductive, NEW p \in Procs, WriteRow(p), ~Rollback(p)
  PROVE  Local(p)'
<1> USE DEF Local
<1>1. /\ Local(p) /\ Continues(p) /\ pc[p] = "write" /\ cmd[p].op \in RowOps /\ pc'[p] = "commit"
      /\ MayMove(p, res[cmd[p].res])
      /\ draft'[p] = Pending({cmd[p].res}, Into[cmd[p].op])
      /\ UNCHANGED <<venue, unitLocks, rowLocks, todo>>
  BY DEF WriteRow, At, Goto, Inductive, TypeOK, tables, Continues, RowOps
<1>2. MoveDraft(p)'
  <2>1. MayMove(p, res[cmd[p].res])'
    BY <1>1, SameJudgements
  <2>2. draft'[p] = Pending({cmd[p].res}, Into[cmd[p].op])'
    BY <1>1, SameJudgements DEF Continues, Pending, Into
  <2> QED BY <2>1, <2>2 DEF MoveDraft
<1> QED
  BY <1>1, <1>2
     DEF Placed, HoldLocks, ConfirmLocks, MoveLocks, ConfigLocks, Drafted, Continues, RowOps, ConfigOps,
         NoCmd

LEMMA SweepLocal ==
  ASSUME Inductive, NEW p \in Procs, Sweep(p)
  PROVE  Local(p)'
<1> USE DEF Local
<1>1. PICK S \in SUBSET {r \in Res : Dead(res[r], now[p]) /\ RowFree(p, r)} :
        /\ rowLocks' = [rowLocks EXCEPT ![p] = S]
        /\ draft' = [draft EXCEPT ![p] = Pending(S, "expired")]
  BY DEF Sweep
<1>2. /\ Local(p) /\ Continues(p) /\ cmd[p].op = "sweep" /\ pc'[p] = "commit" /\ pc[p] = "begun"
      /\ draft'[p] = Pending(S, "expired") /\ rowLocks'[p] = S
      /\ UNCHANGED <<venue, unitLocks, todo>>
  BY <1>1 DEF Sweep, At, Goto, Inductive, TypeOK, tables, Continues
<1>3. SweepDraft(p)'
  <2>1. draft'[p] = Pending(S, "expired")'
    BY <1>2, SameJudgements
  <2> QED BY <1>2, <2>1 DEF SweepDraft, Continues
<1> QED
  BY <1>2, <1>3
     DEF Placed, HoldLocks, ConfirmLocks, MoveLocks, ConfigLocks, Drafted, Continues, RowOps, ConfigOps,
         NoCmd

\* The statements of a configuration write.
LEMMA JudgeLocal ==
  ASSUME Inductive, NEW p \in Procs, Judge(p), ~Rollback(p)
  PROVE  Local(p)'
<1> USE DEF Local
<1>1. /\ Local(p) /\ Continues(p) /\ pc[p] = "judge" /\ pc'[p] \in {"config", "rows"}
      /\ UNCHANGED <<venue, unitLocks, rowLocks, draft>>
  BY DEF Judge, Goto, Inductive, TypeOK, tables, Continues
<1>2. cmd[p].op \in ConfigOps /\ ~cmd[p].sql /\ venue[p] = "X"
  BY <1>1 DEF Placed, ConfigLocks
<1>3. Drafted(p)'
  BY <1>1, DraftKept
<1> QED
  BY <1>1, <1>2, <1>3
     DEF Placed, HoldLocks, ConfirmLocks, MoveLocks, ConfigLocks, Continues, RowOps, ConfigOps

LEMMA ForceCancelLocal ==
  ASSUME Inductive, NEW p \in Procs, ForceCancel(p)
  PROVE  Local(p)'
<1> USE DEF Local
<1>1. PICK C \in SUBSET (rowLocks[p] \cap Res) :
        C = {r \in rowLocks[p] \cap Res : Live(res[r], now[p])}
  OBVIOUS
<1>2. /\ Local(p) /\ Continues(p) /\ pc[p] = "write" /\ cmd[p].op \in ConfigOps /\ pc'[p] = "config"
      /\ draft'[p] = Pending(C, "cancelled") /\ UNCHANGED <<venue, unitLocks, rowLocks, todo>>
  BY <1>1 DEF ForceCancel, At, Goto, Inductive, TypeOK, tables, Continues
<1>3. ConfigDraft(p)'
  <2>1. C \in SUBSET (rowLocks'[p] \cap Res) /\ \A r \in C : Live(res'[r], now'[p])
    BY <1>1, <1>2 DEF Continues
  <2>2. draft'[p] = Pending(C, "cancelled")'
    BY <1>2, SameJudgements
  <2> QED BY <2>1, <2>2 DEF ConfigDraft
<1> QED
  BY <1>2, <1>3
     DEF Placed, HoldLocks, ConfirmLocks, MoveLocks, ConfigLocks, Drafted, Continues, RowOps, ConfigOps

LEMMA LockConfigRowLocal ==
  ASSUME Inductive, NEW p \in Procs, LockConfigRow(p)
  PROVE  Local(p)'
<1> USE DEF Local
<1>1. /\ Local(p) /\ Continues(p) /\ pc[p] = "config"
      /\ rowLocks'[p] = rowLocks[p] \cup {ConfigRow(cmd[p])}
      /\ pc'[p] = IF cmd[p].op = "blackout" /\ cmd[p].sql THEN "venue"
                  ELSE IF Wanted(p) # {} THEN "units" ELSE "apply"
      /\ UNCHANGED <<venue, unitLocks, draft>>
  BY DEF LockConfigRow, Goto, Inductive, TypeOK, tables, Continues
<1>2. cmd[p].op \in ConfigOps /\ (cmd[p].sql \/ venue[p] = "X")
  BY <1>1 DEF Placed, ConfigLocks
<1>3. cmd[p].op = "blackout" => Wanted(p) = {}
  BY DEF Wanted
<1>4. ConfigRow(cmd[p])' = ConfigRow(cmd[p])
  BY <1>1 DEF ConfigRow, Continues
<1>5. Placed(p)'
  BY <1>1, <1>2, <1>3 DEF Placed, Continues, ConfigOps
<1>6. ConfigLocks(p)'
  BY <1>1, <1>2, <1>3, <1>4, SameJudgements DEF ConfigLocks, Continues
<1>7. Drafted(p)'
  BY <1>1, DraftKept
<1> QED
  BY <1>1, <1>2, <1>5, <1>6, <1>7 DEF HoldLocks, ConfirmLocks, MoveLocks, Continues, RowOps, ConfigOps

LEMMA ApplyLocal ==
  ASSUME Inductive, NEW p \in Procs, Apply(p), ~Rollback(p)
  PROVE  Local(p)'
<1> USE DEF Local
<1>1. /\ Local(p) /\ Continues(p) /\ pc[p] = "apply" /\ pc'[p] = "commit"
      /\ Stranded(p, View(p)) = {}
      /\ UNCHANGED <<venue, unitLocks, rowLocks, todo, draft>>
  BY DEF Apply, Goto, Inductive, TypeOK, tables, Continues
<1>2. cmd[p].op \in ConfigOps /\ ConfigDraft(p)
  BY <1>1 DEF Placed, Drafted
<1>3. ConfigDraft(p)'
  BY <1>1, <1>2, SameJudgements DEF ConfigDraft, Continues
<1>4. Stranded(p, View(p))' = {}
  BY <1>1 DEF Stranded, View, Strands, Resizing, Deactivating, Closing, Continues
<1>5. ConfigLocks(p)'
  BY <1>1, SameJudgements DEF ConfigLocks, Continues, ConfigRow
<1> QED
  BY <1>1, <1>2, <1>3, <1>4, <1>5
     DEF Placed, HoldLocks, ConfirmLocks, MoveLocks, Drafted, Continues, RowOps, ConfigOps, NoCmd

-----------------------------------------------------------------------------
(* Locks exclude.                                                          *)

\* A process that ends up with no lock, or with the locks it had.
LEMMA NoNewLock ==
  ASSUME Inductive, NEW p \in Procs, \A q \in Procs \ {p} : Same(q),
         \/ venue'[p] = "none" /\ unitLocks'[p] = {} /\ rowLocks'[p] = {}
         \/ UNCHANGED <<venue, unitLocks, rowLocks>>
  PROVE  Exclusion'
BY DEF Inductive, Exclusion, Same

LEMMA ExclusionStep ==
  ASSUME Inductive, NEW p \in Procs, Begin(p) \/ Step(p) \/ Abort(p)
  PROVE  Exclusion'
<1>1. TypeOK /\ Exclusion /\ \A q \in Procs \ {p} : Same(q)
  BY OthersSame DEF Inductive
<1>2. CASE Release(p)
  <2>1. venue'[p] = "none" /\ unitLocks'[p] = {} /\ rowLocks'[p] = {}
    BY <1>1, <1>2 DEF Release, TypeOK
  <2> QED BY <1>1, <2>1, NoNewLock
<1>3. CASE /\ UNCHANGED <<venue, unitLocks, rowLocks>>
  BY <1>1, <1>3, NoNewLock
<1>4. CASE LockVenue(p)
  <2>1. /\ venue'[p] = VenueMode(p) /\ UNCHANGED <<unitLocks, rowLocks>>
        /\ \A q \in Procs \ {p} : ~Blocks(p, q)
    BY <1>1, <1>4 DEF LockVenue, VenueFree, TypeOK
  <2>2. \A q \in Procs \ {p} : venue[q] # "X" /\ (VenueMode(p) = "X" => venue[q] = "none")
    BY <1>1, <2>1 DEF Blocks, TypeOK
  <2>3. VenueMode(p) \in {"S", "X"}
    BY DEF VenueMode
  <2> QED BY <1>1, <2>1, <2>2, <2>3 DEF Exclusion, Same, TypeOK
<1>5. CASE LockUnit(p)
  <2>1. PICK u \in Units : UnitFree(p, u) /\ unitLocks'[p] = unitLocks[p] \cup {u}
    BY <1>1, <1>5 DEF LockUnit, TypeOK
  <2> QED BY <1>1, <1>5, <2>1 DEF Exclusion, Same, UnitFree, LockUnit
<1>6. ASSUME NEW R, rowLocks'[p] = rowLocks[p] \cup R \/ rowLocks'[p] = R,
             \A r \in R : RowFree(p, r), UNCHANGED <<venue, unitLocks>>
      PROVE Exclusion'
  BY <1>1, <1>6 DEF Exclusion, Same, RowFree
<1>7. CASE LockRow(p)
  <2>1. PICK r \in Res : RowFree(p, r) /\ rowLocks'[p] = rowLocks[p] \cup {r}
    BY <1>1, <1>7 DEF LockRow, TypeOK
  <2> QED BY <1>6, <1>7, <2>1 DEF LockRow
<1>8. CASE BookHold(p)
  <2>1. PICK r \in Res : RowFree(p, r) /\ rowLocks'[p] = rowLocks[p] \cup {r}
    BY <1>1, <1>8 DEF BookHold, TypeOK
  <2> QED BY <1>6, <1>8, <2>1 DEF BookHold
<1>9. CASE Sweep(p)
  <2>1. PICK S \in SUBSET {r \in Res : Dead(res[r], now[p]) /\ RowFree(p, r)} : rowLocks'[p] = S
    BY <1>1, <1>9 DEF Sweep, TypeOK
  <2> QED BY <1>6, <1>9, <2>1 DEF Sweep
<1>10. CASE LockConfigRow(p)
  <2>1. RowFree(p, ConfigRow(cmd[p])) /\ rowLocks'[p] = rowLocks[p] \cup {ConfigRow(cmd[p])}
    BY <1>1, <1>10 DEF LockConfigRow, TypeOK
  <2>2. UNCHANGED <<venue, unitLocks>>
    BY <1>10 DEF LockConfigRow
  <2> QED BY <1>1, <2>1, <2>2 DEF Exclusion, Same, RowFree
<1>11. CASE Begin(p) \/ ResolveHold(p) \/ ReadOverlap(p) \/ RefuseHold(p) \/ FailHold(p)
  BY <1>2, <1>3, <1>11 DEF Begin, ResolveHold, ReadOverlap, RefuseHold, FailHold, Rollback
<1>12. CASE FindRow(p) \/ WriteRow(p) \/ BeginConfig(p) \/ Judge(p) \/ ForceCancel(p) \/ Apply(p)
  BY <1>2, <1>3, <1>12 DEF FindRow, WriteRow, BeginConfig, Judge, ForceCancel, Apply, Rollback
<1>13. CASE Abort(p) \/ Commit(p)
  BY <1>2, <1>13 DEF Abort, Commit, Rollback
<1> QED
  BY <1>4, <1>5, <1>7, <1>8, <1>9, <1>10, <1>11, <1>12, <1>13 DEF Step

-----------------------------------------------------------------------------
(* What a commit does to the tables.                                       *)

LEMMA PendingView ==
  ASSUME TypeOK, NEW p \in Procs, NEW S \in SUBSET Res, NEW s \in Statuses,
         \A r \in S : res[r] \in Row, draft[p] = Pending(S, s)
  PROVE  View(p) = SetStatus(res, S, s)
<1> SUFFICES ASSUME NEW r \in Res
             PROVE  (IF draft[p][r] = NoRow THEN res[r] ELSE draft[p][r])
                      = (IF r \in S THEN WithStatus(res[r], s) ELSE res[r])
  BY DEF View, SetStatus
<1>1. CASE r \in S
  <2>1. draft[p][r] = WithStatus(res[r], s)
    BY <1>1 DEF Pending
  <2>2. WithStatus(res[r], s).status = s
    BY <1>1 DEF WithStatus, Row
  <2>3. WithStatus(res[r], s) # NoRow
    BY <2>2 DEF NoRow, Statuses
  <2> QED BY <1>1, <2>1, <2>3
<1>2. CASE r \notin S
  BY <1>2 DEF Pending
<1> QED BY <1>1, <1>2

LEMMA BookView ==
  ASSUME TypeOK, NEW p \in Procs, NEW E \in SUBSET Res, \A e \in E : res[e] \in Row,
         NEW r \in Res, draft[p] = [Pending(E, "expired") EXCEPT ![r] = NewRow(p)]
  PROVE  View(p) = [SetStatus(res, E, "expired") EXCEPT ![r] = NewRow(p)]
<1>1. NewRow(p) # NoRow
  <2>1. NewRow(p).status = "held" /\ NoRow.status = "free"
    BY DEF NewRow, NoRow
  <2> QED BY <2>1
<1> SUFFICES ASSUME NEW q \in Res
             PROVE  (IF draft[p][q] = NoRow THEN res[q] ELSE draft[p][q])
                      = (IF q = r THEN NewRow(p)
                         ELSE IF q \in E THEN WithStatus(res[q], "expired") ELSE res[q])
  BY DEF View, SetStatus
<1>2. CASE q = r
  BY <1>1, <1>2 DEF Pending
<1>3. CASE q # r /\ q \in E
  <2>1. draft[p][q] = WithStatus(res[q], "expired")
    BY <1>3 DEF Pending
  <2>2. WithStatus(res[q], "expired").status = "expired"
    BY <1>3 DEF WithStatus, Row
  <2>3. WithStatus(res[q], "expired") # NoRow
    BY <2>2 DEF NoRow
  <2> QED BY <1>3, <2>1, <2>3
<1>4. CASE q # r /\ q \notin E
  BY <1>4 DEF Pending
<1> QED BY <1>2, <1>3, <1>4

\* The kinds of commit, each with what the invariant knows of it.
BookCommit(p, E, r) ==
  LET c == cmd[p] IN
  /\ c.op = "hold" /\ venue[p] = "S" /\ Members(c.asg) \subseteq unitLocks[p]
  /\ \A e \in E : Dead(res[e], now[p]) /\ res[e] \in Row
  /\ Usable(c.asg) /\ Fits(c.asg, c.party) /\ ~Blackedout(c.during)
  /\ \A q \in Res \ E : ~Clashes(res[q], c.asg, c.during)
  /\ res[r] = NoRow
  /\ res' = [SetStatus(res, E, "expired") EXCEPT ![r] = NewRow(p)]
  /\ UNCHANGED <<clock, capacity, active, closed>>

ExpireCommit(p, E) ==
  /\ \A e \in E : Dead(res[e], now[p]) /\ res[e] \in Row
  /\ res' = SetStatus(res, E, "expired")
  /\ UNCHANGED <<clock, capacity, active, closed>>

MoveCommit(p, r) ==
  LET op == cmd[p].op IN
  /\ op \in RowOps /\ r = cmd[p].res /\ res[r] \in Row
  /\ op = "confirm" => venue[p] = "S" /\ Members(res[r].asg) \subseteq unitLocks[p]
  /\ MayMove(p, res[r])
  /\ res' = SetStatus(res, {r}, Into[op])
  /\ UNCHANGED <<clock, capacity, active, closed>>

ConfigCommit(p, C) ==
  LET c == cmd[p] IN
  /\ c.op \in ConfigOps
  /\ \A r \in C : Live(res[r], now[p]) /\ res[r] \in Row
  /\ res' = SetStatus(res, C, "cancelled")
  /\ View(p) = res' /\ Stranded(p, View(p)) = {}
  /\ ConfigRow(c) \in rowLocks[p] /\ Wanted(p) \subseteq unitLocks[p]
  /\ c.op = "blackout" => venue[p] = "X"
  /\ clock' = clock
  /\ capacity' = IF c.op = "unit" THEN [capacity EXCEPT ![c.asg] = c.capacity] ELSE capacity
  /\ active' = IF c.op \in {"unit", "combo"} THEN [active EXCEPT ![c.asg] = c.active] ELSE active
  /\ closed' = IF c.op = "blackout"
                 THEN [closed EXCEPT ![c.blackout] = IF c.active THEN "active" ELSE "inactive"]
                 ELSE closed

LEMMA CommitShape ==
  ASSUME Inductive, NEW p \in Procs, Commit(p)
  PROVE  \E S \in SUBSET (rowLocks[p] \cap Res) :
           \/ ExpireCommit(p, S) \/ ConfigCommit(p, S)
           \/ \E r \in rowLocks[p] \cap Res : BookCommit(p, S, r) \/ MoveCommit(p, r)
<1>1. /\ TypeOK /\ Local(p) /\ pc[p] = "commit" /\ res' = View(p) /\ clock' = clock
      /\ cmd[p] \in Commands \cup {NoCmd} /\ cmd[p] # NoCmd
  BY DEF Commit, Inductive, TypeOK, Local, Placed
<1>2. cmd[p].op \in ConfigOps \/ UNCHANGED <<capacity, active, closed>>
  BY DEF Commit, ConfigOps
<1>3. CASE cmd[p].op = "hold"
  <2>1. HoldDraft(p) /\ venue[p] = "S" /\ Members(cmd[p].asg) \subseteq unitLocks[p]
    BY <1>1, <1>3 DEF Local, Drafted, HoldLocks
  <2>2. PICK E \in SUBSET (rowLocks[p] \cap Res) :
          /\ \A e \in E : Dead(res[e], now[p])
          /\ \/ draft[p] = Pending(E, "expired")
             \/ /\ Usable(cmd[p].asg) /\ Fits(cmd[p].asg, cmd[p].party)
                /\ ~Blackedout(cmd[p].during)
                /\ \A q \in Res \ E : ~Clashes(res[q], cmd[p].asg, cmd[p].during)
                /\ \E r \in rowLocks[p] \cap Res :
                     /\ res[r] = NoRow
                     /\ draft[p] = [Pending(E, "expired") EXCEPT ![r] = NewRow(p)]
    BY <2>1 DEF HoldDraft
  <2>3. \A e \in E : res[e] \in Row
    BY <1>1, <2>2, RowCases DEF Dead, Statuses
  <2>4. CASE draft[p] = Pending(E, "expired")
    <3>1. res' = SetStatus(res, E, "expired")
      BY <1>1, <2>3, <2>4, PendingView DEF Statuses
    <3> QED BY <1>1, <1>2, <1>3, <2>2, <2>3, <3>1 DEF ExpireCommit, ConfigOps
  <2>5. CASE draft[p] # Pending(E, "expired")
    <3>1. PICK r \in rowLocks[p] \cap Res :
            res[r] = NoRow /\ draft[p] = [Pending(E, "expired") EXCEPT ![r] = NewRow(p)]
      BY <2>2, <2>5
    <3>2. res' = [SetStatus(res, E, "expired") EXCEPT ![r] = NewRow(p)]
      BY <1>1, <2>3, <3>1, BookView
    <3>3. BookCommit(p, E, r)
      BY <1>1, <1>2, <1>3, <2>1, <2>2, <2>3, <2>5, <3>1, <3>2 DEF BookCommit, ConfigOps
    <3> QED BY <3>3
  <2> QED BY <2>4, <2>5
<1>4. CASE cmd[p].op = "sweep"
  <2>1. PICK S \in SUBSET (rowLocks[p] \cap Res) :
          (\A r \in S : Dead(res[r], now[p])) /\ draft[p] = Pending(S, "expired")
    BY <1>1, <1>4 DEF Local, Drafted, SweepDraft
  <2>2. \A r \in S : res[r] \in Row
    BY <1>1, <2>1, RowCases DEF Dead, Statuses
  <2>3. res' = SetStatus(res, S, "expired")
    BY <1>1, <2>1, <2>2, PendingView DEF Statuses
  <2> QED BY <1>1, <1>2, <1>4, <2>1, <2>2, <2>3 DEF ExpireCommit, ConfigOps
<1>5. CASE cmd[p].op \in RowOps
  <2> DEFINE r == cmd[p].res
  <2>1. r \in rowLocks[p] \cap Res /\ MoveDraft(p)
    BY <1>1, <1>5, CommandFields DEF Local, Drafted, MoveLocks
  <2>2. MayMove(p, res[r]) /\ draft[p] = Pending({r}, Into[cmd[p].op])
    BY <2>1 DEF MoveDraft
  <2>3. res[r] \in Row
    BY <1>1, <1>5, <2>1, <2>2, RowCases DEF MayMove, MayConfirm, From, RowOps, LiveStatuses, Statuses
  <2>4. Into[cmd[p].op] \in Statuses
    BY <1>5 DEF Into, RowOps, Statuses
  <2>5. res' = SetStatus(res, {r}, Into[cmd[p].op])
    BY <1>1, <2>1, <2>2, <2>3, <2>4, PendingView
  <2>6. cmd[p].op = "confirm" => venue[p] = "S" /\ Members(res[r].asg) \subseteq unitLocks[p]
    BY <1>1 DEF Local, ConfirmLocks
  <2>7. MoveCommit(p, r)
    BY <1>1, <1>2, <1>5, <2>2, <2>3, <2>5, <2>6 DEF MoveCommit, ConfigOps, RowOps
  <2> QED BY <2>1, <2>7
<1>6. CASE cmd[p].op \in ConfigOps
  <2>1. PICK C \in SUBSET (rowLocks[p] \cap Res) :
          (\A r \in C : Live(res[r], now[p])) /\ draft[p] = Pending(C, "cancelled")
    BY <1>1, <1>6 DEF Local, Drafted, ConfigDraft
  <2>2. \A r \in C : res[r] \in Row
    BY <1>1, <2>1, RowCases DEF Live, EffectiveStatus, LiveStatuses, Statuses
  <2>3. View(p) = SetStatus(res, C, "cancelled")
    BY <1>1, <2>1, <2>2, PendingView DEF Statuses
  <2>4. /\ Stranded(p, View(p)) = {} /\ ConfigRow(cmd[p]) \in rowLocks[p]
        /\ Wanted(p) \subseteq unitLocks[p]
        /\ cmd[p].op = "blackout" => venue[p] = "X"
    BY <1>1, <1>6 DEF Local, Drafted, ConfigLocks
  <2>5. ConfigCommit(p, C)
    BY <1>1, <1>6, <2>1, <2>2, <2>3, <2>4 DEF ConfigCommit, Commit, tables
  <2> QED BY <2>5
<1> QED BY <1>1, <1>3, <1>4, <1>5, <1>6, CommandFields

\* What another transaction may assume of p's commit.
Effect(p) ==
  /\ \A r \in Res \ rowLocks[p] : res'[r] = res[r]
  /\ \A r \in Res : res[r] # NoRow =>
       res'[r] # NoRow /\ res'[r].asg = res[r].asg /\ res'[r].during = res[r].during
                      /\ res'[r].party = res[r].party
  /\ \A r \in Res, t \in Nat :
       \/ Occupies(res'[r]) /\ ~Occupies(res[r])
       \/ Live(res'[r], t) /\ ~Live(res[r], t)
       => venue[p] = "S" /\ Members(res'[r].asg) \subseteq unitLocks[p]
  /\ \A a \in Assignments :
       /\ (capacity'[a] # capacity[a] \/ active'[a] # active[a]) => a \in rowLocks[p]
       /\ (capacity'[a] # capacity[a] \/ (active[a] /\ ~active'[a])) => Members(a) \subseteq unitLocks[p]
  /\ \A b \in Blackouts : closed'[b] # closed[b] => b \in rowLocks[p] /\ venue[p] = "X"

LEMMA SetStatusRow ==
  ASSUME NEW S \in SUBSET Res, NEW s, \A e \in S : res[e] \in Row, NEW r \in Res
  PROVE  /\ r \notin S => SetStatus(res, S, s)[r] = res[r]
         /\ r \in S => /\ SetStatus(res, S, s)[r].status = s
                       /\ SetStatus(res, S, s)[r].expires = res[r].expires
         /\ SetStatus(res, S, s)[r].asg = res[r].asg
         /\ SetStatus(res, S, s)[r].party = res[r].party
         /\ SetStatus(res, S, s)[r].during = res[r].during
<1>1. CASE r \in S
  BY <1>1 DEF SetStatus, WithStatus, Row
<1>2. CASE r \notin S
  BY <1>2 DEF SetStatus
<1> QED BY <1>1, <1>2

\* Ending a row makes it neither live nor newly occupying.
LEMMA EndedRow ==
  ASSUME NEW row, NEW t, row.status \in {"cancelled", "expired"}
  PROVE  ~Live(row, t) /\ ~Occupies(row)
BY DEF Live, EffectiveStatus, Occupies, OccupyingStatuses, LiveStatuses

LEMMA SameConfigEffect ==
  ASSUME NEW p \in Procs, UNCHANGED <<capacity, active, closed>>,
         \A r \in Res \ rowLocks[p] : res'[r] = res[r],
         \A r \in Res : res[r] # NoRow =>
           res'[r] # NoRow /\ res'[r].asg = res[r].asg /\ res'[r].during = res[r].during
                          /\ res'[r].party = res[r].party,
         \A r \in Res, t \in Nat :
           \/ Occupies(res'[r]) /\ ~Occupies(res[r])
           \/ Live(res'[r], t) /\ ~Live(res[r], t)
           => venue[p] = "S" /\ Members(res'[r].asg) \subseteq unitLocks[p]
  PROVE  Effect(p)
BY DEF Effect

LEMMA EndEffect ==
  ASSUME TypeOK, NEW p \in Procs, NEW S \in SUBSET (rowLocks[p] \cap Res),
         NEW s \in {"cancelled", "expired"},
         \A r \in S : res[r] \in Row, res' = SetStatus(res, S, s)
  PROVE  /\ \A r \in Res \ rowLocks[p] : res'[r] = res[r]
         /\ \A r \in Res : res[r] # NoRow =>
              res'[r] # NoRow /\ res'[r].asg = res[r].asg /\ res'[r].during = res[r].during
                             /\ res'[r].party = res[r].party
         /\ \A r \in Res, t \in Nat :
              /\ Occupies(res'[r]) => Occupies(res[r])
              /\ Live(res'[r], t) => Live(res[r], t)
<1>1. ASSUME NEW r \in S
      PROVE  /\ res'[r].asg = res[r].asg /\ res'[r].during = res[r].during
             /\ res'[r].party = res[r].party /\ res'[r].status = s
  BY <1>1, SetStatusRow
<1>2. ASSUME NEW r \in Res \ S PROVE res'[r] = res[r]
  BY <1>2, SetStatusRow
<1>3. \A r \in S : res'[r] # NoRow
  BY <1>1 DEF NoRow
<1> QED BY <1>1, <1>2, <1>3, EndedRow

LEMMA CommitEffect ==
  ASSUME Inductive, NEW p \in Procs, Commit(p)
  PROVE  Effect(p)
<1>1. TypeOK /\ cmd[p] \in Commands \cup {NoCmd}
  BY DEF Inductive, TypeOK
<1>2. PICK S \in SUBSET (rowLocks[p] \cap Res) :
        \/ ExpireCommit(p, S) \/ ConfigCommit(p, S)
        \/ \E r \in rowLocks[p] \cap Res : BookCommit(p, S, r) \/ MoveCommit(p, r)
  BY CommitShape
<1>3. CASE ExpireCommit(p, S)
  BY <1>1, <1>3, EndEffect, SameConfigEffect DEF ExpireCommit
<1>4. ASSUME NEW r \in rowLocks[p] \cap Res, MoveCommit(p, r) PROVE Effect(p)
  <2> DEFINE s == Into[cmd[p].op]
  <2>1. /\ res[r] \in Row /\ res' = SetStatus(res, {r}, s)
        /\ s \in {"confirmed", "seated", "completed", "cancelled"} /\ UNCHANGED <<capacity, active, closed>>
        /\ s = "confirmed" <=> cmd[p].op = "confirm"
    BY <1>4 DEF MoveCommit, RowOps, Into
  <2>2. \A q \in Res \ {r} : res'[q] = res[q]
    BY <2>1, SetStatusRow
  <2>3. /\ res'[r].asg = res[r].asg /\ res'[r].during = res[r].during
        /\ res'[r].party = res[r].party /\ res'[r].status = s
    BY <2>1, SetStatusRow
  <2>4. Occupies(res'[r]) => Occupies(res[r])
    <3>1. res[r].status \in LiveStatuses
      BY <1>4 DEF MoveCommit, MayMove, MayConfirm, From, RowOps, LiveStatuses
    <3> QED BY <3>1 DEF Occupies, OccupyingStatuses
  <2>5. ASSUME NEW t \in Nat, Live(res'[r], t), ~Live(res[r], t)
        PROVE venue[p] = "S" /\ Members(res'[r].asg) \subseteq unitLocks[p]
    <3>1. s \in {"confirmed", "seated"}
      BY <2>1, <2>3, <2>5 DEF Live, EffectiveStatus, LiveStatuses
    <3>2. res[r].status # "confirmed"
      BY <2>5 DEF Live, EffectiveStatus, LiveStatuses
    <3>3. s = "seated" => res[r].status = "confirmed"
      BY <1>4 DEF MoveCommit, MayMove, From, Into, RowOps
    <3>4. cmd[p].op = "confirm"
      BY <2>1, <3>1, <3>2, <3>3
    <3> QED BY <1>4, <2>3, <3>4 DEF MoveCommit
  <2>6. res'[r] # NoRow
    BY <2>1, <2>3 DEF NoRow
  <2> HIDE DEF s
  <2> QED BY <2>1, <2>2, <2>3, <2>4, <2>5, <2>6, SameConfigEffect
<1>5. ASSUME NEW r \in rowLocks[p] \cap Res, BookCommit(p, S, r) PROVE Effect(p)
  <2>1. /\ res[r] = NoRow /\ res' = [SetStatus(res, S, "expired") EXCEPT ![r] = NewRow(p)]
        /\ UNCHANGED <<capacity, active, closed>>
        /\ venue[p] = "S" /\ Members(cmd[p].asg) \subseteq unitLocks[p]
        /\ \A e \in S : res[e] \in Row
    BY <1>5 DEF BookCommit
  <2>2. res'[r] = NewRow(p) /\ \A q \in Res \ {r} : res'[q] = SetStatus(res, S, "expired")[q]
    BY <2>1 DEF SetStatus
  <2>3. res'[r].asg = cmd[p].asg
    BY <2>2 DEF NewRow
  <2>4. ASSUME NEW q \in S \ {r}
        PROVE  /\ res'[q].asg = res[q].asg /\ res'[q].during = res[q].during
               /\ res'[q].party = res[q].party /\ res'[q].status = "expired"
    BY <2>1, <2>2, SetStatusRow
  <2>5. ASSUME NEW q \in Res \ (S \cup {r}) PROVE res'[q] = res[q]
    BY <2>1, <2>2, SetStatusRow
  <2>6. \A q \in S \ {r} : res'[q] # NoRow
    BY <2>4 DEF NoRow
  <2> QED BY <2>1, <2>3, <2>4, <2>5, <2>6, EndedRow, SameConfigEffect
<1>6. CASE ConfigCommit(p, S)
  <2> DEFINE c == cmd[p]
  <2>1. /\ \A r \in Res \ rowLocks[p] : res'[r] = res[r]
        /\ \A r \in Res : res[r] # NoRow =>
             res'[r] # NoRow /\ res'[r].asg = res[r].asg /\ res'[r].during = res[r].during
                            /\ res'[r].party = res[r].party
        /\ \A r \in Res, t \in Nat :
             /\ Occupies(res'[r]) => Occupies(res[r])
             /\ Live(res'[r], t) => Live(res[r], t)
    BY <1>1, <1>6, EndEffect DEF ConfigCommit
  <2>2. ASSUME NEW a \in Assignments, capacity'[a] # capacity[a] \/ active'[a] # active[a]
        PROVE  /\ c.op \in {"unit", "combo"} /\ a = c.asg
               /\ capacity'[a] # capacity[a] => c.op = "unit" /\ capacity'[a] = c.capacity
               /\ active'[a] = c.active
    BY <1>1, <1>6, <2>2, CommandFields DEF ConfigCommit, TypeOK
  <2>3. ASSUME NEW a \in Assignments, capacity'[a] # capacity[a] \/ active'[a] # active[a]
        PROVE  a \in rowLocks[p]
    BY <1>6, <2>2, <2>3 DEF ConfigCommit, ConfigRow
  <2>4. ASSUME NEW a \in Assignments, capacity'[a] # capacity[a] \/ (active[a] /\ ~active'[a])
        PROVE  Members(a) \subseteq unitLocks[p]
    <3>1. c.op \in {"unit", "combo"} /\ a = c.asg /\ (Resizing(c) \/ Deactivating(c))
      BY <2>2, <2>4 DEF Resizing, Deactivating
    <3>2. Wanted(p) = Members(a)
      BY <3>1 DEF Wanted
    <3> QED BY <1>6, <3>2 DEF ConfigCommit
  <2>5. ASSUME NEW b \in Blackouts, closed'[b] # closed[b]
        PROVE  b \in rowLocks[p] /\ venue[p] = "X"
    BY <1>1, <1>6, <2>5 DEF ConfigCommit, ConfigRow, TypeOK
  <2> QED BY <2>1, <2>3, <2>4, <2>5 DEF Effect
<1> QED BY <1>2, <1>3, <1>4, <1>5, <1>6

-----------------------------------------------------------------------------
(* Stability: what q judged is still true after another's commit.          *)

\* The facts of a commit of p that q's part of the invariant meets.
LEMMA Meeting ==
  ASSUME Inductive, NEW p \in Procs, NEW q \in Procs \ {p}, Commit(p)
  PROVE  /\ TypeOK /\ Local(q) /\ Same(q) /\ Effect(p) /\ clock' = clock /\ now[q] \in Nat
         /\ venue[p] = "X" => venue[q] = "none"
         /\ venue[q] = "X" => venue[p] = "none"
         /\ unitLocks[p] \cap unitLocks[q] = {} /\ rowLocks[p] \cap rowLocks[q] = {}
         /\ cmd[q] \in Commands \cup {NoCmd}
<1>1. Step(p)
  BY DEF Step
<1>2. Same(q)
  BY <1>1, OthersSame DEF Inductive
<1>3. now[q] \in Nat
  BY EngineAssumption DEF Inductive, TypeOK
<1> QED BY <1>2, <1>3, CommitEffect DEF Inductive, Exclusion, Commit, TypeOK

\* Units q has locked: their bookings only shrink, their configuration never
\* gets worse.
LEMMA LockedUnits ==
  ASSUME Inductive, NEW p \in Procs, NEW q \in Procs \ {p}, Commit(p),
         NEW a \in Assignments, Members(a) \subseteq unitLocks[q]
  PROVE  /\ \A r \in Res : \A d : Clashes(res'[r], a, d) => Clashes(res[r], a, d)
         /\ Usable(a) => Usable(a)'
         /\ \A n : Fits(a, n) => Fits(a, n)'
<1>1. Effect(p) /\ unitLocks[p] \cap unitLocks[q] = {} /\ TypeOK
  BY Meeting
<1>2. ASSUME NEW b \in Assignments, Members(b) \cap Members(a) # {}
      PROVE  ~(Members(b) \subseteq unitLocks[p])
  BY <1>1, <1>2
<1>3. ASSUME NEW r \in Res, NEW d, Clashes(res'[r], a, d) PROVE Clashes(res[r], a, d)
  <2>1. Members(res'[r].asg) \cap Members(a) # {}
    BY <1>3 DEF Clashes
  <2>2. Occupies(res[r])
    BY <1>1, <1>3, <2>1 DEF Effect, Clashes
  <2>3. res[r] # NoRow
    BY <2>2, NoRowIsNothing
  <2> QED BY <1>1, <1>3, <2>2, <2>3 DEF Effect, Clashes
<1>4. Members(a) # {} /\ \A u \in Members(a) : u \in Assignments /\ Members(u) = {u}
  BY MembersOf DEF Assignments, Members
<1>5. Usable(a) => Usable(a)'
  <2>1. active[a] => active'[a]
    BY <1>1, <1>2, <1>4 DEF Effect
  <2>2. ASSUME NEW u \in Members(a), active[u] PROVE active'[u]
    BY <1>1, <1>2, <1>4, <2>2 DEF Effect
  <2> QED BY <2>1, <2>2 DEF Usable
<1>6. capacity'[a] = capacity[a]
  BY <1>1, <1>2, <1>4 DEF Effect
<1> QED BY <1>3, <1>5, <1>6 DEF Fits

\* A blackout appears only when no one holds the venue lock.
LEMMA SharedVenue ==
  ASSUME Inductive, NEW p \in Procs, NEW q \in Procs \ {p}, Commit(p), venue[q] = "S", NEW d
  PROVE  Blackedout(d)' => Blackedout(d)
BY Meeting DEF Effect, Blackedout

\* What a configuration write is about does not change under its row lock.
LEMMA LockedConfig ==
  ASSUME Inductive, NEW p \in Procs, NEW q \in Procs \ {p}, Commit(p),
         cmd[q].op \in ConfigOps, ConfigRow(cmd[q]) \in rowLocks[q]
  PROVE  /\ Wanted(q)' = Wanted(q)
         /\ \A row : Strands(cmd[q], row)' = Strands(cmd[q], row)
<1> DEFINE c == cmd[q]
<1>1. Effect(p) /\ cmd'[q] = c /\ c \in Commands \cup {NoCmd} /\ ConfigRow(c) \notin rowLocks[p]
  BY Meeting DEF Same
<1>2. c.op \in {"unit", "combo"} => capacity'[c.asg] = capacity[c.asg] /\ active'[c.asg] = active[c.asg]
  BY <1>1, CommandFields DEF Effect, ConfigRow
<1>3. c.op = "blackout" => closed'[c.blackout] = closed[c.blackout]
  BY <1>1, CommandFields DEF Effect, ConfigRow
<1>4. Wanted(q)' = Wanted(q)
  BY <1>1, <1>2 DEF Wanted, Resizing, Deactivating, ConfigOps
<1>5. ASSUME NEW row PROVE Strands(cmd[q], row)' = Strands(cmd[q], row)
  BY <1>1, <1>2, <1>3 DEF Strands, Resizing, Deactivating, Closing
<1> QED BY <1>4, <1>5

LEMMA StableDraft ==
  ASSUME Inductive, NEW p \in Procs, NEW q \in Procs \ {p}, Commit(p)
  PROVE  Drafted(q)'
<1> DEFINE c == cmd[q]
<1>1. /\ TypeOK /\ Local(q) /\ Same(q) /\ Effect(p) /\ now[q] \in Nat /\ c \in Commands \cup {NoCmd}
      /\ rowLocks[p] \cap rowLocks[q] = {} /\ unitLocks[p] \cap unitLocks[q] = {}
      /\ venue[q] = "X" => venue[p] = "none"
  BY Meeting
<1>2. \A r \in rowLocks[q] \cap Res : res'[r] = res[r]
  BY <1>1 DEF Effect
<1>3. ASSUME NEW S \in SUBSET (rowLocks[q] \cap Res), NEW s PROVE Pending(S, s)' = Pending(S, s)
  BY <1>2 DEF Pending
<1>4. NewRow(q)' = NewRow(q)
  BY <1>1 DEF NewRow, Same
<1>5. ASSUME pc[q] = "commit", c.op = "hold" PROVE HoldDraft(q)'
  <2>1. HoldDraft(q) /\ Members(c.asg) \subseteq unitLocks[q] /\ venue[q] = "S" /\ c.asg \in Assignments
    BY <1>1, <1>5, CommandFields DEF Local, Drafted, HoldLocks
  <2>2. PICK E \in SUBSET (rowLocks[q] \cap Res) :
          /\ \A e \in E : Dead(res[e], now[q])
          /\ \/ draft[q] = Pending(E, "expired")
             \/ /\ Usable(c.asg) /\ Fits(c.asg, c.party) /\ ~Blackedout(c.during)
                /\ \A r \in Res \ E : ~Clashes(res[r], c.asg, c.during)
                /\ \E r \in rowLocks[q] \cap Res :
                     /\ res[r] = NoRow
                     /\ draft[q] = [Pending(E, "expired") EXCEPT ![r] = NewRow(q)]
    BY <2>1 DEF HoldDraft
  <2>3. E \in SUBSET (rowLocks'[q] \cap Res) /\ \A e \in E : Dead(res'[e], now'[q])
    BY <1>1, <1>2, <2>2 DEF Same
  <2>4. CASE draft[q] = Pending(E, "expired")
    <3>1. draft'[q] = Pending(E, "expired")'
      BY <1>1, <1>3, <2>4 DEF Same
    <3> QED BY <2>3, <3>1 DEF HoldDraft
  <2>5. CASE draft[q] # Pending(E, "expired")
    <3>1. /\ Usable(c.asg)' /\ Fits(c.asg, c.party)' /\ ~Blackedout(c.during)'
          /\ \A r \in Res \ E : ~Clashes(res'[r], c.asg, c.during)
      <4>1. Usable(cmd[q].asg)' = Usable(cmd[q].asg)' /\ cmd'[q] = cmd[q]
        BY <1>1 DEF Same
      <4>2. /\ active'[c.asg] /\ \A u \in Members(c.asg) : active'[u]
            /\ capacity'[c.asg].min <= c.party /\ c.party <= capacity'[c.asg].max
            /\ \A r \in Res \ E : ~Clashes(res'[r], c.asg, c.during)
        <5> DEFINE a == c.asg  n == c.party
        <5>1. PICK b \in Assignments : b = c.asg
          BY <2>1
        <5>2. PICK m : m = c.party
          OBVIOUS
        <5>3. /\ Usable(b)' /\ Fits(b, m)'
              /\ \A r \in Res : \A d : Clashes(res'[r], b, d) => Clashes(res[r], b, d)
          BY <2>1, <2>2, <2>5, <5>1, <5>2, LockedUnits
        <5> QED BY <2>2, <2>5, <5>1, <5>2, <5>3 DEF Usable, Fits
      <4>3. ~\E b \in Blackouts : closed'[b] = "active" /\ Overlaps(BlackoutRange[b], c.during)
        <5>1. PICK d : d = c.during
          OBVIOUS
        <5>2. ~Blackedout(d)'
          BY <2>1, <2>2, <2>5, <5>1, SharedVenue
        <5> QED BY <5>1, <5>2 DEF Blackedout
      <4> QED BY <4>1, <4>2, <4>3 DEF Usable, Fits, Blackedout
    <3>2. PICK r \in rowLocks[q] \cap Res :
            res[r] = NoRow /\ draft[q] = [Pending(E, "expired") EXCEPT ![r] = NewRow(q)]
      BY <2>2, <2>5
    <3>3. r \in rowLocks'[q] \cap Res /\ res'[r] = NoRow
      BY <1>1, <1>2, <3>2 DEF Same
    <3>4. draft'[q] = [Pending(E, "expired")' EXCEPT ![r] = NewRow(q)']
      BY <1>1, <1>3, <1>4, <3>2 DEF Same
    <3>5. \A k \in Res \ E : ~Clashes(res'[k], cmd'[q].asg, cmd'[q].during)
      BY <1>1, <3>1 DEF Same
    <3> QED BY <2>3, <3>1, <3>3, <3>4, <3>5 DEF HoldDraft
  <2> QED BY <2>4, <2>5
<1>6. ASSUME pc[q] = "commit", c.op \in RowOps PROVE MoveDraft(q)'
  <2>1. /\ MoveDraft(q) /\ c.res \in rowLocks[q] \cap Res
        /\ c.op = "confirm" => /\ venue[q] = "S" /\ res[c.res] # NoRow
                               /\ Members(res[c.res].asg) \subseteq unitLocks[q]
    BY <1>1, <1>6, CommandFields DEF Local, Drafted, MoveLocks, ConfirmLocks
  <2>2. PICK r \in rowLocks[q] \cap Res : r = c.res
    BY <2>1
  <2>3. res'[r] = res[r] /\ cmd'[q] = cmd[q] /\ now'[q] = now[q] /\ draft'[q] = draft[q]
    BY <1>1, <1>2 DEF Same
  <2>4. draft'[q] = Pending({r}, Into[c.op])'
    BY <1>3, <2>1, <2>2, <2>3 DEF MoveDraft, Pending, Into
  <2>5. CASE c.op = "confirm"
    <3>1. MayConfirm(res[r], now[q]) /\ res[r] \in Row
      BY <1>1, <2>1, <2>2, <2>5, RowCases DEF MoveDraft, MayMove
    <3>2. PICK b \in Assignments, n \in Parties, d \in Ranges : b = res[r].asg /\ n = res[r].party /\ d = res[r].during
      BY <3>1 DEF Row
    <3>3. Usable(b)' /\ Fits(b, n)' /\ ~Blackedout(d)'
      BY <2>1, <2>2, <2>5, <3>1, <3>2, LockedUnits, SharedVenue DEF MayConfirm
    <3>4. MayConfirm(res[r], now[q])'
      BY <2>3, <3>1, <3>2, <3>3 DEF MayConfirm, Usable, Fits, Blackedout
    <3> QED BY <2>2, <2>3, <2>4, <2>5, <3>4 DEF MoveDraft, MayMove, Pending, Into, MayConfirm, Usable, Fits, Blackedout
  <2>6. CASE c.op # "confirm"
    <3>1. MayMove(q, res[c.res])'
      BY <2>1, <2>2, <2>3, <2>6 DEF MoveDraft, MayMove, From
    <3> QED BY <2>2, <2>3, <2>4, <3>1 DEF MoveDraft, Pending, Into
  <2> QED BY <2>5, <2>6
<1>7. ASSUME pc[q] = "commit", c.op = "sweep" PROVE SweepDraft(q)'
  <2>1. PICK S \in SUBSET (rowLocks[q] \cap Res) :
          (\A r \in S : Dead(res[r], now[q])) /\ draft[q] = Pending(S, "expired")
    BY <1>1, <1>7 DEF Local, Drafted, SweepDraft
  <2>2. draft'[q] = Pending(S, "expired")' /\ \A r \in S : Dead(res'[r], now'[q])
    BY <1>1, <1>2, <1>3, <2>1 DEF Same
  <2> QED BY <1>1, <2>2 DEF SweepDraft, Same
<1>8. ASSUME c.op \in ConfigOps PROVE ConfigDraft(q)'
  <2>1. PICK C \in SUBSET (rowLocks[q] \cap Res) :
          (\A r \in C : Live(res[r], now[q])) /\ draft[q] = Pending(C, "cancelled")
    BY <1>1, <1>8 DEF Local, Drafted, ConfigDraft
  <2>2. draft'[q] = Pending(C, "cancelled")' /\ \A r \in C : Live(res'[r], now'[q])
    BY <1>1, <1>2, <1>3, <2>1 DEF Same
  <2> QED BY <1>1, <2>2 DEF ConfigDraft, Same
<1>9. ASSUME pc[q] = "commit", c.op \in ConfigOps PROVE Stranded(q, View(q))' = {}
  <2>1. /\ Stranded(q, View(q)) = {} /\ ConfigRow(c) \in rowLocks[q]
        /\ Wanted(q) \subseteq unitLocks[q] /\ ConfigDraft(q)
        /\ (c.op = "blackout" => venue[q] = "X")
    BY <1>1, <1>9 DEF Local, Drafted, ConfigLocks
  <2> SUFFICES ASSUME NEW r \in Res, Live(View(q)'[r], now'[q]), Strands(cmd[q], View(q)[r])'
               PROVE  FALSE
    BY DEF Stranded
  <2>2. View(q)'[r] = (IF draft[q][r] = NoRow THEN res'[r] ELSE draft[q][r]) /\ now'[q] = now[q]
    BY <1>1 DEF View, Same
  <2>3. Strands(cmd[q], View(q)'[r])
    <3>1. PICK row : row = View(q)'[r]
      OBVIOUS
    <3>2. Strands(cmd[q], row)'
      BY <1>1, <3>1 DEF Strands, Resizing, Deactivating, Closing, Same
    <3>3. Strands(cmd[q], row)
      BY <1>9, <2>1, <3>2, LockedConfig
    <3> QED BY <3>1, <3>3
  <2>4. CASE draft[q][r] # NoRow
    BY <2>1, <2>2, <2>3, <2>4 DEF Stranded, View
  <2>5. CASE draft[q][r] = NoRow
    <3>1. View(q)[r] = res[r] /\ View(q)'[r] = res'[r]
      BY <2>2, <2>5 DEF View
    <3>2. CASE Live(res[r], now[q])
      <4>1. res[r] # NoRow
        BY <3>2, NoRowIsNothing
      <4>2. res'[r].asg = res[r].asg /\ res'[r].during = res[r].during /\ res'[r].party = res[r].party
        BY <1>1, <4>1 DEF Effect
      <4>3. Strands(cmd[q], res[r])
        BY <2>3, <3>1, <4>2 DEF Strands
      <4> QED BY <2>1, <3>1, <3>2, <4>3 DEF Stranded
    <3>3. CASE ~Live(res[r], now[q])
      <4>1. venue[p] = "S" /\ Members(res'[r].asg) \subseteq unitLocks[p]
        BY <1>1, <2>2, <3>1, <3>3 DEF Effect
      <4>2. ~Closing(c)
        BY <1>1, <2>1, <4>1 DEF Closing
      <4>3. Wanted(q) = Members(c.asg) /\ c.asg \in Assignments /\ c.op \in {"unit", "combo"}
        BY <1>1, <2>3, <4>2, CommandFields DEF Strands, Wanted, Resizing, Deactivating
      <4>4. Members(c.asg) # {} /\ (c.op = "unit" => Members(c.asg) = {c.asg})
        BY <1>1, <4>3, MembersOf, CommandFields DEF Members
      <4>5. Members(res'[r].asg) \cap Members(c.asg) # {}
        BY <2>3, <3>1, <4>2, <4>3, <4>4 DEF Strands, Resizing
      <4> QED BY <1>1, <2>1, <4>1, <4>3, <4>5
    <3> QED BY <3>2, <3>3
  <2> QED BY <2>4, <2>5
<1> QED
  BY <1>1, <1>5, <1>6, <1>7, <1>8, <1>9 DEF Local, Drafted, Same

LEMMA Stable ==
  ASSUME Inductive, NEW p \in Procs, NEW q \in Procs \ {p}, Commit(p)
  PROVE  Local(q)'
<1> DEFINE c == cmd[q]
<1>1. /\ TypeOK /\ Local(q) /\ Same(q) /\ Effect(p) /\ clock' = clock /\ c \in Commands \cup {NoCmd}
  BY Meeting
<1>2. Placed(q)' /\ MoveLocks(q)'
  BY <1>1 DEF Local, Placed, MoveLocks, Same
<1>3. HoldLocks(q)'
  <2>1. ASSUME c.op = "hold", Members(c.asg) \subseteq unitLocks[q]
        PROVE  Overlapping(q)' \subseteq Overlapping(q)
    <3>1. PICK a \in Assignments, d \in Ranges : a = c.asg /\ d = c.during
      BY <1>1, <2>1, CommandFields
    <3>2. \A r \in Res : Clashes(res'[r], a, d) => Clashes(res[r], a, d)
      BY <2>1, <3>1, LockedUnits
    <3> QED BY <1>1, <3>1, <3>2 DEF Overlapping, Same
  <2> QED BY <1>1, <2>1 DEF Local, HoldLocks, Same
<1>4. ConfirmLocks(q)'
  <2>1. c.op = "confirm" => c.res \in Res
    BY <1>1, CommandFields DEF RowOps
  <2> QED BY <1>1, <2>1 DEF Local, ConfirmLocks, Effect, Same
<1>5. ConfigLocks(q)'
  <2>1. ConfigRow(c)' = ConfigRow(c)
    BY <1>1 DEF ConfigRow, Same
  <2>2. (c.op \in ConfigOps /\ pc[q] \in {"apply", "commit"}) => Wanted(q)' = Wanted(q)
    BY <1>1, LockedConfig DEF Local, ConfigLocks
  <2> QED BY <1>1, <2>1, <2>2 DEF Local, ConfigLocks, Same
<1>6. now'[q] <= clock'
  BY <1>1 DEF Local, Same
<1> QED BY <1>2, <1>3, <1>4, <1>5, <1>6, StableDraft DEF Local

-----------------------------------------------------------------------------
(* The invariant is inductive.                                             *)

LEMMA InitInductive == Init => Inductive
<1> SUFFICES ASSUME Init PROVE Inductive
  OBVIOUS
<1>1. TypeOK
  <2>1. PICK v \in Venues : capacity = v.capacity /\ active = v.active /\ closed = v.closed
    BY DEF Init
  <2>2. /\ v.capacity \in [Assignments -> Capacities] /\ v.active \in [Assignments -> BOOLEAN]
        /\ v.closed \in [Blackouts -> {"absent", "inactive", "active"}]
    BY EngineAssumption DEF Venue
  <2> QED BY <2>1, <2>2, EngineAssumption DEF Init, TypeOK, NoDraft, PCs
<1>2. Exclusion
  BY DEF Init, Exclusion
<1>3. ASSUME NEW p \in Procs PROVE Local(p)
  <2>1. NoCmd.op = "none"
    BY DEF NoCmd
  <2> QED
    BY <2>1, EngineAssumption
       DEF Init, Local, Placed, HoldLocks, ConfirmLocks, MoveLocks, ConfigLocks, Drafted, RowOps, ConfigOps
<1> QED BY <1>1, <1>2, <1>3 DEF Inductive

LEMMA OwnStep ==
  ASSUME Inductive, NEW p \in Procs, Begin(p) \/ Step(p) \/ Abort(p)
  PROVE  Local(p)'
<1>1. CASE Release(p) /\ UNCHANGED clock
  BY <1>1, FreshLocal DEF Inductive
<1>2. CASE ~(Release(p) /\ UNCHANGED clock)
  <2>1. ~Rollback(p) /\ ~Commit(p) /\ ~Abort(p) /\ ~FailHold(p)
    BY <1>2 DEF Rollback, Commit, Abort, FailHold, tables
  <2>2. CASE Begin(p)
    BY <2>2, BeginLocal
  <2>3. CASE LockVenue(p) \/ LockUnit(p) \/ LockRow(p)
    BY <2>3, LockVenueLocal, LockUnitLocal, LockRowLocal
  <2>4. CASE ResolveHold(p) \/ ReadOverlap(p) \/ FindRow(p) \/ BeginConfig(p)
    BY <2>1, <2>4, ReadLocal
  <2>5. CASE BookHold(p) \/ RefuseHold(p) \/ WriteRow(p) \/ Sweep(p)
    BY <2>1, <2>5, BookHoldLocal, RefuseHoldLocal, WriteRowLocal, SweepLocal
  <2>6. CASE Judge(p) \/ ForceCancel(p) \/ LockConfigRow(p) \/ Apply(p)
    BY <2>1, <2>6, JudgeLocal, ForceCancelLocal, LockConfigRowLocal, ApplyLocal
  <2> QED BY <2>1, <2>2, <2>3, <2>4, <2>5, <2>6 DEF Step
<1> QED BY <1>1, <1>2

\* Only a commit writes the tables.
LEMMA QuietStep ==
  ASSUME NEW p \in Procs, Begin(p) \/ Step(p) \/ Abort(p), ~Commit(p)
  PROVE  UNCHANGED <<clock, res, capacity, active, closed>>
<1>1. CASE Begin(p) \/ Abort(p)
  BY <1>1 DEF Begin, Abort, Rollback, tables
<1>2. CASE ResolveHold(p) \/ ReadOverlap(p) \/ BookHold(p) \/ RefuseHold(p) \/ FailHold(p)
  BY <1>2 DEF ResolveHold, ReadOverlap, BookHold, RefuseHold, FailHold, Rollback, tables
<1>3. CASE FindRow(p) \/ WriteRow(p) \/ Sweep(p) \/ BeginConfig(p) \/ LockConfigRow(p)
  BY <1>3 DEF FindRow, WriteRow, Sweep, BeginConfig, LockConfigRow, Rollback, tables
<1>4. CASE Judge(p) \/ ForceCancel(p) \/ Apply(p) \/ LockVenue(p) \/ LockUnit(p) \/ LockRow(p)
  BY <1>4 DEF Judge, ForceCancel, Apply, LockVenue, LockUnit, LockRow, Rollback, tables
<1> QED BY <1>1, <1>2, <1>3, <1>4 DEF Step

LEMMA InductiveStep == Inductive /\ [Next]_vars => Inductive'
<1> SUFFICES ASSUME Inductive, [Next]_vars PROVE Inductive'
  OBVIOUS
<1>1. TypeOK'
  BY TypeStep
<1>2. CASE Tick \/ UNCHANGED vars
  <2>1. \A q \in Procs : Same(q)
    BY <1>2 DEF Same, Tick, vars
  <2>2. /\ UNCHANGED <<res, capacity, active, closed>> /\ UNCHANGED <<venue, unitLocks, rowLocks>>
        /\ clock' = clock \/ clock' = clock + 1
    BY <1>2 DEF Tick, vars
  <2>3. ASSUME NEW q \in Procs PROVE now[q] <= clock => now[q] <= clock'
    BY <2>2, EngineAssumption DEF Inductive, TypeOK
  <2>4. \A q \in Procs : Local(q)'
    BY <2>1, <2>2, <2>3, Frame DEF Inductive
  <2>5. Exclusion'
    BY <2>2 DEF Inductive, Exclusion
  <2> QED BY <1>1, <2>4, <2>5 DEF Inductive
<1>3. ASSUME NEW p \in Procs, Begin(p) \/ Step(p) \/ Abort(p) PROVE Inductive'
  <2>1. Local(p)' /\ Exclusion'
    BY <1>3, OwnStep, ExclusionStep
  <2>2. CASE Commit(p)
    BY <1>1, <2>1, <2>2, Stable DEF Inductive
  <2>3. CASE ~Commit(p)
    <3>1. \A q \in Procs \ {p} : Same(q)
      BY <1>3, OthersSame DEF Inductive
    <3>2. UNCHANGED <<clock, res, capacity, active, closed>>
      BY <1>3, <2>3, QuietStep
    <3>3. \A q \in Procs \ {p} : Local(q)'
      BY <3>1, <3>2, Frame DEF Inductive
    <3> QED BY <1>1, <2>1, <3>3 DEF Inductive
  <2> QED BY <2>2, <2>3
<1> QED BY <1>2, <1>3 DEF Next

-----------------------------------------------------------------------------
(* The engine implements Booking.                                          *)

\* The vocabulary of Rules, as Booking sees it.
LEMMA SameRules ==
  /\ Abstract!Assignments = Assignments /\ Abstract!NoRow = NoRow
  /\ Abstract!LiveStatuses = LiveStatuses
  /\ \A a : Abstract!Members(a) = Members(a)
  /\ \A d, e : Abstract!Overlaps(d, e) <=> Overlaps(d, e)
  /\ \A row, t : Abstract!Live(row, t) <=> Live(row, t)
  /\ \A row, t : Abstract!Dead(row, t) <=> Dead(row, t)
  /\ \A row : Abstract!Occupies(row) <=> Occupies(row)
  /\ \A row, a, d : Abstract!Clashes(row, a, d) <=> Clashes(row, a, d)
  /\ \A T, S, s : Abstract!SetStatus(T, S, s) = SetStatus(T, S, s)
<1> USE DEF Abstract!Assignments, Assignments, Abstract!Members, Members, Abstract!Overlaps, Overlaps
<1>1. Abstract!NoRow = NoRow
  BY DEF Abstract!NoRow, NoRow
<1>2. Abstract!LiveStatuses = LiveStatuses
  BY DEF Abstract!LiveStatuses, LiveStatuses
<1>3. \A row, t : Abstract!Live(row, t) <=> Live(row, t)
  BY <1>2 DEF Abstract!Live, Live, Abstract!EffectiveStatus, EffectiveStatus
<1>4. \A row, t : Abstract!Dead(row, t) <=> Dead(row, t)
  BY DEF Abstract!Dead, Dead
<1>5. \A row : Abstract!Occupies(row) <=> Occupies(row)
  BY <1>2 DEF Abstract!Occupies, Occupies, Abstract!OccupyingStatuses, OccupyingStatuses
<1>6. \A row, a, d : Abstract!Clashes(row, a, d) <=> Clashes(row, a, d)
  BY <1>5 DEF Abstract!Clashes, Clashes
<1>7. \A T, S, s : Abstract!SetStatus(T, S, s) = SetStatus(T, S, s)
  BY DEF Abstract!SetStatus, SetStatus, Abstract!WithStatus, WithStatus
<1>8. \A d, e : Abstract!Overlaps(d, e) <=> Overlaps(d, e)
  OBVIOUS
<1>9. \A a : Abstract!Members(a) = Members(a)
  OBVIOUS
<1> QED BY <1>1, <1>2, <1>3, <1>4, <1>5, <1>6, <1>7, <1>8, <1>9

\* A judgement by the start of the transaction is at least as strict about
\* live rows, and at most as strict about dead ones, as one by the clock.
LEMMA LiveEarlier ==
  ASSUME TypeOK, NEW p \in Procs, now[p] <= clock, NEW r \in Res
  PROVE  /\ Live(res[r], clock) => Live(res[r], now[p])
         /\ Dead(res[r], now[p]) => Dead(res[r], clock)
<1>1. now[p] \in Nat /\ clock \in Nat
  BY EngineAssumption DEF TypeOK
<1>2. res[r].status = "held" => res[r].expires \in Nat
  BY RowCases DEF Statuses, Row
<1> QED BY <1>1, <1>2 DEF Live, EffectiveStatus, LiveStatuses, Dead

LEMMA SameBookable ==
  ASSUME NEW row
  PROVE  Abstract!Bookable(row) <=>
           Usable(row.asg) /\ Fits(row.asg, row.party) /\ ~Blackedout(row.during)
BY SameRules DEF Abstract!Bookable, Abstract!Usable, Usable, Abstract!Fits, Fits, Abstract!Open, Blackedout

\* Every commit is one action of Booking.
LEMMA CommitSimulates ==
  ASSUME Inductive, NEW p \in Procs, Commit(p)
  PROVE  Abstract!Next
<1> DEFINE c == cmd[p]
<1>1. /\ TypeOK /\ c \in Commands \cup {NoCmd} /\ now[p] <= clock /\ now[p] \in Nat /\ clock \in Nat
  BY EngineAssumption DEF Inductive, Local, TypeOK
<1>2. PICK S \in SUBSET (rowLocks[p] \cap Res) :
        \/ ExpireCommit(p, S) \/ ConfigCommit(p, S)
        \/ \E r \in rowLocks[p] \cap Res : BookCommit(p, S, r) \/ MoveCommit(p, r)
  BY CommitShape
<1>3. S \in SUBSET Res
  OBVIOUS
<1>4. CASE ExpireCommit(p, S)
  <2>1. Abstract!Expire(S)
    BY <1>1, <1>3, <1>4, LiveEarlier, SameRules DEF ExpireCommit, Abstract!Expire
  <2> QED BY <1>3, <2>1 DEF Abstract!Next
<1>5. ASSUME NEW r \in rowLocks[p] \cap Res, BookCommit(p, S, r) PROVE Abstract!Next
  <2> DEFINE x == now[p] + Ttl
  <2>1. /\ c.asg \in Abstract!Assignments /\ c.party \in Parties /\ c.during \in Ranges
        /\ x \in Ttl..(clock + Ttl)
    BY <1>1, <1>5, CommandFields, SameRules, EngineAssumption DEF BookCommit
  <2>2. Abstract!Bookable(NewRow(p))
    <3>1. NewRow(p).asg = c.asg /\ NewRow(p).party = c.party /\ NewRow(p).during = c.during
      BY DEF NewRow
    <3> QED BY <1>5, <3>1, SameBookable DEF BookCommit
  <2>3. Abstract!Book(r, c.asg, c.party, c.during, x, S)
    BY <1>1, <1>3, <1>5, <2>2, LiveEarlier, SameRules DEF BookCommit, Abstract!Book, Abstract!Clear, NewRow
  <2> HIDE DEF x, c
  <2> QED BY <1>3, <2>1, <2>3 DEF Abstract!Next
<1>6. ASSUME NEW r \in rowLocks[p] \cap Res, MoveCommit(p, r) PROVE Abstract!Next
  <2>1. CASE c.op = "confirm"
    <3>1. Abstract!Confirm(r)
      BY <1>6, <2>1, SameBookable, SameRules
         DEF MoveCommit, MayMove, MayConfirm, Into, Abstract!Confirm
    <3> QED BY <3>1 DEF Abstract!Next
  <2>2. CASE c.op = "seat"
    <3>1. Abstract!Seat(r)
      BY <1>6, <2>2, SameRules DEF MoveCommit, MayMove, From, Into, Abstract!Seat
    <3> QED BY <3>1 DEF Abstract!Next
  <2>3. CASE c.op = "complete"
    <3>1. Abstract!Complete(r)
      BY <1>6, <2>3, SameRules DEF MoveCommit, MayMove, From, Into, Abstract!Complete
    <3> QED BY <3>1 DEF Abstract!Next
  <2>4. CASE c.op = "cancel"
    <3>1. Abstract!Cancel(r)
      BY <1>6, <2>4, SameRules DEF MoveCommit, MayMove, From, Into, Abstract!Cancel
    <3> QED BY <3>1 DEF Abstract!Next
  <2> QED BY <1>6, <2>1, <2>2, <2>3, <2>4 DEF MoveCommit, RowOps
<1>7. CASE ConfigCommit(p, S)
  <2>1. Abstract!CancelAll(S)
    BY <1>3, <1>7, SameRules DEF ConfigCommit, Abstract!CancelAll, Live, EffectiveStatus, LiveStatuses
  <2>2. ASSUME NEW r \in Res \ S, Abstract!Live(res[r], clock)
        PROVE  ~Strands(c, res[r])
    <3>1. Live(res[r], now[p])
      BY <1>1, <2>2, LiveEarlier, SameRules
    <3>2. View(p)[r] = res[r]
      BY <1>7, <2>2 DEF ConfigCommit, SetStatus
    <3> QED BY <1>7, <2>2, <3>1, <3>2 DEF ConfigCommit, Stranded
  <2>3. CASE c.op = "unit"
    <3>1. c.asg \in Units /\ c.capacity \in Capacities /\ c.active \in BOOLEAN
      BY <1>1, <2>3, CommandFields DEF ConfigOps
    <3>2. ASSUME NEW r \in Res \ S, Abstract!Live(res[r], clock)
          PROVE  ~Abstract!UnitStrands(res[r], c.asg, c.capacity, c.active)
      BY <2>2, <2>3, <3>2, SameRules
         DEF Strands, Resizing, Deactivating, Abstract!UnitStrands, Abstract!Within
    <3>3. Abstract!WriteUnit(c.asg, c.capacity, c.active, S)
      BY <1>7, <2>1, <2>3, <3>2 DEF ConfigCommit, Abstract!WriteUnit
    <3> HIDE DEF c
    <3> QED BY <1>3, <3>1, <3>3 DEF Abstract!Next
  <2>4. CASE c.op = "combo"
    <3>1. c.asg \in Combos /\ c.active \in BOOLEAN
      BY <1>1, <2>4, CommandFields DEF ConfigOps
    <3>2. ASSUME NEW r \in Res \ S, Abstract!Live(res[r], clock)
          PROVE  (active[c.asg] /\ ~c.active) => res[r].asg # c.asg
      BY <2>2, <2>4, <3>2 DEF Strands, Deactivating
    <3>3. Abstract!WriteCombo(c.asg, c.active, S)
      BY <1>7, <2>1, <2>4, <3>2 DEF ConfigCommit, Abstract!WriteCombo
    <3> HIDE DEF c
    <3> QED BY <1>3, <3>1, <3>3 DEF Abstract!Next
  <2>5. CASE c.op = "blackout"
    <3> DEFINE s == IF c.active THEN "active" ELSE "inactive"
    <3>1. c.blackout \in Blackouts /\ s \in {"inactive", "active"}
      BY <1>1, <2>5, CommandFields
    <3>2. ASSUME NEW r \in Res \ S, Abstract!Live(res[r], clock)
          PROVE  (s = "active" /\ closed[c.blackout] # "active") =>
                   ~Abstract!Overlaps(BlackoutRange[c.blackout], res[r].during)
      BY <2>2, <2>5, <3>2, SameRules DEF Strands, Closing
    <3>3. Abstract!WriteBlackout(c.blackout, s, S)
      BY <1>7, <2>1, <2>5, <3>2 DEF ConfigCommit, Abstract!WriteBlackout
    <3> HIDE DEF c, s
    <3> QED BY <1>3, <3>1, <3>3 DEF Abstract!Next
  <2> QED BY <1>7, <2>3, <2>4, <2>5 DEF ConfigCommit, ConfigOps
<1> QED BY <1>2, <1>4, <1>5, <1>6, <1>7

LEMMA StepSimulates == Inductive /\ [Next]_vars => [Abstract!Next]_(Abstract!vars)
<1> SUFFICES ASSUME Inductive, [Next]_vars PROVE Abstract!Next \/ UNCHANGED Abstract!vars
  OBVIOUS
<1> USE DEF Abstract!vars
<1>1. CASE UNCHANGED vars
  BY <1>1 DEF vars
<1>2. CASE Tick
  BY <1>2 DEF Tick, Abstract!Next, Abstract!Tick
<1>3. ASSUME NEW p \in Procs, Begin(p) \/ Step(p) \/ Abort(p), ~Commit(p)
      PROVE  UNCHANGED Abstract!vars
  BY <1>3, QuietStep
<1> QED BY <1>1, <1>2, <1>3, CommitSimulates DEF Next

LEMMA InitSimulates == Init => Abstract!Init
<1> SUFFICES ASSUME Init PROVE Abstract!Init
  OBVIOUS
<1>1. PICK v \in Venues : capacity = v.capacity /\ active = v.active /\ closed = v.closed
  BY DEF Init
<1>2. /\ v.capacity \in [Assignments -> Capacities] /\ v.active \in [Assignments -> BOOLEAN]
      /\ v.closed \in [Blackouts -> {"absent", "inactive", "active"}]
  BY EngineAssumption DEF Venue
<1> QED BY <1>1, <1>2, SameRules DEF Init, Abstract!Init, Abstract!BlackoutStates, NoDraft

\* Booking as its own theorems see it; what is read over it does not matter here.
Proved == INSTANCE BookingProofs
            WITH Periods <- {}, SlotStep <- 1, Window <- [from |-> 0, to |-> 0],
                 Limit <- 0, MaxStarts <- 0, Reach <- 0

LEMMA SameInvariants ==
  /\ NoDoubleBooking <=> Proved!NoDoubleBooking
  /\ PartyFits <=> Proved!PartyFits
  /\ NoBlackoutBooked <=> Proved!NoBlackoutBooked
  /\ OnlyActiveAssigned <=> Proved!OnlyActiveAssigned
<1> USE DEF Abstract!Members, Abstract!Overlaps, Abstract!Live, Abstract!EffectiveStatus,
            Abstract!LiveStatuses, Abstract!OccupyingStatuses, Abstract!Occupies, Abstract!Clashes,
            Proved!Members, Proved!Overlaps, Proved!Live, Proved!EffectiveStatus,
            Proved!LiveStatuses, Proved!OccupyingStatuses, Proved!Occupies, Proved!Clashes
<1>1. NoDoubleBooking <=> Proved!NoDoubleBooking
  BY DEF NoDoubleBooking, Abstract!NoDoubleBooking, Proved!NoDoubleBooking
<1>2. PartyFits <=> Proved!PartyFits
  BY DEF PartyFits, Abstract!PartyFits, Proved!PartyFits, Abstract!Fits, Proved!Fits
<1>3. NoBlackoutBooked <=> Proved!NoBlackoutBooked
  BY DEF NoBlackoutBooked, Abstract!NoBlackoutBooked, Proved!NoBlackoutBooked,
         Abstract!Open, Proved!Open
<1>4. OnlyActiveAssigned <=> Proved!OnlyActiveAssigned
  BY DEF OnlyActiveAssigned, Abstract!OnlyActiveAssigned, Proved!OnlyActiveAssigned,
         Abstract!Usable, Proved!Usable
<1> QED BY <1>1, <1>2, <1>3, <1>4

LEMMA SameSteps ==
  /\ Abstract!Init <=> Proved!Init
  /\ [Abstract!Next]_(Abstract!vars) <=> [Proved!Next]_(Proved!vars)
<1> USE DEF Abstract!Members, Abstract!Overlaps, Abstract!Live, Abstract!EffectiveStatus,
            Abstract!LiveStatuses, Abstract!OccupyingStatuses, Abstract!Occupies, Abstract!Clashes,
            Abstract!Dead, Abstract!SetStatus, Abstract!WithStatus, Abstract!Assignments, Abstract!NoRow,
            Abstract!Bookable, Abstract!Usable, Abstract!Fits, Abstract!Open, Abstract!CancelAll,
            Abstract!BlackoutStates, Abstract!Clear, Abstract!Within, Abstract!UnitStrands,
            Proved!Members, Proved!Overlaps, Proved!Live, Proved!EffectiveStatus,
            Proved!LiveStatuses, Proved!OccupyingStatuses, Proved!Occupies, Proved!Clashes,
            Proved!Dead, Proved!SetStatus, Proved!WithStatus, Proved!Assignments, Proved!NoRow,
            Proved!Bookable, Proved!Usable, Proved!Fits, Proved!Open, Proved!CancelAll,
            Proved!BlackoutStates, Proved!Clear, Proved!Within, Proved!UnitStrands
<1>1. Abstract!Init <=> Proved!Init
  BY DEF Abstract!Init, Proved!Init
<1>2. UNCHANGED Abstract!vars <=> UNCHANGED Proved!vars
  BY DEF Abstract!vars, Proved!vars
<1>3. Abstract!Next <=> Proved!Next
  BY DEF Abstract!Next, Abstract!Tick, Abstract!Expire, Abstract!Book, Abstract!Confirm,
         Abstract!Seat, Abstract!Complete, Abstract!Cancel, Abstract!WriteUnit,
         Abstract!WriteCombo, Abstract!WriteBlackout,
         Proved!Next, Proved!Tick, Proved!Expire, Proved!Book, Proved!Confirm, Proved!Seat,
         Proved!Complete, Proved!Cancel, Proved!WriteUnit, Proved!WriteCombo, Proved!WriteBlackout
<1> QED BY <1>1, <1>2, <1>3

-----------------------------------------------------------------------------
(* The order of the locks.                                                 *)

\* An insert never meets a pending row of its units: their locks are its own.
LEMMA InsertsApart == Inductive => InsertNeverWaits
<1>1. ASSUME Inductive, NEW p \in Procs, NEW q \in Procs, p # q, At(p, "write", {"hold"}),
             NEW r \in Res, res[r] = NoRow, draft[q][r] # NoRow
      PROVE  ~Clashes(draft[q][r], cmd[p].asg, cmd[p].during)
  <2>1. TypeOK /\ Local(p) /\ Local(q) /\ unitLocks[p] \cap unitLocks[q] = {}
    BY <1>1 DEF Inductive, Exclusion
  <2>2. Members(cmd[p].asg) \subseteq unitLocks[p]
    BY <1>1, <2>1 DEF Local, HoldLocks, At
  <2>3. /\ cmd[q].op = "hold" /\ draft[q][r] = NewRow(q) /\ pc[q] = "commit"
    <3>1. \A S \in SUBSET Res : \A s : r \in S => Pending(S, s)[r] = WithStatus(res[r], s)
      BY DEF Pending
    <3>2. \A S, s : r \notin S => Pending(S, s)[r] = NoRow
      BY DEF Pending
    <3>3. \A t : ~Dead(res[r], t) /\ ~Live(res[r], t)
      BY <1>1, NoRowIsNothing
    <3>4. NoDraft[r] = NoRow
      BY DEF NoDraft
    <3>5. cmd[q].op \notin ConfigOps
      <4> SUFFICES ASSUME ConfigDraft(q) PROVE FALSE
        BY <2>1 DEF Local, Drafted
      <4> QED BY <1>1, <3>2, <3>3 DEF ConfigDraft
    <3>6. pc[q] = "commit"
      BY <1>1, <2>1, <3>4, <3>5 DEF Local, Drafted
    <3>7. cmd[q].op # "sweep"
      <4> SUFFICES ASSUME SweepDraft(q) PROVE FALSE
        BY <2>1, <3>6 DEF Local, Drafted
      <4> QED BY <1>1, <3>2, <3>3 DEF SweepDraft
    <3>8. cmd[q].op \notin RowOps
      <4> SUFFICES ASSUME MoveDraft(q), cmd[q].op \in RowOps PROVE FALSE
        BY <2>1, <3>6 DEF Local, Drafted
      <4>1. r = cmd[q].res
        BY <1>1, <3>2 DEF MoveDraft
      <4> QED
        BY <1>1, <4>1 DEF MoveDraft, MayMove, MayConfirm, From, RowOps, LiveStatuses, NoRow
    <3>9. cmd[q].op = "hold"
      <4>1. cmd[q] \in Commands \cup {NoCmd} /\ cmd[q] # NoCmd
        BY <2>1, <3>6 DEF Local, Placed, TypeOK
      <4> QED BY <3>5, <3>7, <3>8, <4>1, CommandFields
    <3>10. PICK E \in SUBSET (rowLocks[q] \cap Res) :
             /\ \A e \in E : Dead(res[e], now[q])
             /\ \/ draft[q] = Pending(E, "expired")
                \/ \E k \in Res : draft[q] = [Pending(E, "expired") EXCEPT ![k] = NewRow(q)]
      BY <2>1, <3>6, <3>9 DEF Local, Drafted, HoldDraft
    <3>11. r \notin E
      BY <3>3, <3>10
    <3>12. ASSUME NEW k \in Res, draft[q] = [Pending(E, "expired") EXCEPT ![k] = NewRow(q)]
           PROVE  draft[q][r] = NewRow(q)
      <4>1. Pending(E, "expired")[r] = NoRow /\ Pending(E, "expired") \in [Res -> {Pending(E, "expired")[m] : m \in Res}]
        BY <3>2, <3>11 DEF Pending
      <4> QED BY <1>1, <3>12, <4>1
    <3>13. draft[q] # Pending(E, "expired")
      BY <1>1, <3>2, <3>11
    <3> QED BY <3>6, <3>9, <3>10, <3>12, <3>13
  <2>4. Members(cmd[q].asg) \subseteq unitLocks[q] /\ NewRow(q).asg = cmd[q].asg
    BY <2>1, <2>3 DEF Local, HoldLocks, NewRow
  <2> QED BY <2>1, <2>2, <2>3, <2>4 DEF Clashes
<1> QED BY <1>1 DEF InsertNeverWaits

\* Every step of p moves it on: into the queue, or out of it.
LEMMA StepGoes ==
  ASSUME NEW p \in Procs, Begin(p) \/ Step(p) \/ Abort(p)
  PROVE  \E l : Goto(p, l) /\ (l = "venue" => pc[p] # "venue")
<1>1. CASE Release(p)
  BY <1>1 DEF Release
<1>2. CASE Begin(p)
  BY <1>2 DEF Begin
<1>3. CASE LockVenue(p)
  BY <1>3 DEF LockVenue
<1>4. CASE LockUnit(p)
  BY <1>4 DEF LockUnit
<1>5. CASE LockRow(p)
  BY <1>5 DEF LockRow
<1>6. CASE LockConfigRow(p)
  BY <1>6 DEF LockConfigRow
<1>7. CASE BeginConfig(p)
  BY <1>7 DEF BeginConfig, At
<1>8. CASE ResolveHold(p) \/ ReadOverlap(p) \/ BookHold(p) \/ RefuseHold(p) \/ FailHold(p)
  BY <1>1, <1>8 DEF ResolveHold, ReadOverlap, BookHold, RefuseHold, FailHold, Rollback, At
<1>9. CASE FindRow(p) \/ WriteRow(p) \/ Sweep(p)
  BY <1>1, <1>9 DEF FindRow, WriteRow, Sweep, Rollback, At
<1>10. CASE Judge(p) \/ ForceCancel(p) \/ Apply(p)
  BY <1>1, <1>10 DEF Judge, ForceCancel, Apply, Rollback
<1>11. CASE Abort(p) \/ Commit(p)
  BY <1>1, <1>11 DEF Abort, Commit, Rollback
<1> QED BY <1>2, <1>3, <1>4, <1>5, <1>6, <1>7, <1>8, <1>9, <1>10, <1>11 DEF Step

\* The queue stays one: who joins it is behind all in it, who leaves it is gone from it.
LEMMA QueueStep ==
  ASSUME TypeOK, NEW p \in Procs, Begin(p) \/ Step(p) \/ Abort(p), \A q \in Procs : InQueue(q)
  PROVE  \A q \in Procs : InQueue(q)'
<1>1. PICK l : Goto(p, l) /\ (l = "venue" => pc[p] # "venue")
  BY StepGoes
<1>2. /\ pc'[p] = l /\ \A q \in Procs \ {p} : pc'[q] = pc[q]
      /\ \A q \in Procs : ahead[q] \subseteq Procs
  BY <1>1 DEF Goto, TypeOK
<1>3. CASE l = "venue"
  <2> DEFINE V == {q \in Procs : pc[q] = "venue"}
  <2>1. ahead'[p] = V /\ \A q \in Procs \ {p} : ahead'[q] = ahead[q]
    BY <1>1, <1>3 DEF Goto, TypeOK
  <2>2. p \notin V /\ \A q \in Procs : ahead[q] \subseteq V
    BY <1>1, <1>2, <1>3 DEF InQueue
  <2>3. InQueue(p)'
    BY <1>2, <1>3, <2>1, <2>2 DEF InQueue
  <2>4. ASSUME NEW q \in Procs \ {p} PROVE InQueue(q)'
    BY <1>2, <1>3, <2>1, <2>2 DEF InQueue
  <2> QED BY <2>3, <2>4
<1>4. CASE l # "venue"
  <2>1. ahead'[p] = {} /\ \A q \in Procs \ {p} : ahead'[q] = ahead[q] \ {p}
    BY <1>1, <1>4 DEF Goto, TypeOK
  <2>2. ASSUME NEW q \in Procs \ {p} PROVE InQueue(q)'
    BY <1>2, <1>4, <2>1 DEF InQueue
  <2>3. InQueue(p)'
    BY <1>2, <1>4, <2>1 DEF InQueue
  <2> QED BY <2>2, <2>3
<1> QED BY <1>3, <1>4

\* A confirmation's units are those of its row, which keeps its assignment.
LEMMA OrderKept ==
  ASSUME NEW p \in Procs, NEW q \in Procs, Inductive, Same(q), InOrder(q),
         \A r \in Res : res[r] # NoRow => res'[r].asg = res[r].asg
  PROVE  InOrder(q)'
<1>1. pc[q] = "units" => Whole(q)' = Whole(q)
  <2>1. cmd[q].op = "confirm" /\ pc[q] = "units" => cmd[q].res \in Res /\ res[cmd[q].res] # NoRow
    BY CommandFields DEF Inductive, Local, ConfirmLocks, TypeOK, RowOps
  <2> QED BY <2>1 DEF Whole, Members, Same
<1> QED BY <1>1 DEF InOrder, Same

\* A transaction that has just begun holds nothing, nor does one that is ready.
LEMMA OrderFresh ==
  ASSUME NEW p \in Procs, pc'[p] \in {"idle", "begun", "apply", "commit"}
  PROVE  InOrder(p)'
BY DEF InOrder

\* Each step takes its locks in the order that its place calls for.
LEMMA OrderOwn ==
  ASSUME Inductive, NEW p \in Procs, Begin(p) \/ Step(p) \/ Abort(p), InOrder(p),
         \A c \in Commands : c.op = "blackout" => ~c.sql
  PROVE  InOrder(p)'
<1>1. /\ TypeOK /\ Local(p) /\ cmd[p] \in Commands \cup {NoCmd}
      /\ unitLocks[p] \subseteq Units /\ rowLocks[p] \subseteq LockIds /\ todo[p] \subseteq Res
  BY DEF Inductive, TypeOK
<1>2. Units \subseteq Nat /\ Res \subseteq Nat
  BY RulesAssumption
<1>3. pc[p] = "begun" => venue[p] = "none" /\ unitLocks[p] = {} /\ rowLocks[p] = {}
  BY <1>1 DEF Local, Placed
<1>4. CASE pc'[p] \in {"idle", "begun", "apply", "commit"}
  BY <1>4, OrderFresh
<1>5. CASE Release(p)
  <2>1. pc'[p] = "idle"
    BY <1>1, <1>5 DEF Release, Goto, TypeOK
  <2> QED BY <1>4, <2>1
<1>6. CASE Begin(p)
  <2>1. pc'[p] = "begun"
    BY <1>1, <1>6 DEF Begin, Goto, TypeOK
  <2> QED BY <1>4, <2>1
<1>7. CASE ~Release(p) /\ (ResolveHold(p) \/ FindRow(p) \/ BeginConfig(p))
  <2>1. /\ pc[p] = "begun" /\ cmd'[p] = cmd[p]
        /\ UNCHANGED <<venue, unitLocks, rowLocks>>
        /\ pc'[p] \in {"venue", "config", "rows"}
        /\ pc'[p] = "rows" => cmd[p].op \notin {"hold", "confirm"}
    BY <1>1, <1>7 DEF ResolveHold, FindRow, BeginConfig, Rollback, At, Goto, TypeOK
  <2> QED BY <1>3, <2>1 DEF InOrder
<1>8. CASE LockVenue(p)
  <2>1. /\ pc[p] = "venue" /\ cmd'[p] = cmd[p] /\ UNCHANGED <<unitLocks, rowLocks>>
        /\ pc'[p] \in {"units", "apply", "judge"}
        /\ pc'[p] = "units" => cmd[p].op \notin ConfigOps
    BY <1>1, <1>8 DEF LockVenue, Goto, TypeOK
  <2> QED BY <2>1 DEF InOrder
<1>9. CASE LockUnit(p)
  <2>1. PICK u \in Units :
          /\ Least(u, Wanted(p) \ unitLocks[p])
          /\ unitLocks'[p] = unitLocks[p] \cup {u}
          /\ pc'[p] = IF Wanted(p) \subseteq unitLocks[p] \cup {u}
                      THEN CASE cmd[p].op = "hold" -> "read"
                             [] cmd[p].op = "confirm" -> "rows"
                             [] OTHER -> "apply"
                      ELSE "units"
    BY <1>1, <1>9 DEF LockUnit, Goto, TypeOK
  <2>2. pc[p] = "units" /\ cmd' = cmd /\ res' = res /\ UNCHANGED <<venue, rowLocks, todo>>
    BY <1>9 DEF LockUnit, tables
  <2>3. Whole(p)' = Whole(p) /\ (Wanted(p) = Whole(p) \/ Wanted(p) = {})
    BY <2>2 DEF Whole, Wanted, Members
  <2>4. Whole(p) \subseteq Units
    <3>1. cmd[p].op \in {"hold", "confirm", "unit", "combo"}
      BY <1>1, <2>2 DEF Local, Placed
    <3>2. CASE cmd[p].op = "confirm"
      <4>1. cmd[p].res \in Res /\ res[cmd[p].res] # NoRow
        BY <1>1, <2>2, <3>2, CommandFields DEF Local, ConfirmLocks, RowOps
      <4>2. res[cmd[p].res] \in Row
        BY <1>1, <4>1, RowCases DEF TypeOK
      <4> QED BY <3>2, <4>2, MembersOf DEF Whole, Row
    <3>3. CASE cmd[p].op # "confirm"
      BY <1>1, <3>1, <3>3, CommandFields, MembersOf DEF Whole
    <3> QED BY <3>2, <3>3
  <2>5. CASE pc'[p] = "units"
    <3>1. \A v \in unitLocks'[p], w \in Whole(p) \ unitLocks'[p] : v < w
      BY <1>2, <2>1, <2>2, <2>3, <2>4 DEF InOrder, Least
    <3> QED BY <2>2, <2>3, <2>5, <3>1 DEF InOrder
  <2>6. CASE pc'[p] # "units"
    <3>1. pc'[p] = "rows" => cmd[p].op = "confirm"
      BY <2>1
    <3>2. pc'[p] \in {"read", "rows", "apply"} /\ (pc'[p] = "read" => cmd[p].op = "hold")
      BY <2>1, <2>6
    <3> QED BY <2>2, <3>1, <3>2 DEF InOrder
  <2> QED BY <2>5, <2>6
<1>10. CASE ReadOverlap(p)
  <2>1. /\ pc[p] = "read" /\ cmd[p].op = "hold" /\ cmd'[p] = cmd[p]
        /\ UNCHANGED <<venue, unitLocks, rowLocks>> /\ pc'[p] \in {"write", "rows"}
    BY <1>1, <1>10 DEF ReadOverlap, Goto, TypeOK, Local, Placed
  <2> QED BY <2>1 DEF InOrder
<1>11. CASE LockRow(p)
  <2>1. PICK r \in Res :
          /\ Least(r, todo[p])
          /\ rowLocks'[p] = rowLocks[p] \cup {r} /\ todo'[p] = todo[p] \ {r}
          /\ pc'[p] \in {"write", "rows"}
    BY <1>1, <1>11 DEF LockRow, Goto, TypeOK
  <2>2. pc[p] = "rows" /\ cmd' = cmd /\ UNCHANGED <<venue, unitLocks>>
    BY <1>11 DEF LockRow
  <2>3. \A k \in rowLocks[p], s \in todo[p] : k < s
    BY <2>2 DEF InOrder
  <2>4. \A s \in todo[p] \ {r} : r < s
    BY <1>1, <1>2, <2>1 DEF Least
  <2>5. \A k \in rowLocks'[p], s \in todo'[p] : k < s
    BY <2>1, <2>3, <2>4
  <2> QED BY <2>1, <2>2, <2>5 DEF InOrder
<1>12. CASE BookHold(p) \/ RefuseHold(p) \/ WriteRow(p) \/ Sweep(p) \/ Apply(p)
  <2>1. Release(p) \/ Goto(p, "commit")
    BY <1>12 DEF BookHold, RefuseHold, WriteRow, Sweep, Apply, Rollback
  <2>2. Goto(p, "commit") => pc'[p] = "commit"
    BY <1>1 DEF Goto, TypeOK
  <2> QED BY <1>4, <1>5, <2>1, <2>2
<1>13. CASE Judge(p) /\ ~Release(p)
  <2>1. /\ pc[p] = "judge" /\ cmd'[p] = cmd[p] /\ cmd[p].op \in ConfigOps
        /\ UNCHANGED <<venue, unitLocks, rowLocks>> /\ pc'[p] \in {"config", "rows"}
    BY <1>1, <1>13 DEF Judge, Rollback, Goto, TypeOK, Local, Placed
  <2> QED BY <2>1 DEF InOrder, ConfigOps
<1>14. CASE ForceCancel(p)
  <2>1. /\ pc[p] = "write" /\ cmd'[p] = cmd[p] /\ cmd[p].op \in ConfigOps
        /\ UNCHANGED <<venue, unitLocks, rowLocks>> /\ pc'[p] = "config"
    BY <1>1, <1>14 DEF ForceCancel, At, Goto, TypeOK
  <2>2. venue[p] = "X"
    BY <1>1, <2>1 DEF Local, ConfigLocks
  <2> QED BY <2>1, <2>2 DEF InOrder, ConfigOps
<1>15. CASE LockConfigRow(p)
  <2>1. /\ pc[p] = "config" /\ cmd'[p] = cmd[p] /\ UNCHANGED <<venue, unitLocks>>
        /\ rowLocks'[p] = rowLocks[p] \cup {ConfigRow(cmd[p])}
        /\ pc'[p] = IF cmd[p].op = "blackout" /\ cmd[p].sql THEN "venue"
                    ELSE IF Wanted(p) # {} THEN "units" ELSE "apply"
    BY <1>1, <1>15 DEF LockConfigRow, Goto, TypeOK
  <2>2. cmd[p].op \in ConfigOps /\ cmd[p] \in Commands
    BY <1>1, <2>1 DEF Local, Placed
  <2>3. ConfigRow(cmd[p]) \notin Res
    BY <1>1, <2>2, CommandFields, EngineAssumption DEF ConfigRow, ConfigOps
  <2>4. pc'[p] \in {"units", "apply"}
    BY <2>1, <2>2
  <2>5. unitLocks'[p] = {} /\ (rowLocks'[p] \cap Res # {} => venue'[p] = "X")
    BY <2>1, <2>2, <2>3 DEF InOrder, ConfigOps
  <2> QED BY <2>1, <2>2, <2>4, <2>5 DEF InOrder, ConfigOps
<1> QED
  BY <1>5, <1>6, <1>7, <1>8, <1>9, <1>10, <1>11, <1>12, <1>13, <1>14, <1>15
     DEF Step, Abort, Commit, FailHold, Rollback

LEMMA OrderedStep == Inductive /\ Ordered /\ [Next]_vars => Ordered'
<1> SUFFICES ASSUME Inductive, [Next]_vars, \A c \in Commands : c.op = "blackout" => ~c.sql,
                    \A q \in Procs : InOrder(q) /\ InQueue(q)
             PROVE  \A q \in Procs : InOrder(q)' /\ InQueue(q)'
  BY DEF Ordered
<1>1. CASE Tick \/ UNCHANGED vars
  <2>1. UNCHANGED <<res, pc, cmd, venue, ahead, unitLocks, rowLocks, todo>>
    BY <1>1 DEF Tick, vars
  <2> QED BY <2>1 DEF InOrder, InQueue, Whole, Members
<1>2. ASSUME NEW p \in Procs, Begin(p) \/ Step(p) \/ Abort(p)
      PROVE  \A q \in Procs : InOrder(q)' /\ InQueue(q)'
  <2>1. TypeOK /\ \A q \in Procs \ {p} : Same(q)
    BY <1>2, OthersSame DEF Inductive
  <2>2. \A r \in Res : res[r] # NoRow => res'[r].asg = res[r].asg
    BY <1>2, CommitEffect, QuietStep DEF Effect
  <2>3. InOrder(p)'
    BY <1>2, OrderOwn
  <2>4. \A q \in Procs \ {p} : InOrder(q)'
    BY <2>1, <2>2, OrderKept
  <2>5. \A q \in Procs : InQueue(q)'
    BY <1>2, <2>1, QueueStep
  <2> QED BY <2>3, <2>4, <2>5
<1> QED BY <1>1, <1>2 DEF Next

LEMMA InitOrdered == Init => Ordered
<1>1. ASSUME Init, NEW p \in Procs PROVE InOrder(p) /\ InQueue(p)
  BY <1>1 DEF Init, InOrder, InQueue
<1> QED BY <1>1 DEF Ordered

\* Among finitely many there is one with the greatest value.
LEMMA Greatest ==
  ASSUME NEW D, IsFiniteSet(D), NEW f \in [D -> Int], NEW T \in SUBSET D, T # {}
  PROVE  \E m \in T : \A x \in T : f[x] <= f[m]
<1> DEFINE Above(m) == {x \in T : f[x] > f[m]}
           B == {Above(m) : m \in T}
<1>1. \A m \in T : Above(m) \in SUBSET D /\ IsFiniteSet(Above(m))
  BY FS_Subset
<1>2. B \subseteq FiniteSubsetsOf(D) /\ B # {}
  BY <1>1 DEF FiniteSubsetsOf
<1>3. \E x \in B : \A y \in B : <<y, x>> \notin StrictSubsetOrdering(D)
  BY <1>2, FS_StrictSubsetOrderingWellFounded, WFMin
<1>4. PICK m \in T : \A x \in T : <<Above(x), Above(m)>> \notin StrictSubsetOrdering(D)
  BY <1>3
<1>5. ASSUME NEW x \in T, f[x] > f[m] PROVE FALSE
  <2>1. Above(x) \subseteq Above(m) /\ Above(x) # Above(m)
    <3>1. x \in Above(m) /\ x \notin Above(x)
      BY <1>5
    <3>2. \A y \in Above(x) : y \in Above(m)
      BY <1>5
    <3> QED BY <3>1, <3>2
  <2> QED BY <1>1, <1>4, <2>1 DEF StrictSubsetOrdering
<1>6. \A x \in T : f[m] \in Int /\ f[x] \in Int
  OBVIOUS
<1> HIDE DEF Above, B
<1> QED BY <1>5, <1>6

\* In any group whose members all wait for members, the lock that each waits for is
\* ranked above all it holds: there is no last one.
LEMMA NoCircle ==
  ASSUME Inductive, Ordered, \A c \in Commands : c.op = "blackout" => ~c.sql,
         NEW S \in SUBSET Procs, S # {}, \A p \in S : \E q \in S : WaitsFor(p, q)
  PROVE  FALSE
<1> DEFINE NextUnit(p, u) == u \in Units /\ Least(u, Wanted(p) \ unitLocks[p])
           NextRow(p, r) == r \in Res /\ Least(r, todo[p])
<1>1. /\ TypeOK /\ Exclusion /\ IsFiniteSet(S)
      /\ \A p \in S : /\ p \in Procs /\ Local(p) /\ InOrder(p) /\ InQueue(p)
                      /\ cmd[p] \in Commands \cup {NoCmd} /\ unitLocks[p] \subseteq Units
                      /\ rowLocks[p] \subseteq LockIds /\ todo[p] \subseteq Res
  BY EngineAssumption, FS_Subset DEF Inductive, Ordered, TypeOK
<1>2. Units \subseteq Nat /\ Res \subseteq Nat
  BY RulesAssumption
<1>3. \A p \in S : pc[p] \in {"venue", "units", "rows", "config"}
  BY <1>1, InsertsApart DEF WaitsFor, InsertNeverWaits
<1>4. PICK f \in [S -> Int] : \A p \in S, u \in Units : NextUnit(p, u) => f[p] = u
  <2> DEFINE key == [p \in S |-> IF \E u \in Units : NextUnit(p, u)
                                THEN CHOOSE u \in Units : NextUnit(p, u) ELSE 0]
  <2>1. key \in [S -> Int]
    BY <1>2
  <2>2. ASSUME NEW p \in S, NEW u \in Units, NextUnit(p, u) PROVE key[p] = u
    <3>1. \A v \in Units : NextUnit(p, v) => v = u
      BY <1>2, <2>2 DEF Least
    <3> QED BY <2>2, <3>1
  <2> QED BY <2>1, <2>2
<1>5. PICK g \in [S -> Int] : \A p \in S, r \in Res : NextRow(p, r) => g[p] = r
  <2> DEFINE key == [p \in S |-> IF \E r \in Res : NextRow(p, r)
                                THEN CHOOSE r \in Res : NextRow(p, r) ELSE 0]
  <2>1. key \in [S -> Int]
    <3>1. \A p \in S : (\E r \in Res : NextRow(p, r)) => key[p] \in Res
      OBVIOUS
    <3>2. \A p \in S : ~(\E r \in Res : NextRow(p, r)) => key[p] = 0
      OBVIOUS
    <3>3. key = [p \in S |-> key[p]]
      OBVIOUS
    <3> HIDE DEF key, NextRow
    <3>4. ASSUME NEW p \in S PROVE key[p] \in Int
      <4>1. CASE \E r \in Res : NextRow(p, r)
        <5>1. key[p] \in Res
          BY <3>1, <4>1
        <5>2. \A x \in Res : x \in Nat
          BY <1>2
        <5> QED BY <5>1, <5>2
      <4>2. CASE ~\E r \in Res : NextRow(p, r)
        BY <3>2, <4>2
      <4> QED BY <4>1, <4>2
    <3> QED BY <3>3, <3>4
  <2>2. ASSUME NEW p \in S, NEW r \in Res, NextRow(p, r) PROVE key[p] = r
    <3>1. \A v \in Res : NextRow(p, v) => v = r
      BY <1>2, <2>2 DEF Least
    <3> QED BY <2>2, <3>1
  <2> QED BY <2>1, <2>2
<1>6. ASSUME NEW p \in S, pc[p] = "units"
      PROVE  \E u \in Units : /\ NextUnit(p, u) /\ f[p] = u
                             /\ \A v \in unitLocks[p] : v < u
  <2>1. PICK u \in Units : Least(u, Wanted(p) \ unitLocks[p])
    BY <1>1, <1>6 DEF WaitsFor, At
  <2>2. u \in Whole(p) \ unitLocks[p]
    BY <2>1 DEF Wanted, Whole, Least
  <2>3. \A v \in unitLocks[p] : v < u
    BY <1>1, <1>6, <2>2 DEF InOrder
  <2> QED BY <1>4, <2>1, <2>3
<1>7. ASSUME NEW p \in S, pc[p] = "rows"
      PROVE  \E r \in Res : /\ NextRow(p, r) /\ g[p] = r
                            /\ \A v \in rowLocks[p] : v < r
  <2>1. PICK r : Least(r, todo[p])
    BY <1>7 DEF WaitsFor, At
  <2>2. r \in todo[p] /\ r \in Res
    BY <1>1, <2>1 DEF Least
  <2>3. \A v \in rowLocks[p] : v < r
    BY <1>1, <1>7, <2>2 DEF InOrder
  <2> QED BY <1>5, <2>1, <2>2, <2>3
<1>8. ASSUME NEW p \in S, NEW q \in S, pc[p] = "units", WaitsFor(p, q)
      PROVE  (pc[q] = "units" /\ f[p] < f[q]) \/ (pc[q] = "rows" /\ venue[q] = "S")
  <2>1. PICK u \in unitLocks[q] : Least(u, Wanted(p) \ unitLocks[p])
    BY <1>8 DEF WaitsFor, At
  <2>2. f[p] = u
    BY <1>1, <1>4, <2>1
  <2>3. CASE pc[q] = "units"
    BY <1>6, <2>1, <2>2, <2>3
  <2>4. CASE pc[q] \in {"rows", "config"}
    <3>1. cmd[q].op \in {"hold", "confirm"}
      BY <1>1, <2>1, <2>4 DEF InOrder
    <3> QED BY <1>1, <2>4, <3>1 DEF Local, Placed, HoldLocks, ConfirmLocks, ConfigOps
  <2>5. pc[q] # "venue"
    BY <1>1, <2>1 DEF InOrder
  <2> QED BY <1>3, <2>3, <2>4, <2>5
<1>9. ASSUME NEW p \in S, NEW q \in S, pc[p] = "rows", WaitsFor(p, q)
      PROVE  (pc[q] = "rows" /\ g[p] < g[q]) \/ (pc[q] \in {"units", "config"} /\ venue[q] = "X")
  <2>1. PICK r \in rowLocks[q] : Least(r, todo[p])
    BY <1>9 DEF WaitsFor, At
  <2>2. r \in Res /\ g[p] = r
    BY <1>1, <1>5, <2>1 DEF Least
  <2>3. CASE pc[q] = "rows"
    BY <1>7, <2>1, <2>2, <2>3
  <2>4. CASE pc[q] \in {"units", "config"}
    BY <1>1, <2>1, <2>2, <2>4 DEF InOrder
  <2>5. pc[q] # "venue"
    BY <1>1, <2>1 DEF InOrder
  <2> QED BY <1>3, <2>3, <2>4, <2>5
<1>10. ASSUME NEW p \in S, NEW q \in S, pc[p] = "config", WaitsFor(p, q)
       PROVE  pc[q] = "units"
  <2>1. ConfigRow(cmd[p]) \in rowLocks[q]
    BY <1>10 DEF WaitsFor, At
  <2>2. ConfigRow(cmd[p]) \notin Res
    <3>1. cmd[p].op \in ConfigOps
      BY <1>1, <1>10 DEF Local, Placed
    <3> QED BY <1>1, <3>1, CommandFields, EngineAssumption DEF ConfigRow, ConfigOps
  <2>3. pc[q] \notin {"venue", "rows", "config"}
    BY <1>1, <2>1, <2>2 DEF InOrder
  <2> QED BY <1>3, <2>3
<1> HIDE DEF NextUnit, NextRow
<1>11. (\E p \in S : pc[p] = "units") => \E q \in S : pc[q] = "rows" /\ venue[q] = "S"
  <2> SUFFICES ASSUME {p \in S : pc[p] = "units"} # {}
               PROVE  \E q \in S : pc[q] = "rows" /\ venue[q] = "S"
    OBVIOUS
  <2>1. PICK m \in S : pc[m] = "units" /\ \A x \in S : pc[x] = "units" => f[x] <= f[m]
    <3> DEFINE T == {p \in S : pc[p] = "units"}
    <3>1. T \in SUBSET S /\ T # {}
      OBVIOUS
    <3>2. \E m \in T : \A x \in T : f[x] <= f[m]
      BY <1>1, <3>1, Greatest
    <3> QED BY <3>2
  <2>2. PICK q \in S : WaitsFor(m, q)
    OBVIOUS
  <2>3. f[m] \in Int /\ f[q] \in Int
    OBVIOUS
  <2> QED BY <1>8, <2>1, <2>2, <2>3
<1>12. (\E p \in S : pc[p] = "rows") =>
          \E q \in S : pc[q] \in {"units", "config"} /\ venue[q] = "X"
  <2> SUFFICES ASSUME {p \in S : pc[p] = "rows"} # {}
               PROVE  \E q \in S : pc[q] \in {"units", "config"} /\ venue[q] = "X"
    OBVIOUS
  <2>1. PICK m \in S : pc[m] = "rows" /\ \A x \in S : pc[x] = "rows" => g[x] <= g[m]
    <3> DEFINE T == {p \in S : pc[p] = "rows"}
    <3>1. T \in SUBSET S /\ T # {}
      OBVIOUS
    <3>2. \E m \in T : \A x \in T : g[x] <= g[m]
      BY <1>1, <3>1, Greatest
    <3> QED BY <3>2
  <2>2. PICK q \in S : WaitsFor(m, q)
    OBVIOUS
  <2>3. g[m] \in Int /\ g[q] \in Int
    OBVIOUS
  <2> QED BY <1>9, <2>1, <2>2, <2>3
<1>13. ~\E p \in S : pc[p] = "units"
  <2> SUFFICES ASSUME \E p \in S : pc[p] = "units" PROVE FALSE
    OBVIOUS
  <2>1. PICK q \in S : pc[q] = "rows" /\ venue[q] = "S"
    BY <1>11
  <2>2. PICK x \in S : venue[x] = "X"
    BY <1>12, <2>1
  <2> QED BY <1>1, <2>1, <2>2 DEF Exclusion
<1>14. \A p \in S : pc[p] = "venue"
  BY <1>3, <1>10, <1>12, <1>13
<1>15. \A p, q \in S : WaitsFor(p, q) =>
          q \in ahead[p] /\ ahead[q] \subseteq ahead[p] /\ q \notin ahead[q]
  BY <1>1, <1>14 DEF WaitsFor, Blocks, At, InOrder, InQueue
<1>16. PICK p \in S : \A q \in S : <<ahead[q], ahead[p]>> \notin StrictSubsetOrdering(Procs)
  <2> DEFINE B == {ahead[p] : p \in S}
  <2>1. B \subseteq FiniteSubsetsOf(Procs) /\ B # {}
    BY <1>1, EngineAssumption, FS_Subset DEF FiniteSubsetsOf, TypeOK
  <2>2. \E x \in B : \A y \in B : <<y, x>> \notin StrictSubsetOrdering(Procs)
    BY <2>1, FS_StrictSubsetOrderingWellFounded, WFMin
  <2> QED BY <2>2
<1>17. PICK q \in S : WaitsFor(p, q)
  OBVIOUS
<1>18. <<ahead[q], ahead[p]>> \in StrictSubsetOrdering(Procs)
  BY <1>1, <1>15, <1>17, EngineAssumption, FS_Subset DEF StrictSubsetOrdering, TypeOK
<1> QED BY <1>16, <1>18

-----------------------------------------------------------------------------
(* Theorems. *)

\* Types, lock exclusion, and what each transaction has locked, read and
\* judged, for every number of connections and every interleaving.
THEOREM EngineInductive == Spec => []Inductive
BY InitInductive, InductiveStep, PTL DEF Spec

\* The transactions of the engine are atomic: each behaviour of the statements
\* and locks is a behaviour of Booking on the same tables.
THEOREM EngineAtomic == Spec => Atomic
BY InitSimulates, StepSimulates, EngineInductive, PTL DEF Spec, Atomic, Abstract!Spec

\* Invariants 1, 4, 11 and 12 of CORRECTNESS.md hold of the committed tables
\* at every moment: no double booking, and every live reservation fits its
\* assignment, overlaps no active blackout and uses active units only.
THEOREM EngineSafe ==
  Spec => [](NoDoubleBooking /\ NothingStranded)
<1>1. Proved!RulesAssumption /\ Proved!BookingAssumption /\ Proved!SlotsAssumption
  <2>1. Proved!RulesAssumption
    BY RulesAssumption DEF Proved!RulesAssumption, IsFiniteSet, Proved!IsFiniteSet
  <2>2. Proved!BookingAssumption
    BY EngineAssumption DEF Proved!BookingAssumption
  <2>3. IsFiniteSet({})
    BY FS_EmptySet
  <2>4. Proved!SlotsAssumption
    BY <2>3 DEF Proved!SlotsAssumption, IsFiniteSet, Proved!IsFiniteSet
  <2> QED BY <2>1, <2>2, <2>4
<1>2. Proved!Spec =>
        [](Proved!NoDoubleBooking /\ Proved!PartyFits /\ Proved!NoBlackoutBooked /\ Proved!OnlyActiveAssigned)
  BY <1>1, Proved!BookingSafe
<1>3. Atomic => Proved!Spec
  BY SameSteps, PTL DEF Atomic, Abstract!Spec, Proved!Spec
<1>4. NoDoubleBooking /\ PartyFits /\ NoBlackoutBooked /\ OnlyActiveAssigned => NoDoubleBooking /\ NothingStranded
  BY DEF NothingStranded
<1> QED BY <1>2, <1>3, <1>4, EngineAtomic, SameInvariants, PTL

\* Invariants 4, 11 and 12 on their own: a configuration write strands nothing, for
\* any number of connections that book, confirm and configure at once.
THEOREM EngineStrandsNothing == Spec => []NothingStranded
BY EngineSafe, PTL

\* The overlap read of a hold misses no reservation that clashes with it by
\* the time it inserts, though it was read before the row locks were waited for.
THEOREM EngineOverlapComplete == Spec => []OverlapSetComplete
<1>1. Inductive => OverlapSetComplete
  BY DEF Inductive, Local, HoldLocks, OverlapSetComplete, At
<1> QED BY <1>1, EngineInductive, PTL

\* An insert meets no uncommitted unit row of another transaction on its units.
THEOREM EngineInsertNeverWaits == Spec => []InsertNeverWaits
BY InsertsApart, EngineInductive, PTL

\* A confirmation that commits began before its hold expired.
THEOREM EngineNoLateConfirm == Spec => NoLateConfirm
<1>1. ASSUME Inductive, [Next]_vars, NEW p \in Procs,
             cmd[p].op = "confirm", res' # res, pc'[p] # pc[p]
      PROVE  now[p] < res[cmd[p].res].expires
  <2>1. PICK q \in Procs : Commit(q)
    BY <1>1, QuietStep DEF Next, Tick, vars
  <2>2. q = p
    BY <1>1, <2>1, OthersSame DEF Inductive, Step, Same
  <2>3. MoveDraft(p)
    BY <1>1, <2>1, <2>2 DEF Commit, Inductive, Local, Drafted, RowOps
  <2> QED BY <1>1, <2>3 DEF MoveDraft, MayMove, MayConfirm
<1>2. Inductive /\ [Next]_vars =>
        [\A p \in Procs : (cmd[p].op = "confirm" /\ res' # res /\ pc'[p] # pc[p]) =>
           now[p] < res[cmd[p].res].expires]_vars
  BY <1>1
<1> QED BY <1>2, EngineInductive, PTL DEF Spec, NoLateConfirm

\* No circle of waits: whatever the locks that are wanted and held, in any group there is
\* a transaction that waits for none of the group (plain UPDATEs of blackouts aside).
THEOREM EngineNoDeadlock == Spec => []NoDeadlock
<1>1. Inductive /\ Ordered => NoDeadlock
  BY NoCircle DEF NoDeadlock
<1> QED BY <1>1, InitOrdered, OrderedStep, EngineInductive, PTL DEF Spec
=============================================================================
