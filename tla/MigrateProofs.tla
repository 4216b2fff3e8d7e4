---------------------------- MODULE MigrateProofs ----------------------------
(***************************************************************************)
(* Proofs about Migrate, for any files, releases and number of runners.    *)
(* The invariant says what a run knows while it holds the run lock: the    *)
(* files it has visited are recorded, its map of the others is current,    *)
(* and the object its statement is about is as the probe found it or as    *)
(* the statement left it.                                                  *)
(***************************************************************************)
EXTENDS Migrate, TLAPS

Working(p) == run[p].pc \notin Ended \cup {"wait"}
Visiting == {"next", "try", "pending", "create", "building", "drop", "dropping", "record"}
Doing == Visiting \ {"next"}

\* What the holder has visited is recorded; what it has not is as it read it.
Visits(p) ==
  /\ run[p].left \subseteq run[p].ship
  /\ \A f \in run[p].ship \ run[p].left : recorded[Version[f]] = f
  /\ \A f \in run[p].left : recorded[Version[f]] = Known(p, f)

\* The object the statement in hand is about, and what the file asks for.
Target(p, f) ==
  LET l == run[p].pc  o == catalog[Index[f]] IN
  /\ Known(p, f) = None
  /\ l = "pending" => Kind[f] = "sql"
  /\ l = "record" => Kind[f] # "sql" /\ Holds(f)
  /\ l = "create" => Kind[f] = "create" /\ o = Absent
  /\ l = "building" => Kind[f] = "create" /\ o = Invalid(Built(f))
  /\ l \in {"drop", "dropping"} =>
       \/ Kind[f] = "create" /\ o = Invalid(Built(f))
       \/ Kind[f] = "drop" /\ o.def # "table"

\* A run works under the run lock only; one that is done has recorded its release.
Local(p) ==
  /\ Working(p) => holder = p
  /\ run[p].pc # "off" => run[p].ship \in Releases
  /\ run[p].pc \in Visiting => Visits(p)
  /\ run[p].pc \in Doing => \E f \in Files : First(p, f) /\ Target(p, f)
  /\ At(p, "done") => \A f \in run[p].ship : recorded[Version[f]] = f

\* A version is recorded with a file of that version.
Numbered == \A v \in Versions : recorded[v] # None => Version[recorded[v]] = v

Inv == TypeOK /\ Numbered /\ RecordedHolds /\ \A p \in Runners : Local(p)

-----------------------------------------------------------------------------
(* Types. *)

LEMMA SomeObjects ==
  /\ Absent \in Objects
  /\ \A f \in Files : Built(f) \in Objects
  /\ \A o \in Objects : Invalid(o) \in Objects
BY DEF Built, Invalid, Absent, Objects, Others

\* A runner with some fields changed is a runner.
LEMMA SomeRunners ==
  ASSUME NEW r \in Runner, NEW l \in PCs, NEW S \in SUBSET Files
  PROVE  /\ r.left \in SUBSET Files /\ r.ship \in SUBSET Files /\ r.attempt \in 1..MaxAttempts
         /\ [r EXCEPT !.pc = l] \in Runner
         /\ [r EXCEPT !.left = S] \in Runner
         /\ [r EXCEPT !.pc = l, !.left = S] \in Runner
         /\ [r EXCEPT !.pc = l, !.ship = S] \in Runner
         /\ \A b \in BOOLEAN : [r EXCEPT !.pc = l, !.ship = S, !.allow = b] \in Runner
         /\ \A n \in 1..MaxAttempts : [r EXCEPT !.pc = l, !.attempt = n] \in Runner
         /\ \A W \in SUBSET Runners : [r EXCEPT !.pc = l, !.waits = W] \in Runner
         /\ \A k \in [Versions -> Files \cup {None}] :
              [r EXCEPT !.pc = l, !.known = k, !.left = S] \in Runner
<1>1. r.left \in SUBSET Files /\ r.ship \in SUBSET Files /\ r.attempt \in 1..MaxAttempts
  BY DEF Runner
<1>2. /\ [r EXCEPT !.pc = l] \in Runner
      /\ [r EXCEPT !.left = S] \in Runner
      /\ [r EXCEPT !.pc = l, !.left = S] \in Runner
      /\ [r EXCEPT !.pc = l, !.ship = S] \in Runner
  BY DEF Runner
<1>3. \A b \in BOOLEAN : [r EXCEPT !.pc = l, !.ship = S, !.allow = b] \in Runner
  BY DEF Runner
<1>4. \A n \in 1..MaxAttempts : [r EXCEPT !.pc = l, !.attempt = n] \in Runner
  BY DEF Runner
<1>5. \A W \in SUBSET Runners : [r EXCEPT !.pc = l, !.waits = W] \in Runner
  BY DEF Runner
<1>6. \A k \in [Versions -> Files \cup {None}] :
        [r EXCEPT !.pc = l, !.known = k, !.left = S] \in Runner
  BY DEF Runner
<1> QED BY <1>1, <1>2, <1>3, <1>4, <1>5, <1>6

LEMMA IdleRunner == Idle \in Runner
<1>1. 1 \in 1..MaxAttempts
  BY MigrateAssumption
<1>2. [v \in Versions |-> None] \in [Versions -> Files \cup {None}]
  OBVIOUS
<1> QED BY <1>1, <1>2 DEF Idle, Runner, PCs

\* The types survive every step.
LEMMA TypeInductive == TypeOK /\ [Next]_vars => TypeOK'
<1> SUFFICES ASSUME TypeOK, [Next]_vars PROVE TypeOK'
  OBVIOUS
<1> USE DEF TypeOK, At, Goto, db
<1>0. /\ 1 \in 1..MaxAttempts /\ MaxStarts \in Nat /\ MaxAttempts \in Nat
      /\ Version \in [Files -> Versions] /\ Index \in [Files -> Indexes]
      /\ \A R \in Releases : R \in SUBSET Files
  BY MigrateAssumption
<1>1. CASE UNCHANGED vars
  BY <1>1 DEF vars
<1>2. ASSUME NEW p \in Runners, NEW l \in {"done", "failed"}, End(p, l)
      PROVE  run' \in [Runners -> Runner] /\ holder' \in Runners \cup {None}
  <2>1. [Idle EXCEPT !.pc = l, !.ship = run[p].ship] \in Runner
    BY IdleRunner, SomeRunners DEF PCs
  <2> QED BY <1>2, <2>1 DEF End
<1>3. ASSUME NEW p \in Runners, Start(p) PROVE TypeOK'
  <2>1. PICK R \in Releases, allow \in BOOLEAN :
          run' = [run EXCEPT ![p].pc = "wait", ![p].ship = R, ![p].allow = allow]
    BY <1>3 DEF Start
  <2>2. [run[p] EXCEPT !.pc = "wait", !.ship = R, !.allow = allow] \in Runner
    BY <1>0, SomeRunners DEF PCs
  <2>3. run' \in [Runners -> Runner]
    BY <2>1, <2>2
  <2> QED BY <1>0, <1>3, <2>3 DEF Start
<1>4. ASSUME NEW p \in Runners, NEW l \in PCs, Goto(p, l) PROVE run' \in [Runners -> Runner]
  BY <1>4, SomeRunners
<1>5. ASSUME NEW p \in Runners, Lock(p) \/ RunBody(p) PROVE TypeOK'
  BY <1>4, <1>5 DEF Lock, RunBody, PCs
<1>6. ASSUME NEW p \in Runners, Fail(p) \/ Refuse(p) \/ Finish(p) PROVE TypeOK'
  BY <1>2, <1>6 DEF Fail, Refuse, Finish
<1>7. ASSUME NEW p \in Runners, Read(p) \/ Skip(p) \/ Try(p) PROVE TypeOK'
  <2>1. PICK r \in Runner : run' = [run EXCEPT ![p] = r]
    <3>1. CASE Read(p)
      <4>1. [run[p] EXCEPT !.pc = "next", !.known = recorded, !.left = run[p].ship] \in Runner
        BY SomeRunners DEF PCs
      <4> QED BY <3>1, <4>1 DEF Read
    <3>2. CASE Skip(p)
      <4>1. \A f \in Files : run[p].left \ {f} \in SUBSET Files
        BY SomeRunners DEF PCs
      <4>2. \A f \in Files : [run[p] EXCEPT !.left = @ \ {f}] \in Runner
        BY <4>1, SomeRunners DEF PCs
      <4> QED BY <3>2, <4>2 DEF Skip
    <3>3. CASE Try(p)
      <4>1. [run[p] EXCEPT !.pc = "try", !.attempt = 1] \in Runner
        BY <1>0, SomeRunners DEF PCs
      <4> QED BY <3>3, <4>1 DEF Try
    <3> QED BY <1>7, <3>1, <3>2, <3>3
  <2> QED BY <1>7, <2>1 DEF Read, Skip, Try
<1>8. ASSUME NEW p \in Runners, Commit(p) \/ Record(p) PROVE TypeOK'
  <2>1. PICK f \in Files : Insert(p, f) /\ ran' = [ran EXCEPT ![f] = @ + 1]
    BY <1>8 DEF Commit, Record
  <2>2. recorded' \in [Versions -> Files \cup {None}] /\ ran' \in [Files -> Nat]
    BY <1>0, <2>1 DEF Insert
  <2>3. [run[p] EXCEPT !.pc = "next", !.left = @ \ {f}] \in Runner
    BY SomeRunners DEF PCs
  <2>4. run' \in [Runners -> Runner]
    BY <2>1, <2>3 DEF Insert
  <2> QED BY <1>8, <2>2, <2>4 DEF Commit, Record
<1>9. ASSUME NEW p \in Runners, Probe(p) PROVE TypeOK'
  <2>1. PICK f \in Files : LET l == AfterProbe(f, catalog[Index[f]]) IN
                             IF l = "failed" THEN End(p, l) ELSE Goto(p, l) /\ UNCHANGED holder
    BY <1>9 DEF Probe
  <2>2. AfterProbe(f, catalog[Index[f]]) \in {"failed", "create", "record", "drop"}
    BY DEF AfterProbe
  <2> QED BY <1>2, <1>4, <1>9, <2>1, <2>2 DEF Probe, PCs
<1>10. ASSUME NEW f \in Files, NEW o \in Objects
       PROVE  [catalog EXCEPT ![Index[f]] = o] \in [Indexes -> Objects]
  BY <1>0
<1>11. ASSUME NEW p \in Runners, Build(p) \/ BuildEnds(p) \/ Drop(p) \/ DropEnds(p) PROVE TypeOK'
  <2>1. catalog' \in [Indexes -> Objects]
    <3>1. PICK f \in Files, o \in Objects : catalog' = [catalog EXCEPT ![Index[f]] = o]
      <4>1. ASSUME Build(p) \/ BuildEnds(p)
            PROVE  \E f \in Files, o \in Objects : catalog' = [catalog EXCEPT ![Index[f]] = o]
        BY <4>1, SomeObjects DEF Build, BuildEnds
      <4>2. ASSUME Drop(p) \/ DropEnds(p)
            PROVE  \E f \in Files, o \in Objects : catalog' = [catalog EXCEPT ![Index[f]] = o]
        <5>1. \A f \in Files : Invalid(catalog[Index[f]]) \in Objects
          BY <1>0, SomeObjects
        <5> QED BY <4>2, <5>1, SomeObjects DEF Drop, DropEnds
      <4> QED BY <1>11, <4>1, <4>2
    <3> QED BY <1>10, <3>1
  <2>2. run' \in [Runners -> Runner]
    <3>1. CASE Build(p)
      <4>1. [run[p] EXCEPT !.pc = "building", !.waits = Waiting] \in Runner
        BY SomeRunners DEF PCs, Waiting
      <4> QED BY <3>1, <4>1 DEF Build
    <3>2. CASE BuildEnds(p) \/ Drop(p) \/ DropEnds(p)
      BY <1>4, <3>2 DEF BuildEnds, Drop, DropEnds, PCs
    <3> QED BY <1>11, <3>1, <3>2
  <2> QED BY <1>11, <2>1, <2>2 DEF Build, BuildEnds, Drop, DropEnds
<1>12. ASSUME NEW p \in Runners, Timeout(p) PROVE TypeOK'
  <2>1. CASE run[p].attempt < MaxAttempts /\ UNCHANGED holder
             /\ run' = [run EXCEPT ![p].pc = "try", ![p].attempt = @ + 1]
    <3>0. run[p].attempt \in 1..MaxAttempts
      BY SomeRunners DEF PCs
    <3>1. run[p].attempt + 1 \in 1..MaxAttempts
      BY <1>0, <2>1, <3>0
    <3>2. [run[p] EXCEPT !.pc = "try", !.attempt = @ + 1] \in Runner
      BY <3>1, SomeRunners DEF PCs
    <3> QED BY <1>12, <2>1, <3>2 DEF Timeout
  <2> QED BY <1>2, <1>12, <2>1 DEF Timeout
<1>13. ASSUME NEW p \in Runners, Orphan(p) PROVE TypeOK'
  <2>1. PICK f \in Files, o \in Objects : catalog' = [catalog EXCEPT ![Index[f]] = o]
    BY <1>13, SomeObjects DEF Orphan
  <2> QED BY <1>2, <1>10, <1>13, <2>1 DEF Orphan
<1>14. ASSUME NEW p \in Runners, Deadlock(p) PROVE TypeOK'
  BY <1>2, <1>14 DEF Deadlock, Waiting
<1> QED
  BY <1>1, <1>3, <1>5, <1>6, <1>7, <1>8, <1>9, <1>11, <1>12, <1>13, <1>14 DEF Next, Work

-----------------------------------------------------------------------------
(* One runner at work. *)

\* The first file left is unique: a release has one file of a version.
LEMMA OneFirst ==
  ASSUME TypeOK, NEW p \in Runners, run[p].ship \in Releases, Visits(p),
         NEW f \in Files, NEW g \in Files, First(p, f), First(p, g)
  PROVE  f = g
<1>1. Version[f] \in Nat /\ Version[g] \in Nat
  BY MigrateAssumption
<1>2. f \in run[p].ship /\ g \in run[p].ship /\ Version[f] = Version[g]
  BY <1>1 DEF First, Visits
<1> QED BY <1>2, MigrateAssumption

\* What a step leaves alone of a runner that does not take it.
LEMMA OthersKeep ==
  ASSUME TypeOK, NEW q \in Runners, Local(q), run'[q] = run[q],
         Working(q) => UNCHANGED <<recorded, catalog, holder>>,
         \A v \in Versions : recorded[v] # None => recorded'[v] = recorded[v]
  PROVE  Local(q)'
<1>1. CASE Working(q)
  BY <1>1 DEF Local, Working, Visits, Known, First, Target, Holds, At
<1>2. CASE ~Working(q)
  <2>1. run[q].pc \notin Visiting /\ run[q].pc \notin Doing
    BY <1>2 DEF Working, Ended, Visiting, Doing
  <2>2. At(q, "done") => \A f \in run[q].ship : recorded'[Version[f]] = f
    <3>1. At(q, "done") => run[q].ship \in Releases
      BY DEF Local, At
    <3>2. \A R \in Releases : \A f \in R : f \in Files /\ Version[f] \in Versions /\ f # None
      BY MigrateAssumption
    <3> QED BY <3>1, <3>2 DEF Local
  <2> QED BY <1>2, <2>1, <2>2 DEF Local, Working, At
<1> QED BY <1>1, <1>2

\* A step of the holder of the run lock disturbs no other runner.
LEMMA HolderAlone ==
  ASSUME Inv, NEW p \in Runners, Working(p),
         \A q \in Runners \ {p} : run'[q] = run[q],
         \A v \in Versions : recorded[v] # None => recorded'[v] = recorded[v]
  PROVE  \A q \in Runners \ {p} : Local(q)'
<1> SUFFICES ASSUME NEW q \in Runners, q # p PROVE Local(q)'
  OBVIOUS
<1>1. ~Working(q)
  BY DEF Inv, Local
<1> QED BY <1>1, OthersKeep DEF Inv

\* The file in hand, and what is known of it.
LEMMA InHand ==
  ASSUME Inv, NEW p \in Runners, run[p].pc \in Doing, NEW f \in Files, First(p, f)
  PROVE  /\ Working(p) /\ run[p].ship \in Releases /\ Visits(p) /\ Target(p, f)
         /\ recorded[Version[f]] = None
<1>1. Working(p) /\ run[p].pc # "off" /\ run[p].pc \in Visiting
  BY DEF Doing, Visiting, Working, Ended
<1>2. PICK g \in Files : First(p, g) /\ Target(p, g)
  BY DEF Inv, Local
<1>3. f = g
  BY <1>1, <1>2, OneFirst DEF Inv, Local
<1> QED BY <1>1, <1>2, <1>3 DEF Inv, Local, Target, Visits, First

-----------------------------------------------------------------------------
(* Steps that record a file. *)

\* A file is recorded at most once, in its place, and only when it holds.
LEMMA InsertKeeps ==
  ASSUME Inv, NEW p \in Runners, run[p].pc \in {"pending", "record"},
         NEW f \in Files, First(p, f), Insert(p, f), UNCHANGED <<catalog, holder>>, TypeOK'
  PROVE  Inv'
<1>0. /\ Working(p) /\ run[p].ship \in Releases /\ Visits(p) /\ Target(p, f)
      /\ recorded[Version[f]] = None
  BY InHand DEF Doing, Visiting
<1>1. Version[f] \in Versions /\ f # None
  BY MigrateAssumption
<1>2. /\ recorded' = [recorded EXCEPT ![Version[f]] = f]
      /\ run' = [run EXCEPT ![p].pc = "next", ![p].left = @ \ {f}]
  BY DEF Insert
<1>3. \A v \in Versions : recorded[v] # None => recorded'[v] = recorded[v]
  BY <1>0, <1>1, <1>2 DEF Inv, TypeOK
<1>4. \A v \in Versions : recorded'[v] = IF v = Version[f] THEN f ELSE recorded[v]
  BY <1>1, <1>2 DEF Inv, TypeOK
<1>5. Numbered'
  BY <1>4 DEF Inv, Numbered
<1>6. RecordedHolds'
  <2>1. Holds(f)
    BY <1>0 DEF Target, Holds
  <2>2. \A g : Holds(g)' <=> Holds(g)
    BY DEF Holds
  <2> QED BY <1>4, <2>1, <2>2 DEF Inv, RecordedHolds
<1>7. \A q \in Runners \ {p} : Local(q)'
  <2>1. \A q \in Runners \ {p} : run'[q] = run[q]
    BY <1>2 DEF Inv, TypeOK
  <2> QED BY <1>0, <1>3, <2>1, HolderAlone
<1>8. Local(p)'
  <2>1. /\ run'[p].pc = "next" /\ run'[p].left = run[p].left \ {f}
        /\ run'[p].ship = run[p].ship /\ run'[p].known = run[p].known
    BY <1>2 DEF Inv, TypeOK, Runner
  <2>2. holder' = p
    BY <1>0 DEF Inv, Local
  <2>3. \A g \in run[p].ship : g # f => Version[g] # Version[f] /\ Version[g] \in Versions
    BY <1>0, MigrateAssumption DEF First, Visits
  <2>4. f \in run[p].left /\ run[p].left \subseteq run[p].ship
    BY <1>0 DEF First, Visits
  <2>5. \A g \in run[p].ship \ run'[p].left : recorded'[Version[g]] = g
    BY <1>0, <1>1, <1>4, <2>1, <2>3 DEF Visits
  <2>6. \A g \in run'[p].left : recorded'[Version[g]] = run'[p].known[Version[g]]
    BY <1>0, <1>4, <2>1, <2>3, <2>4 DEF Visits, Known
  <2>7. Visits(p)'
    BY <2>1, <2>4, <2>5, <2>6 DEF Visits, Known
  <2> QED BY <1>0, <2>1, <2>2, <2>7 DEF Local, Doing, At
<1> QED BY <1>5, <1>6, <1>7, <1>8 DEF Inv

-----------------------------------------------------------------------------
(* Steps that change the catalog. *)

\* An index in hand belongs to no recorded file.
LEMMA CatalogKeeps ==
  ASSUME Inv, NEW f \in Files, Kind[f] # "sql", recorded[Version[f]] = None,
         NEW o, catalog' = [catalog EXCEPT ![Index[f]] = o], UNCHANGED recorded
  PROVE  RecordedHolds' /\ Numbered'
<1>1. Index[f] \in Indexes
  BY MigrateAssumption
<1>2. ASSUME NEW v \in Versions, recorded[v] # None PROVE Holds(recorded[v])'
  <2>1. recorded[v] \in Files /\ Version[recorded[v]] = v /\ v # Version[f]
    BY <1>2 DEF Inv, TypeOK, Numbered
  <2>2. Holds(recorded[v])
    BY <1>2 DEF Inv, RecordedHolds
  <2>3. CASE Kind[recorded[v]] = "sql"
    BY <2>3 DEF Holds
  <2>4. CASE Kind[recorded[v]] # "sql"
    <3>1. Index[recorded[v]] # Index[f]
      BY <2>1, <2>4, MigrateAssumption
    <3>2. Index[recorded[v]] \in Indexes
      BY <2>1, MigrateAssumption
    <3>3. catalog'[Index[recorded[v]]] = catalog[Index[recorded[v]]]
      BY <1>1, <3>1, <3>2 DEF Inv, TypeOK
    <3> QED BY <2>2, <3>3 DEF Holds
  <2> QED BY <2>3, <2>4
<1> QED BY <1>2 DEF RecordedHolds, Numbered, Inv

\* A step of p between two stages of the file in hand.
LEMMA StageKeeps ==
  ASSUME Inv, NEW p \in Runners, run[p].pc \in Doing, NEW f \in Files, First(p, f),
         UNCHANGED <<recorded, holder>>, TypeOK', Numbered', RecordedHolds',
         \A q \in Runners \ {p} : run'[q] = run[q],
         run'[p].pc \in Doing, run'[p].ship = run[p].ship, run'[p].left = run[p].left,
         run'[p].known = run[p].known, Target(p, f)'
  PROVE  Inv'
<1>1. /\ Working(p) /\ run[p].ship \in Releases /\ Visits(p)
  BY InHand
<1>2. \A q \in Runners \ {p} : Local(q)'
  BY <1>1, HolderAlone
<1>3. Visits(p)' /\ First(p, f)'
  BY <1>1 DEF Visits, First, Known
<1>4. holder' = p
  BY <1>1 DEF Inv, Local
<1>5. Local(p)'
  BY <1>1, <1>3, <1>4 DEF Local, At, Doing, Visiting
<1> QED BY <1>2, <1>5 DEF Inv

\* The build of an index, from its appearance to its end.
LEMMA BuildKeeps ==
  ASSUME Inv, NEW p \in Runners, Build(p) \/ BuildEnds(p), TypeOK'
  PROVE  Inv'
<1>0. run[p].pc \in Doing
  BY DEF Build, BuildEnds, At, Doing, Visiting
<1>1. PICK f \in Files : First(p, f) /\
        catalog' = [catalog EXCEPT ![Index[f]] = IF Build(p) THEN Invalid(Built(f)) ELSE Built(f)]
  BY DEF Build, BuildEnds
<1>2. Target(p, f) /\ recorded[Version[f]] = None
  BY <1>0, <1>1, InHand
<1>3. Kind[f] = "create" /\ Index[f] \in Indexes
  BY <1>2, MigrateAssumption DEF Target, Build, BuildEnds, At
<1>4. RecordedHolds' /\ Numbered'
  BY <1>1, <1>2, <1>3, CatalogKeeps DEF Build, BuildEnds
<1>5. /\ \A q \in Runners \ {p} : run'[q] = run[q]
      /\ run'[p].pc = IF Build(p) THEN "building" ELSE "record"
      /\ run'[p].ship = run[p].ship /\ run'[p].left = run[p].left /\ run'[p].known = run[p].known
  BY DEF Build, BuildEnds, Goto, At, Inv, TypeOK, Runner
<1>6. Target(p, f)'
  <2>1. catalog'[Index[f]] = IF Build(p) THEN Invalid(Built(f)) ELSE Built(f)
    BY <1>1, <1>3 DEF Inv, TypeOK
  <2> QED BY <1>2, <1>3, <1>5, <2>1 DEF Target, Known, Holds
<1> QED BY <1>0, <1>1, <1>4, <1>5, <1>6, StageKeeps DEF Build, BuildEnds, Doing, Visiting

\* The removal of what a file names, or of the invalid index in its place.
LEMMA DropKeeps ==
  ASSUME Inv, NEW p \in Runners, Drop(p) \/ DropEnds(p), TypeOK'
  PROVE  Inv'
<1>0. run[p].pc \in Doing /\ run[p].pc \in {"drop", "dropping"}
  BY DEF Drop, DropEnds, At, Doing, Visiting
<1>1. PICK f \in Files : First(p, f) /\
        catalog' = [catalog EXCEPT ![Index[f]] = IF Drop(p) THEN Invalid(@) ELSE Absent]
        /\ run' = [run EXCEPT ![p].pc = IF Drop(p) THEN "dropping" ELSE
                                          IF Kind[f] = "create" THEN "create" ELSE "record"]
  BY DEF Drop, DropEnds, Goto, At
<1>2. Target(p, f) /\ recorded[Version[f]] = None
  BY <1>0, <1>1, InHand
<1>3. /\ Kind[f] \in {"create", "drop"} /\ Index[f] \in Indexes
      /\ \/ Kind[f] = "create" /\ catalog[Index[f]] = Invalid(Built(f))
         \/ Kind[f] = "drop" /\ catalog[Index[f]].def # "table"
  BY <1>0, <1>2, MigrateAssumption DEF Target
<1>4. RecordedHolds' /\ Numbered'
  BY <1>1, <1>2, <1>3, CatalogKeeps DEF Drop, DropEnds
<1>5. /\ \A q \in Runners \ {p} : run'[q] = run[q]
      /\ run'[p].pc = IF Drop(p) THEN "dropping" ELSE IF Kind[f] = "create" THEN "create" ELSE "record"
      /\ run'[p].ship = run[p].ship /\ run'[p].left = run[p].left /\ run'[p].known = run[p].known
  BY <1>1 DEF Inv, TypeOK, Runner
<1>6. catalog'[Index[f]] = IF Drop(p) THEN Invalid(catalog[Index[f]]) ELSE Absent
  BY <1>1, <1>3 DEF Inv, TypeOK
<1>7. CASE Drop(p)
  <2>1. Invalid(Invalid(Built(f))) = Invalid(Built(f))
    BY DEF Invalid, Built
  <2>2. Invalid(catalog[Index[f]]).def = catalog[Index[f]].def
    BY <1>3 DEF Invalid, Inv, TypeOK, Objects
  <2>3. Target(p, f)'
    BY <1>2, <1>3, <1>5, <1>6, <1>7, <2>1, <2>2 DEF Target, Known
  <2> QED BY <1>0, <1>1, <1>4, <1>5, <1>7, <2>3, StageKeeps DEF Drop, Doing, Visiting
<1>8. CASE ~Drop(p)
  <2>1. Target(p, f)'
    BY <1>2, <1>3, <1>5, <1>6, <1>8 DEF Target, Known, Holds
  <2> QED BY <1>0, <1>1, <1>3, <1>4, <1>5, <1>8, <2>1, StageKeeps DEF DropEnds, Doing, Visiting
<1> QED BY <1>7, <1>8

-----------------------------------------------------------------------------
(* Ends, and the other steps. *)

\* A run that ends leaves the lock and, unless it is done, claims nothing.
LEMMA EndKeeps ==
  ASSUME Inv, NEW p \in Runners, run[p].pc \notin Ended, NEW l \in {"done", "failed"}, End(p, l),
         UNCHANGED recorded, Working(p) \/ UNCHANGED catalog,
         l = "done" => run[p].pc = "next" /\ run[p].left = {}, TypeOK', RecordedHolds'
  PROVE  Inv'
<1>1. /\ run' = [run EXCEPT ![p] = [Idle EXCEPT !.pc = l, !.ship = run[p].ship]]
      /\ holder' = IF holder = p THEN None ELSE holder
  BY DEF End
<1>2. /\ \A q \in Runners \ {p} : run'[q] = run[q]
      /\ run'[p].pc = l /\ run'[p].ship = run[p].ship
  BY <1>1 DEF Inv, TypeOK, Idle
<1>3. ASSUME NEW q \in Runners, q # p PROVE Local(q)'
  <2>1. Working(q) => holder = q /\ ~Working(p)
    BY <1>3 DEF Inv, Local
  <2> QED BY <1>1, <1>2, <1>3, <2>1, OthersKeep DEF Inv
<1>4. run[p].ship \in Releases
  BY DEF Inv, Local, Ended
<1>5. l = "done" => \A f \in run[p].ship : recorded[Version[f]] = f
  BY DEF Inv, Local, Visits, Visiting
<1>6. Local(p)'
  BY <1>2, <1>4, <1>5 DEF Local, Working, Ended, Visiting, Doing, At
<1> QED BY <1>3, <1>6 DEF Inv, Numbered

\* Steps that change no table.
LEMMA QuietKeeps ==
  ASSUME Inv, UNCHANGED <<recorded, catalog>> PROVE Numbered' /\ RecordedHolds'
BY DEF Inv, Numbered, RecordedHolds, Holds

\* A runner before it has the lock, and when it has it.
LEMMA LockKeeps ==
  ASSUME Inv, NEW p \in Runners, Start(p) \/ Lock(p) \/ Read(p), TypeOK'
  PROVE  Inv'
<1>1. Numbered' /\ RecordedHolds' /\ UNCHANGED <<recorded, catalog>>
  BY QuietKeeps DEF Start, Lock, Read, db
<1>2. \A q \in Runners \ {p} : run'[q] = run[q]
  BY DEF Start, Lock, Read, Goto, Inv, TypeOK
<1>3. ~Working(p) \/ UNCHANGED holder
  BY DEF Start, Lock, Read, At, Working, Ended, db
<1>4. ASSUME NEW q \in Runners, q # p PROVE Local(q)'
  <2>1. Working(q) => UNCHANGED holder
    BY <1>4, MigrateAssumption DEF Start, Lock, Read, db, Inv, Local
  <2> QED BY <1>1, <1>2, <1>4, <2>1, OthersKeep DEF Inv
<1>5. CASE Start(p)
  <2>1. run'[p].pc = "wait" /\ run'[p].ship \in Releases
    BY <1>5 DEF Start, Inv, TypeOK, Runner
  <2> QED BY <1>1, <1>4, <2>1 DEF Inv, Local, Working, Visiting, Doing, At
<1>6. CASE Lock(p)
  <2>1. run'[p].pc = "read" /\ run'[p].ship = run[p].ship /\ holder' = p
    BY <1>6 DEF Lock, Goto, Inv, TypeOK, Runner
  <2>2. run[p].ship \in Releases
    BY <1>6 DEF Lock, At, Inv, Local
  <2> QED BY <1>1, <1>4, <2>1, <2>2 DEF Inv, Local, Working, Visiting, Doing, At
<1>7. CASE Read(p)
  <2>1. /\ run'[p].pc = "next" /\ run'[p].ship = run[p].ship
        /\ run'[p].left = run[p].ship /\ run'[p].known = recorded
    BY <1>7 DEF Read, Inv, TypeOK, Runner
  <2>2. run[p].ship \in Releases /\ holder' = p
    BY <1>7 DEF Read, At, db, Inv, Local, Working, Ended
  <2>3. Visits(p)'
    BY <1>1, <2>1 DEF Visits, Known
  <2> QED BY <1>1, <1>4, <2>1, <2>2, <2>3 DEF Inv, Local, Visiting, Doing, At
<1> QED BY <1>5, <1>6, <1>7

\* A visited file is passed over; an unknown one is tried.
LEMMA NextKeeps ==
  ASSUME Inv, NEW p \in Runners, Skip(p) \/ Try(p), TypeOK'
  PROVE  Inv'
<1>1. Numbered' /\ RecordedHolds' /\ UNCHANGED <<recorded, catalog, holder>>
  BY QuietKeeps DEF Skip, Try, db
<1>2. Working(p) /\ run[p].ship \in Releases /\ Visits(p) /\ holder = p
  BY DEF Skip, Try, At, Inv, Local, Working, Ended, Visiting
<1>3. \A q \in Runners \ {p} : run'[q] = run[q]
  BY DEF Skip, Try, Inv, TypeOK
<1>4. \A q \in Runners \ {p} : Local(q)'
  BY <1>1, <1>2, <1>3, HolderAlone
<1>5. CASE Skip(p)
  <2>1. PICK f \in Files : /\ First(p, f) /\ Known(p, f) = f
                           /\ run' = [run EXCEPT ![p].left = @ \ {f}]
    BY <1>5 DEF Skip
  <2>2. /\ run'[p].pc = "next" /\ run'[p].left = run[p].left \ {f}
        /\ run'[p].ship = run[p].ship /\ run'[p].known = run[p].known
    BY <1>5, <2>1 DEF Skip, At, Inv, TypeOK, Runner
  <2>3. recorded[Version[f]] = f
    BY <1>2, <2>1 DEF First, Visits
  <2>4. Visits(p)'
    BY <1>1, <1>2, <2>2, <2>3 DEF Visits, Known
  <2> QED BY <1>1, <1>2, <1>4, <2>2, <2>4 DEF Inv, Local, Doing, At
<1>6. CASE Try(p)
  <2>1. PICK f \in Files : First(p, f) /\ Known(p, f) = None
    BY <1>6 DEF Try
  <2>2. /\ run'[p].pc = "try" /\ run'[p].left = run[p].left
        /\ run'[p].ship = run[p].ship /\ run'[p].known = run[p].known
    BY <1>6 DEF Try, Inv, TypeOK, Runner
  <2>3. First(p, f)' /\ Target(p, f)' /\ Visits(p)'
    BY <1>1, <1>2, <2>1, <2>2 DEF First, Target, Visits, Known
  <2> QED BY <1>1, <1>2, <1>4, <2>2, <2>3 DEF Inv, Local, At
<1> QED BY <1>5, <1>6

\* The statement of a file is chosen, or tried again.
LEMMA TryKeeps ==
  ASSUME Inv, NEW p \in Runners, TypeOK', UNCHANGED <<recorded, catalog, holder>>,
         run[p].pc \in Doing,
         \A q \in Runners \ {p} : run'[q] = run[q],
         run'[p].ship = run[p].ship, run'[p].left = run[p].left, run'[p].known = run[p].known,
         \/ run'[p].pc = "try"
         \/ run'[p].pc = "pending" /\ \E f \in Files : First(p, f) /\ ~Concurrent(f)
         \/ /\ run'[p].pc \in {"create", "record", "drop"}
            /\ \E f \in Files :
                 /\ First(p, f) /\ Concurrent(f)
                 /\ run'[p].pc = AfterProbe(f, catalog[Index[f]])
  PROVE  Inv'
<1>1. PICK f \in Files : First(p, f)
  BY DEF Inv, Local
<1>2. Visits(p) /\ run[p].ship \in Releases /\ Target(p, f)
  BY <1>1, InHand
<1>3. \A g \in Files : First(p, g) => g = f
  BY <1>1, <1>2, OneFirst DEF Inv
<1>4. Kind[f] \in {"sql", "create", "drop"} /\ Absent.def # "table"
  BY MigrateAssumption DEF Absent
<1>5. Target(p, f)'
  <2>1. CASE run'[p].pc = "try"
    BY <1>2, <2>1 DEF Target, Known
  <2>2. CASE run'[p].pc = "pending" /\ ~Concurrent(f)
    BY <1>2, <2>2 DEF Target, Known, Concurrent
  <2>3. CASE /\ run'[p].pc \in {"create", "record", "drop"} /\ Concurrent(f)
             /\ run'[p].pc = AfterProbe(f, catalog[Index[f]])
    <3>1. CASE run'[p].pc = "create"
      <4>1. Kind[f] = "create" /\ catalog[Index[f]] = Absent
        BY <1>4, <2>3, <3>1 DEF AfterProbe
      <4> QED BY <1>2, <3>1, <4>1 DEF Target, Known
    <3>2. CASE run'[p].pc = "record"
      <4>1. \/ Kind[f] = "drop" /\ catalog[Index[f]] = Absent
            \/ Kind[f] = "create" /\ catalog[Index[f]] = Built(f)
        BY <1>4, <2>3, <3>2 DEF AfterProbe, Concurrent
      <4> QED BY <1>2, <3>2, <4>1 DEF Target, Known, Holds
    <3>3. CASE run'[p].pc = "drop"
      <4>1. \/ Kind[f] = "create" /\ catalog[Index[f]] = Invalid(Built(f))
            \/ Kind[f] = "drop" /\ catalog[Index[f]].def # "table"
        BY <1>4, <2>3, <3>3 DEF AfterProbe, Concurrent
      <4> QED BY <1>2, <3>3, <4>1 DEF Target, Known
    <3> QED BY <2>3, <3>1, <3>2, <3>3
  <2> QED BY <1>3, <2>1, <2>2, <2>3
<1>6. run'[p].pc \in Doing
  BY DEF Doing, Visiting
<1> QED BY <1>1, <1>5, <1>6, QuietKeeps, StageKeeps

\* A try, a retry and a probe.
LEMMA ChoiceKeeps ==
  ASSUME Inv, NEW p \in Runners, RunBody(p) \/ Probe(p) \/ Timeout(p), TypeOK'
  PROVE  Inv'
<1>1. run[p].pc \in Doing /\ run[p].pc \notin Ended /\ Working(p)
  BY DEF RunBody, Probe, Timeout, Trying, At, Doing, Visiting, Ended, Working
<1>2. UNCHANGED <<recorded, catalog>>
  BY DEF RunBody, Probe, Timeout, db
<1>3. CASE End(p, "failed")
  BY <1>1, <1>2, <1>3, QuietKeeps, EndKeeps
<1>4. ASSUME NEW l \in PCs, Goto(p, l)
      PROVE  /\ \A q \in Runners \ {p} : run'[q] = run[q]
             /\ run'[p].pc = l /\ run'[p].ship = run[p].ship
             /\ run'[p].left = run[p].left /\ run'[p].known = run[p].known
  BY <1>4 DEF Goto, Inv, TypeOK, Runner
<1>5. CASE RunBody(p)
  BY <1>1, <1>4, <1>5, TryKeeps DEF RunBody, PCs, db
<1>6. CASE Probe(p) /\ ~End(p, "failed")
  <2>1. PICK f \in Files : /\ First(p, f) /\ Concurrent(f)
                           /\ LET l == AfterProbe(f, catalog[Index[f]]) IN
                                IF l = "failed" THEN End(p, l) ELSE Goto(p, l) /\ UNCHANGED holder
    BY <1>6 DEF Probe
  <2>2. AfterProbe(f, catalog[Index[f]]) \in {"create", "record", "drop"}
    BY <1>6, <2>1 DEF AfterProbe
  <2>3. UNCHANGED holder /\ Goto(p, AfterProbe(f, catalog[Index[f]]))
    BY <2>1, <2>2
  <2>4. AfterProbe(f, catalog[Index[f]]) \in PCs
    BY <2>2 DEF PCs
  <2>5. /\ \A q \in Runners \ {p} : run'[q] = run[q]
        /\ run'[p].pc = AfterProbe(f, catalog[Index[f]]) /\ run'[p].ship = run[p].ship
        /\ run'[p].left = run[p].left /\ run'[p].known = run[p].known
    BY <1>4, <2>3, <2>4
  <2> QED BY <1>1, <1>2, <2>1, <2>2, <2>3, <2>5, TryKeeps
<1>7. CASE Timeout(p) /\ ~End(p, "failed")
  <2>1. UNCHANGED holder /\ run' = [run EXCEPT ![p].pc = "try", ![p].attempt = @ + 1]
    BY <1>7 DEF Timeout
  <2>2. /\ \A q \in Runners \ {p} : run'[q] = run[q]
        /\ run'[p].pc = "try" /\ run'[p].ship = run[p].ship
        /\ run'[p].left = run[p].left /\ run'[p].known = run[p].known
    BY <2>1 DEF Inv, TypeOK, Runner
  <2> QED BY <1>1, <1>2, <2>1, <2>2, TryKeeps
<1> QED BY <1>3, <1>5, <1>6, <1>7

\* A run ends, in whatever way.
LEMMA LastKeeps ==
  ASSUME Inv, NEW p \in Runners, Refuse(p) \/ Finish(p) \/ Fail(p) \/ Deadlock(p) \/ Orphan(p),
         TypeOK'
  PROVE  Inv'
<1>1. CASE Refuse(p) \/ Fail(p)
  <2>1. run[p].pc \notin Ended /\ End(p, "failed") /\ UNCHANGED <<recorded, catalog>>
    BY <1>1 DEF Refuse, Fail, At, Ended
  <2> QED BY <2>1, QuietKeeps, EndKeeps
<1>2. CASE Finish(p)
  <2>1. /\ run[p].pc = "next" /\ run[p].left = {} /\ run[p].pc \notin Ended
        /\ End(p, "done") /\ UNCHANGED <<recorded, catalog>>
    BY <1>2 DEF Finish, At, Ended
  <2> QED BY <2>1, QuietKeeps, EndKeeps
<1>3. CASE Deadlock(p)
  <2>1. PICK q \in Runners : run[q].pc \notin Ended /\ End(q, "failed")
    BY <1>3 DEF Deadlock, Waiting, At, Ended
  <2>2. UNCHANGED <<recorded, catalog>>
    BY <1>3 DEF Deadlock
  <2> QED BY <2>1, <2>2, QuietKeeps, EndKeeps
<1>4. CASE Orphan(p)
  <2>1. run[p].pc \in Doing /\ run[p].pc \in {"building", "dropping"} /\ run[p].pc \notin Ended
    BY <1>4 DEF Orphan, At, Doing, Visiting, Ended
  <2>2. PICK f \in Files, o \in Objects : /\ First(p, f)
                                          /\ catalog' = [catalog EXCEPT ![Index[f]] = o]
    BY <1>4, SomeObjects DEF Orphan
  <2>3. Working(p) /\ Target(p, f) /\ recorded[Version[f]] = None
    BY <2>1, <2>2, InHand
  <2>4. Kind[f] # "sql"
    BY <2>1, <2>3 DEF Target
  <2>5. RecordedHolds' /\ Numbered'
    BY <1>4, <2>2, <2>3, <2>4, CatalogKeeps DEF Orphan
  <2> QED BY <1>4, <2>1, <2>3, <2>5, EndKeeps DEF Orphan
<1> QED BY <1>1, <1>2, <1>3, <1>4

LEMMA InitInv == Init => Inv
<1> SUFFICES ASSUME Init PROVE Inv
  OBVIOUS
<1>1. TypeOK
  BY IdleRunner, MigrateAssumption DEF Init, TypeOK
<1>2. \A p \in Runners : run[p].pc = "off"
  BY DEF Init, Idle
<1>3. \A p \in Runners : Local(p)
  BY <1>2 DEF Local, Working, Ended, Visiting, Doing, At
<1>4. Numbered /\ RecordedHolds
  BY DEF Init, Numbered, RecordedHolds
<1> QED BY <1>1, <1>3, <1>4 DEF Inv

LEMMA StepKeeps ==
  ASSUME Inv, [Next]_vars
  PROVE  Inv'
<1>1. TypeOK'
  BY TypeInductive DEF Inv
<1>2. CASE UNCHANGED vars
  <2>1. Numbered' /\ RecordedHolds'
    BY <1>2, QuietKeeps DEF vars
  <2>2. \A p \in Runners : Local(p)'
    BY <1>2, OthersKeep DEF vars, Inv
  <2> QED BY <1>1, <2>1, <2>2 DEF Inv
<1>3. ASSUME NEW p \in Runners, Start(p) \/ Lock(p) \/ Read(p) PROVE Inv'
  BY <1>1, <1>3, LockKeeps
<1>4. ASSUME NEW p \in Runners, Skip(p) \/ Try(p) PROVE Inv'
  BY <1>1, <1>4, NextKeeps
<1>5. ASSUME NEW p \in Runners, Refuse(p) \/ Finish(p) \/ Fail(p) \/ Deadlock(p) \/ Orphan(p)
      PROVE  Inv'
  BY <1>1, <1>5, LastKeeps
<1>6. ASSUME NEW p \in Runners, RunBody(p) \/ Probe(p) \/ Timeout(p) PROVE Inv'
  BY <1>1, <1>6, ChoiceKeeps
<1>7. ASSUME NEW p \in Runners, Build(p) \/ BuildEnds(p) PROVE Inv'
  BY <1>1, <1>7, BuildKeeps
<1>8. ASSUME NEW p \in Runners, Drop(p) \/ DropEnds(p) PROVE Inv'
  BY <1>1, <1>8, DropKeeps
<1>9. ASSUME NEW p \in Runners, Commit(p) \/ Record(p) PROVE Inv'
  <2>1. PICK f \in Files : First(p, f) /\ Insert(p, f)
    BY <1>9 DEF Commit, Record
  <2> QED BY <1>1, <1>9, <2>1, InsertKeeps DEF Commit, Record, At
<1> QED BY <1>2, <1>3, <1>4, <1>5, <1>6, <1>7, <1>8, <1>9 DEF Next, Work

-----------------------------------------------------------------------------
(* Theorems. *)

\* What a run knows while it works, the types included, holds in every reachable
\* state of any number of runners.
THEOREM MigrateInductive == Spec => []Inv
<1>1. Inv /\ [Next]_vars => Inv'
  BY StepKeeps
<1> QED BY InitInv, <1>1, PTL DEF Spec

\* A recorded index statement has taken effect and nothing undoes it: its index is
\* valid and as the file defines it, or gone.
THEOREM MigrateRecorded == Spec => []RecordedHolds
<1>1. Inv => RecordedHolds
  BY DEF Inv
<1> QED BY <1>1, MigrateInductive, PTL

\* A run that reports success leaves a database of its release, whatever other runs
\* do at the same time or afterwards.
THEOREM MigrateDone == Spec => []DoneIsReady
<1>1. ASSUME Inv, NEW p \in Runners, At(p, "done")
      PROVE  Ready(run[p].ship) /\ \A f \in run[p].ship : Holds(f)
  <2>1. run[p].ship \in Releases /\ \A f \in run[p].ship : recorded[Version[f]] = f
    BY <1>1 DEF Inv, Local, At
  <2>2. \A f \in run[p].ship : f \in Files /\ Version[f] \in Versions /\ f # None
    BY <2>1, MigrateAssumption
  <2>3. \A f \in run[p].ship : Holds(f)
    BY <1>1, <2>1, <2>2 DEF Inv, RecordedHolds
  <2> QED BY <2>1, <2>3 DEF Ready
<1>2. Inv => DoneIsReady
  BY <1>1 DEF DoneIsReady
<1> QED BY <1>2, MigrateInductive, PTL

\* "Anything else: abort; nothing is dropped": no run, of any release, touches a
\* table or an index no file asks to drop.
THEOREM MigrateForeign == Spec => ForeignKept
<1>1. ASSUME Inv, NEW f \in Files, NEW o, catalog' = [catalog EXCEPT ![Index[f]] = o],
             ~Foreign(Index[f])
      PROVE  \A i \in Indexes : Foreign(i) => catalog'[i] = catalog[i]
  BY <1>1 DEF Inv, TypeOK
<1>2. ASSUME Inv, NEW p \in Runners, NEW f \in Files, First(p, f),
             run[p].pc \in {"create", "building", "drop", "dropping"}
      PROVE  ~Foreign(Index[f])
  <2>1. Target(p, f)
    BY <1>2, InHand DEF Doing, Visiting
  <2>2. f \notin Others
    BY MigrateAssumption
  <2>3. \/ catalog[Index[f]].def \in {"absent", f}
        \/ Kind[f] = "drop" /\ catalog[Index[f]].def # "table"
    BY <1>2, <2>1 DEF Target, Absent, Invalid, Built
  <2> QED BY <2>2, <2>3 DEF Foreign, Others
<1>3. ASSUME Inv, NEW p \in Runners,
             Build(p) \/ BuildEnds(p) \/ Drop(p) \/ DropEnds(p) \/ Orphan(p)
      PROVE  \A i \in Indexes : Foreign(i) => catalog'[i] = catalog[i]
  <2>1. PICK f \in Files : First(p, f) /\ \E o : catalog' = [catalog EXCEPT ![Index[f]] = o]
    BY <1>3 DEF Build, BuildEnds, Drop, DropEnds, Orphan
  <2>2. run[p].pc \in {"create", "building", "drop", "dropping"}
    BY <1>3 DEF Build, BuildEnds, Drop, DropEnds, Orphan, At
  <2> QED BY <1>1, <1>2, <1>3, <2>1, <2>2
<1>4. ASSUME NEW p \in Runners,
             \/ Start(p) \/ Lock(p) \/ Fail(p)
             \/ Read(p) \/ Skip(p) \/ Refuse(p) \/ Try(p) \/ Finish(p)
             \/ RunBody(p) \/ Commit(p) \/ Probe(p) \/ Record(p) \/ Timeout(p) \/ Deadlock(p)
      PROVE  UNCHANGED catalog
  BY <1>4 DEF Start, Lock, Fail, Read, Skip, Refuse, Try, Finish, RunBody, Commit, Probe,
              Record, Timeout, Deadlock, db
<1>5. Inv /\ [Next]_vars => [\A i \in Indexes : Foreign(i) => catalog'[i] = catalog[i]]_vars
  BY <1>3, <1>4 DEF Next, Work
<1> QED BY <1>5, MigrateInductive, PTL DEF Spec, ForeignKept

\* However many runners, releases and interruptions: the database takes files in
\* order of version, each at most once, and counts none that it did not take.
THEOREM MigrateOrder == Spec => InOrderOnce
<1>1. Init => Promise!Init
  BY DEF Init, Promise!Init
<1>2. ASSUME Inv, NEW p \in Runners, Commit(p) \/ Record(p)
      PROVE  Promise!Next
  <2>1. PICK f \in Files : First(p, f) /\ Insert(p, f) /\ ran' = [ran EXCEPT ![f] = @ + 1]
    BY <1>2 DEF Commit, Record
  <2>2. run[p].ship \in Releases /\ Visits(p) /\ recorded[Version[f]] = None
    BY <1>2, <2>1, InHand DEF Commit, Record, At, Doing, Visiting
  <2>3. \A g \in run[p].ship : Version[g] \in Nat /\ Version[f] \in Nat
    BY <2>2, MigrateAssumption
  <2>4. ASSUME NEW g \in run[p].ship, Version[g] < Version[f]
        PROVE  recorded[Version[g]] = g
    <3>1. g \notin run[p].left
      BY <2>1, <2>3, <2>4 DEF First
    <3> QED BY <2>2, <2>4, <3>1 DEF Visits
  <2>5. f \in run[p].ship /\ Promise!Due(f, run[p].ship)
    BY <2>1, <2>2, <2>4 DEF First, Visits, Promise!Due
  <2>6. Promise!Take(f)
    BY <2>1, <2>2, <2>5 DEF Promise!Take, Insert
  <2> QED BY <2>6 DEF Promise!Next
<1>3. ASSUME NEW p \in Runners,
             \/ Start(p) \/ Lock(p) \/ Fail(p) \/ Orphan(p)
             \/ Read(p) \/ Skip(p) \/ Refuse(p) \/ Try(p) \/ Finish(p)
             \/ RunBody(p) \/ Probe(p) \/ Build(p) \/ BuildEnds(p) \/ Drop(p) \/ DropEnds(p)
             \/ Timeout(p) \/ Deadlock(p)
      PROVE  UNCHANGED <<recorded, ran>>
  BY <1>3 DEF Start, Lock, Fail, Orphan, Read, Skip, Refuse, Try, Finish, RunBody, Probe, Build,
              BuildEnds, Drop, DropEnds, Timeout, Deadlock, db
<1>4. Inv /\ [Next]_vars => [Promise!Next]_<<recorded, ran>>
  BY <1>2, <1>3 DEF Next, Work, vars
<1> QED BY <1>1, <1>4, MigrateInductive, PTL DEF Spec, InOrderOnce, Promise!Spec
=============================================================================
