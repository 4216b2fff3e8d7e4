------------------------------- MODULE Migrate -------------------------------
(***************************************************************************)
(* The migration runner (packages/db/src/migrate.ts), started any number   *)
(* of times, by deployments that ship different releases, and interrupted  *)
(* anywhere.  A release is a set of files; a file is its content, so that  *)
(* equal checksums are equal files.                                        *)
(*                                                                         *)
(* A transactional file commits together with its record.  A concurrent    *)
(* file is one index statement outside a transaction: the server shows an  *)
(* invalid index while it builds or drops it, and the record is a later    *)
(* statement of its own.                                                   *)
(***************************************************************************)
EXTENDS Naturals

CONSTANTS
  Versions, Files, Version, Releases, None,
  Kind,         \* "sql", or the concurrent statement: "create" or "drop"
  Index,        \* the index a concurrent file is about
  Malformed,    \* files without a header, or whose statement does not parse
  Blocking,     \* files whose impact blocks writers
  Indexes,      \* index names
  Found,        \* what may be there under the index names when it all begins
  Runners,
  MaxAttempts,
  MaxStarts     \* bounds how often runners are started

\* What the catalog says of a name: no object, a table, an index defined as some
\* file defines it or otherwise.
Others == {"absent", "table", "other"}
Objects == [def: Files \cup Others, valid: BOOLEAN]
Absent == [def |-> "absent", valid |-> FALSE]

\* An index whose definition normalizes to what the file says.
Built(f) == [def |-> f, valid |-> TRUE]
Invalid(o) == [o EXCEPT !.valid = FALSE]

ASSUME MigrateAssumption ==
  /\ Versions \subseteq Nat
  /\ Version \in [Files -> Versions]
  /\ None \notin Files /\ Files \cap Others = {} /\ None \notin Runners
  /\ Releases \subseteq SUBSET Files
  /\ \A R \in Releases : \A f, g \in R : Version[f] = Version[g] => f = g
  /\ Kind \in [Files -> {"sql", "create", "drop"}]
  /\ Index \in [Files -> Indexes]
  /\ \A f, g \in Files :
       (Kind[f] # "sql" /\ Kind[g] # "sql" /\ Index[f] = Index[g]) => Version[f] = Version[g]
  /\ Malformed \subseteq Files /\ Blocking \subseteq Files
  /\ Found \subseteq [Indexes -> Objects]
  /\ MaxAttempts \in Nat \ {0} /\ MaxStarts \in Nat

VARIABLES
  recorded,     \* dastar.schema_migration
  ran,          \* how often a file has taken effect: a body committed, an index recorded
  catalog,      \* the object under each index name
  holder,       \* who holds the advisory run lock
  run,          \* the runners
  starts        \* how many runs were started

db == <<recorded, ran, catalog, holder, starts>>
vars == <<recorded, ran, catalog, holder, run, starts>>

PCs == {"off", "wait", "read", "next", "try", "pending", "create", "building",
        "drop", "dropping", "record", "done", "failed"}
Ended == {"off", "done", "failed"}

\* known is the map of applied files read under the lock, left the files still
\* to visit, waits the runners whose snapshots an index build waits for.
Runner == [pc: PCs, ship: SUBSET Files, allow: BOOLEAN, known: [Versions -> Files \cup {None}],
           left: SUBSET Files, attempt: 1..MaxAttempts, waits: SUBSET Runners]

TypeOK ==
  /\ recorded \in [Versions -> Files \cup {None}]
  /\ ran \in [Files -> Nat]
  /\ catalog \in [Indexes -> Objects]
  /\ holder \in Runners \cup {None}
  /\ run \in [Runners -> Runner]
  /\ starts \in 0..MaxStarts

Idle == [pc |-> "off", ship |-> {}, allow |-> FALSE, known |-> [v \in Versions |-> None],
         left |-> {}, attempt |-> 1, waits |-> {}]

Init ==
  /\ recorded = [v \in Versions |-> None]
  /\ ran = [f \in Files |-> 0]
  /\ catalog \in Found
  /\ holder = None
  /\ run = [p \in Runners |-> Idle]
  /\ starts = 0

-----------------------------------------------------------------------------

At(p, l) == run[p].pc = l
Goto(p, l) == run' = [run EXCEPT ![p].pc = l]

\* The header gives the mode; a file outside a transaction must parse as one
\* concurrent index statement.
Concurrent(f) == Kind[f] # "sql"
Parses(f) == f \notin Malformed

\* The files are visited in order of version.
First(p, f) == f \in run[p].left /\ \A g \in run[p].left : Version[f] <= Version[g]
Known(p, f) == run[p].known[Version[f]]

\* The run ends: finally unlocks, and the end of the session would.
End(p, l) ==
  /\ run' = [run EXCEPT ![p] = [Idle EXCEPT !.pc = l, !.ship = run[p].ship]]
  /\ holder' = IF holder = p THEN None ELSE holder

Start(p) ==
  /\ run[p].pc \in Ended /\ starts < MaxStarts
  /\ \E R \in Releases, allow \in BOOLEAN :
       run' = [run EXCEPT ![p].pc = "wait", ![p].ship = R, ![p].allow = allow]
  /\ starts' = starts + 1
  /\ UNCHANGED <<recorded, ran, catalog, holder>>

Lock(p) ==
  /\ At(p, "wait") /\ holder = None
  /\ holder' = p
  /\ Goto(p, "read")
  /\ UNCHANGED <<recorded, ran, catalog, starts>>

Read(p) ==
  /\ At(p, "read")
  /\ run' = [run EXCEPT ![p].pc = "next", ![p].known = recorded, ![p].left = run[p].ship]
  /\ UNCHANGED db

\* Mutant: a file whose version is recorded is skipped whatever its checksum.
SkipUnverified(p) ==
  /\ At(p, "next")
  /\ \E f \in Files :
       /\ First(p, f) /\ Known(p, f) # None
       /\ run' = [run EXCEPT ![p].left = @ \ {f}]
  /\ UNCHANGED db

Skip(p) ==
  /\ At(p, "next")
  /\ \E f \in Files :
       /\ First(p, f) /\ Known(p, f) = f
       /\ run' = [run EXCEPT ![p].left = @ \ {f}]
  /\ UNCHANGED db

\* A checksum mismatch, a malformed file, a blocking file in normal service: all
\* refused before any statement of the file reaches the database.
Refused(p, f) ==
  \/ Known(p, f) \notin {None, f}
  \/ Known(p, f) = None /\ (~Parses(f) \/ (f \in Blocking /\ ~run[p].allow))

Refuse(p) ==
  /\ At(p, "next")
  /\ \E f \in Files : First(p, f) /\ Refused(p, f)
  /\ End(p, "failed")
  /\ UNCHANGED <<recorded, ran, catalog, starts>>

Try(p) ==
  /\ At(p, "next")
  /\ \E f \in Files : First(p, f) /\ Known(p, f) = None /\ ~Refused(p, f)
  /\ run' = [run EXCEPT ![p].pc = "try", ![p].attempt = 1]
  /\ UNCHANGED db

Finish(p) ==
  /\ At(p, "next") /\ run[p].left = {}
  /\ End(p, "done")
  /\ UNCHANGED <<recorded, ran, catalog, starts>>

-----------------------------------------------------------------------------
(* A transactional file: begin, its body, its record, commit. *)

\* Mutant: the body commits before its record.
RunBodyAlone(p) ==
  /\ At(p, "try")
  /\ \E f \in Files :
       /\ First(p, f) /\ ~Concurrent(f)
       /\ ran' = [ran EXCEPT ![f] = @ + 1]
  /\ Goto(p, "record")
  /\ UNCHANGED <<recorded, catalog, holder, starts>>

RunBody(p) ==
  /\ At(p, "try")
  /\ \E f \in Files : First(p, f) /\ ~Concurrent(f)
  /\ Goto(p, "pending")
  /\ UNCHANGED db

\* The row's primary key is the version: a second record of one fails.
Insert(p, f) ==
  /\ recorded[Version[f]] = None
  /\ recorded' = [recorded EXCEPT ![Version[f]] = f]
  /\ run' = [run EXCEPT ![p].pc = "next", ![p].left = @ \ {f}]

Commit(p) ==
  /\ At(p, "pending")
  /\ \E f \in Files :
       /\ First(p, f)
       /\ Insert(p, f)
       /\ ran' = [ran EXCEPT ![f] = @ + 1]
  /\ UNCHANGED <<catalog, holder, starts>>

-----------------------------------------------------------------------------
(* A concurrent file. *)

\* Mutant: a name match is taken for the index.
AfterProbeByName(f, o) ==
  IF o = Absent THEN IF Kind[f] = "create" THEN "create" ELSE "record"
  ELSE IF Kind[f] = "drop" THEN "drop" ELSE "record"

\* Mutant: whatever is in the way of an index is dropped.
AfterProbeRebuild(f, o) ==
  CASE o = Absent -> IF Kind[f] = "create" THEN "create" ELSE "record"
    [] o = Built(f) -> "record"
    [] OTHER -> "drop"

\* What the object found under the statement's name decides the action.
AfterProbe(f, o) ==
  CASE o.def = "table" -> "failed"
    [] o = Absent -> IF Kind[f] = "create" THEN "create" ELSE "record"
    [] o # Absent /\ o.def # "table" /\ Kind[f] = "drop" -> "drop"
    [] o = Built(f) /\ Kind[f] = "create" -> "record"
    [] o = Invalid(Built(f)) /\ Kind[f] = "create" -> "drop"
    [] OTHER -> "failed"

Probe(p) ==
  /\ At(p, "try")
  /\ \E f \in Files :
       /\ First(p, f) /\ Concurrent(f)
       /\ LET l == AfterProbe(f, catalog[Index[f]]) IN
            IF l = "failed" THEN End(p, l) ELSE Goto(p, l) /\ UNCHANGED holder
  /\ UNCHANGED <<recorded, ran, catalog, starts>>

Waiting == {q \in Runners : At(q, "wait")}

\* The index appears, not yet valid; the build will wait for every snapshot that
\* is older than its own, those of the waiting `select pg_advisory_lock` included.
Build(p) ==
  /\ At(p, "create")
  /\ \E f \in Files :
       /\ First(p, f)
       /\ catalog' = [catalog EXCEPT ![Index[f]] = Invalid(Built(f))]
  /\ run' = [run EXCEPT ![p].pc = "building", ![p].waits = Waiting]
  /\ UNCHANGED <<recorded, ran, holder, starts>>

BuildEnds(p) ==
  /\ At(p, "building") /\ run[p].waits \cap Waiting = {}
  /\ \E f \in Files :
       /\ First(p, f)
       /\ catalog' = [catalog EXCEPT ![Index[f]] = Built(f)]
  /\ Goto(p, "record")
  /\ UNCHANGED <<recorded, ran, holder, starts>>

Drop(p) ==
  /\ At(p, "drop")
  /\ \E f \in Files :
       /\ First(p, f)
       /\ catalog' = [catalog EXCEPT ![Index[f]] = Invalid(@)]
  /\ Goto(p, "dropping")
  /\ UNCHANGED <<recorded, ran, holder, starts>>

DropEnds(p) ==
  /\ At(p, "dropping")
  /\ \E f \in Files :
       /\ First(p, f)
       /\ catalog' = [catalog EXCEPT ![Index[f]] = Absent]
       /\ Goto(p, IF Kind[f] = "create" THEN "create" ELSE "record")
  /\ UNCHANGED <<recorded, ran, holder, starts>>

Record(p) ==
  /\ At(p, "record")
  /\ \E f \in Files :
       /\ First(p, f)
       /\ Insert(p, f)
       /\ ran' = [ran EXCEPT ![f] = @ + 1]
  /\ UNCHANGED <<catalog, holder, starts>>

-----------------------------------------------------------------------------
(* What goes wrong. *)

Trying == {"try", "pending", "create", "building", "drop", "dropping"}

\* Mutant: attempts are not counted.
TimeoutUncounted(p) ==
  /\ run[p].pc \in Trying
  /\ Goto(p, "try")
  /\ UNCHANGED db

\* 55P03: rolled back, or left where the statement stood, and tried again.
Timeout(p) ==
  /\ run[p].pc \in Trying
  /\ \/ /\ run[p].attempt < MaxAttempts
        /\ run' = [run EXCEPT ![p].pc = "try", ![p].attempt = @ + 1]
        /\ UNCHANGED holder
     \/ /\ run[p].attempt = MaxAttempts
        /\ End(p, "failed")
  /\ UNCHANGED <<recorded, ran, catalog, starts>>

\* Any other error ends the run; so does the end of its process, whose session
\* keeps the lock until the server has noticed.
Fail(p) ==
  /\ run[p].pc \notin Ended
  /\ End(p, "failed")
  /\ UNCHANGED <<recorded, ran, catalog, starts>>

\* The process ends while the server finishes its statement.
Orphan(p) ==
  /\ \E f \in Files :
       /\ First(p, f)
       /\ \/ At(p, "building") /\ run[p].waits \cap Waiting = {}
               /\ catalog' = [catalog EXCEPT ![Index[f]] = Built(f)]
          \/ At(p, "dropping") /\ catalog' = [catalog EXCEPT ![Index[f]] = Absent]
  /\ End(p, "failed")
  /\ UNCHANGED <<recorded, ran, starts>>

\* A build waits for q's snapshot and q for the lock of the builder: the server
\* ends the wait of one of them, and that run fails.
Deadlock(p) ==
  \E q \in run[p].waits \cap Waiting :
    /\ At(p, "building")
    /\ \E victim \in {p, q} : End(victim, "failed")
    /\ UNCHANGED <<recorded, ran, catalog, starts>>

Work(p) ==
  \/ Read(p) \/ Skip(p) \/ Refuse(p) \/ Try(p) \/ Finish(p)
  \/ RunBody(p) \/ Commit(p)
  \/ Probe(p) \/ Build(p) \/ BuildEnds(p) \/ Drop(p) \/ DropEnds(p) \/ Record(p)
  \/ Timeout(p) \/ Deadlock(p)

Next == \E p \in Runners : Start(p) \/ Lock(p) \/ Work(p) \/ Fail(p) \/ Orphan(p)

Spec == Init /\ [][Next]_vars

\* The server queues for the lock and breaks deadlocks; nothing promises that a
\* run is not interrupted or that a statement gets its locks.
FairSpec == Spec /\ \A p \in Runners : WF_vars(Work(p)) /\ SF_vars(Lock(p))

-----------------------------------------------------------------------------
(* Properties. *)

Promise == INSTANCE Rollout WITH schema <- recorded, runs <- ran

\* However many runners, releases and interruptions: files take effect in order,
\* once each, and a body never without its record.
InOrderOnce == Promise!Spec

\* A recorded index statement holds: the index is there, valid and as the file
\* defines it, or gone.
Holds(f) ==
  /\ Kind[f] = "create" => catalog[Index[f]] = Built(f)
  /\ Kind[f] = "drop" => catalog[Index[f]] = Absent
RecordedHolds == \A v \in Versions : recorded[v] # None => Holds(recorded[v])

\* The readiness probe of an API that ships R.
Ready(R) == \A f \in R : recorded[Version[f]] = f

\* A run that reports success has brought the database to its release, whatever
\* the others did meanwhile: the API of that release is ready, and its indexes
\* are what its files say.
DoneIsReady ==
  \A p \in Runners : At(p, "done") =>
    Ready(run[p].ship) /\ \A f \in run[p].ship : Holds(f)

\* "Anything else: abort; nothing is dropped."  A runner changes only an index of
\* its file's definition, and drops only what a file names for dropping.
Foreign(i) ==
  \/ catalog[i].def = "table"
  \/ catalog[i].def = "other" /\ \A f \in Files : Kind[f] = "drop" => Index[f] # i
ForeignKept == [][\A i \in Indexes : Foreign(i) => catalog'[i] = catalog[i]]_vars

\* Every run ends, also two whose waits form a cycle through the run lock.
RunsEnd == \A p \in Runners : run[p].pc \notin Ended ~> run[p].pc \in Ended
=============================================================================
