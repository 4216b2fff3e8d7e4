------------------------------ MODULE MCMigrate ------------------------------
(***************************************************************************)
(* A small instance of Migrate for TLC.  Version 1 is transactional, 2     *)
(* builds index "i", 3 drops index "j" and blocks writers.  The old release *)
(* stops at 2, the new one ships all; the edited one has another definition *)
(* under 2 and a file that does not parse under 3.                         *)
(***************************************************************************)
EXTENDS Migrate, TLC

MCVersion == "init" :> 1 @@ "create" :> 2 @@ "edited" :> 2 @@ "drop" :> 3 @@ "garbled" :> 3
MCFiles == DOMAIN MCVersion
MCReleases == {{"init", "create"}, {"init", "create", "drop"}, {"init", "edited", "garbled"}}
MCKind == [f \in MCFiles |-> IF f \in {"create", "edited"} THEN "create"
                             ELSE IF f = "init" THEN "sql" ELSE "drop"]
MCIndex == [f \in MCFiles |-> IF MCVersion[f] = 3 THEN "j" ELSE "i"]

Names(i, j) == "i" :> i @@ "j" :> j
Strange == {[def |-> "other", valid |-> TRUE], [def |-> "table", valid |-> FALSE]}
MCFound == {Names(o, Absent) : o \in {Absent, Built("create"), Invalid(Built("create"))} \cup Strange}
             \cup {Names(Absent, o) : o \in Strange}
=============================================================================
