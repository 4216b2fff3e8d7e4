--------------------------- MODULE MCConfiguration ---------------------------
(***************************************************************************)
(* A small instance of Configuration for TLC: a venue with a unit, a       *)
(* service period and a combination still to be created, and a second      *)
(* venue of which only the cache takes notice.                             *)
(***************************************************************************)
EXTENDS Configuration, TLC

MCVenue == "unit" :> "v" @@ "combo" :> "v" @@ "period" :> "v" @@ "far" :> "w"
MCRows == DOMAIN MCVenue
MCKind == "unit" :> "unit" @@ "combo" :> "combo" @@ "period" :> "schedule" @@ "far" :> "unit"
Table == [label |-> 0, max |-> 0, active |-> TRUE]
Group == [label |-> 0, active |-> TRUE]
Lunch == [opens |-> 1, closes |-> 2, next |-> FALSE]
MCFirst == "unit" :> Table @@ "combo" :> Absent @@ "period" :> Lunch @@ "far" :> Table

MCCommands ==
  {[kind |-> "admin", row |-> "unit", set |-> s] : s \in {[label |-> 1], [active |-> FALSE]}}
  \cup {[kind |-> "plain", row |-> "unit", set |-> [max |-> 1]],
        [kind |-> "create", row |-> "combo", set |-> Group],
        [kind |-> "admin", row |-> "period", set |-> [opens |-> 2]],
        [kind |-> "admin", row |-> "period", set |-> [closes |-> 1]]}
Symmetry == Permutations(Writers) \cup Permutations(Readers)
=============================================================================
