------------------------------- MODULE MCLoad -------------------------------
(***************************************************************************)
(* A small instance of Load for TLC: two holds and a follow-up, one limit  *)
(* that half the holds must keep, and an operator with a venue's keys.     *)
(***************************************************************************)
EXTENDS Load

MCPlan ==
  1 :> [hold |-> TRUE, seq |-> 0, step |-> 1, at |-> 0] @@
  2 :> [hold |-> TRUE, seq |-> 1, step |-> 1, at |-> 0] @@
  3 :> [hold |-> FALSE, seq |-> 0, step |-> 1, at |-> 1]
MCKeyOf ==
  "load" :> [caps |-> {"hold", "confirm", "cancel"}, venues |-> {"v", "w"}] @@
  "admin" :> [caps |-> {"admin", "read", "seat", "confirm"}, venues |-> {"v"}] @@
  "new" :> [caps |-> {"read"}, venues |-> {"v"}]
MCLimits == 50 :> 0
MCSteps == <<[rate |-> 1, seconds |-> 1]>>
MCTarget == [rate |-> 1, seconds |-> 1]
MCSeen == {[errors |-> 0, ticks |-> 1, overlaps |-> 0, misfits |-> 0, throws |-> 0, deadlocks |-> 0]}
MCFirstRes == 9 :> [status |-> "confirmed", venue |-> "w", token |-> 0]

\* A run by itself, and one hold beside an operator.
MCScenarios == {[planned |-> {1, 2, 3}, calls |-> 0], [planned |-> {1}, calls |-> 2]}

Call(route, key, target) ==
  [route |-> route, key |-> key, venue |-> "v", id |-> 1, token |-> 0, target |-> target,
   force |-> FALSE]
MCCalls ==
  {Call("revokeKey", "admin", "admin"), Call("revokeKey", "admin", "load"),
   Call("createKey", "admin", "admin"), Call("read", "new", "admin"),
   Call("mint", "admin", "admin"), [Call("confirm", None, "admin") EXCEPT !.token = 1],
   [Call("seat", "admin", "admin") EXCEPT !.id = 9],
   [Call("updateUnit", "admin", "admin") EXCEPT !.force = TRUE]}
=============================================================================
