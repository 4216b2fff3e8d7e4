----------------------------- MODULE MCLifecycle -----------------------------
(***************************************************************************)
(* Small instances of Lifecycle for TLC: two reservations, two tokens.     *)
(***************************************************************************)
EXTENDS Lifecycle, TLC

MCConfirm(v, t) == [op |-> "confirm", res |-> 1, expected |-> v, token |-> t]
On(op, r, v) == [op |-> op, res |-> r, expected |-> v]
MCUpdate(s) == [op |-> "update", res |-> 1, to |-> s]

\* Every operation, with and without a version and a token, on reservation 1;
\* another reservation for what concerns several rows.
MCCommands ==
  {MCConfirm(0, t) : t \in Tokens} \cup {MCConfirm(2, NoToken), On("mint", 1, 0), On("mint", 1, 1)}
    \cup {On("cancel", 1, 2), On("seat", 1, 0), On("complete", 1, 0), MCUpdate("cancelled")}
    \cup {[op |-> o] : o \in {"hold", "sweep", "force"}}

Symmetry == Permutations(Procs) \cup Permutations(Tokens)
=============================================================================
