------------------------------ MODULE MCEngine ------------------------------
(***************************************************************************)
(* Small instances of Engine for TLC.  Units 1 and 2, the combination 3 of *)
(* both, blackouts from 4 on, reservations from 11 on (row ids of the same *)
(* kind of lock must differ).  Time runs over 0..MaxClock; the first range *)
(* starts at 1, so that its reservations are in progress when time is up.  *)
(***************************************************************************)
EXTENDS EngineInvariant, TLC

MCUnits == {1, 2}
MCCombos == {3}
MCComboUnits == 3 :> {1, 2}
Evening == [from |-> 1, to |-> 3]
Late == [from |-> 2, to |-> 4]
Night == [from |-> 3, to |-> 5]
Small == [min |-> 1, max |-> 2]
Tiny == [min |-> 1, max |-> 1]

Hold(a, n, d) == [op |-> "hold", asg |-> a, party |-> n, during |-> d]
On(op, r) == [op |-> op, res |-> r]
DoSweep == [op |-> "sweep"]
SetUnit(u, cap, act, force, sql) ==
  [op |-> "unit", asg |-> u, capacity |-> cap, active |-> act, force |-> force, sql |-> sql]
SetCombo(c, act, force, sql) ==
  [op |-> "combo", asg |-> c, active |-> act, force |-> force, sql |-> sql]
SetBlackout(b, act, force, sql) ==
  [op |-> "blackout", blackout |-> b, active |-> act, force |-> force, sql |-> sql]

MCRanges == {Evening, Late, Night}
MCCapacities == {Small, Tiny}
MCBlackoutRange == 4 :> Late
Uniform(cap, state) ==
  [capacity |-> [a \in Assignments |-> cap], active |-> [a \in Assignments |-> TRUE],
   closed |-> [b \in Blackouts |-> state]]
OpenVenue == {Uniform(Small, "absent")}
Symmetry == Permutations(Procs)
OneCapacity == {Small}
NoBlackouts == [b \in {} |-> Late]

\* Bookings only: two units, their combination, overlapping ranges.
BookingCommands ==
  {Hold(1, 1, Evening), Hold(2, 1, Evening), Hold(3, 1, Late), DoSweep}
    \cup {On(op, r) : op \in {"confirm", "cancel", "complete", "seat"}, r \in Res}

\* Capacity edits, deactivations and blackouts over one of the two evenings, by
\* admin commands (forced and not) and by plain UPDATEs (the last argument),
\* against holds and confirmations of the unit and the combination.
ConfigCommands ==
  {Hold(1, 2, Evening), Hold(3, 1, Late), DoSweep}
    \cup {On("confirm", r) : r \in Res}
    \cup {SetUnit(1, Tiny, TRUE, FALSE, TRUE), SetUnit(1, Small, FALSE, FALSE, TRUE),
          SetUnit(1, Small, TRUE, TRUE, FALSE), SetUnit(1, Tiny, FALSE, TRUE, FALSE),
          SetCombo(3, FALSE, FALSE, TRUE), SetBlackout(4, TRUE, TRUE, FALSE),
          SetBlackout(4, TRUE, FALSE, TRUE), SetBlackout(4, FALSE, FALSE, TRUE)}

\* A booking on its way to its table, and a forced blackout.
ForceCommands ==
  {Hold(1, 1, Evening), On("confirm", 11), On("seat", 11), SetBlackout(4, TRUE, TRUE, FALSE)}

\* Holds that share a unit, commands on one row, and a writer that needs the
\* venue alone, its unit's row and the unit lock: every kind of wait.
FairCommands ==
  {Hold(1, 1, Evening), Hold(3, 1, Evening), On("confirm", 11), On("cancel", 11),
   SetUnit(1, Small, FALSE, TRUE, FALSE)}
=============================================================================
