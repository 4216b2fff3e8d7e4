----------------------------- MODULE MCBooking -----------------------------
(***************************************************************************)
(* A small instance of Booking and Slots for TLC: two units, their         *)
(* combination, two reservations over two ranges that overlap in part, and *)
(* a blackout.  Two service periods that share starts differ in duration   *)
(* and gap, and a third serves no party of two.                            *)
(***************************************************************************)
EXTENDS Slots, TLC

MCUnits == {1, 2}
MCCombos == {3}
MCComboUnits == 3 :> {1, 2}
Evening == [from |-> 2, to |-> 4]
Late == [from |-> 3, to |-> 5]
MCRanges == {Evening, Late}
MCCapacities == {[min |-> 1, max |-> 2], [min |-> 1, max |-> 1]}
MCBlackoutRange == 4 :> Late
MCPeriods == {[id |-> 1, from |-> 1, to |-> 6, durations |-> 4 :> 1 @@ 2 :> 2, gap |-> 0],
              [id |-> 2, from |-> 0, to |-> 3, durations |-> 2 :> 1, gap |-> 1],
              [id |-> 3, from |-> 0, to |-> 6, durations |-> 1 :> 1, gap |-> 0]}
MCWindow == [from |-> 0, to |-> 4]
=============================================================================
