------------------------------- MODULE Status -------------------------------
(***************************************************************************)
(* The reservation state machine and the effective status of a hold: what  *)
(* the other modules' reservation rows have in common, their fields status *)
(* and expires.                                                            *)
(***************************************************************************)
EXTENDS Integers

Statuses == {"held", "confirmed", "seated", "completed", "cancelled", "expired"}

\* The transition table, evaluated only when the status changes.
Transitions ==
  { <<"held", "confirmed">>, <<"held", "cancelled">>, <<"held", "expired">>,
    <<"confirmed", "seated">>, <<"confirmed", "cancelled">>,
    <<"seated", "completed">>, <<"seated", "cancelled">> }

LiveStatuses == {"held", "confirmed", "seated"}

\* The statuses whose unit rows are active: t70 clears them on cancel and on
\* expiry only, so a completed reservation still occupies its units.
OccupyingStatuses == LiveStatuses \cup {"completed"}

\* The value of an id that no reservation uses yet.
NoRow == [status |-> "free"]

EffectiveStatus(row, t) ==
  IF row.status = "held" /\ row.expires <= t THEN "expired" ELSE row.status

Live(row, t) == EffectiveStatus(row, t) \in LiveStatuses

\* A held row whose expiry has passed: what the sweeper and a hold may expire.
Dead(row, t) == row.status = "held" /\ row.expires <= t

Occupies(row) == row.status \in OccupyingStatuses
=============================================================================
