------------------------------- MODULE Rules -------------------------------
(***************************************************************************)
(* The vocabulary of a Dastar venue: half-open ranges, assignments (a unit *)
(* or a combination of units) and the row a reservation is stored in.      *)
(***************************************************************************)
EXTENDS Status, FiniteSets

CONSTANTS
  Res,          \* reservation ids; ordered, as the engine locks rows by id
  Units,        \* unit ids; ordered, as the engine locks units by id
  Combos,       \* combination ids
  ComboUnits,   \* the member units of each combination; immutable (t47)
  Parties,      \* party sizes
  Ranges        \* half-open ranges [from, to) on the clock's axis

ASSUME RulesAssumption ==
  /\ Res \subseteq Nat /\ Units \subseteq Nat /\ Combos \subseteq Nat
  /\ IsFiniteSet(Units) /\ IsFiniteSet(Combos)
  /\ ComboUnits \in [Combos -> (SUBSET Units) \ {{}}]
  /\ Units \cap Combos = {}
  /\ Parties \subseteq Nat
  /\ Ranges \subseteq [from: Nat, to: Nat]
  /\ \A d \in Ranges : d.from < d.to

Assignments == Units \cup Combos

Members(a) == IF a \in Units THEN {a} ELSE ComboUnits[a]

Overlaps(d, e) == d.from < e.to /\ e.from < d.to

\* A stored reservation.
Row == [status: Statuses, asg: Assignments, party: Parties, during: Ranges, expires: Nat]

\* An occupying row shares a unit with assignment a over the range d.
Clashes(row, a, d) ==
  /\ Occupies(row)
  /\ Members(row.asg) \cap Members(a) # {}
  /\ Overlaps(row.during, d)

WithStatus(row, s) == [row EXCEPT !.status = s]

\* The table T with every row of S moved to status s.
SetStatus(T, S, s) == [r \in Res |-> IF r \in S THEN WithStatus(T[r], s) ELSE T[r]]
=============================================================================
