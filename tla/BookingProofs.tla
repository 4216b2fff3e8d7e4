--------------------------- MODULE BookingProofs ---------------------------
(***************************************************************************)
(* The abstract database keeps the invariants of CORRECTNESS.md, for every *)
(* set of reservations, units, combinations, blackouts and commands; and   *)
(* the availability read over it offers what a hold then accepts, and all  *)
(* of it, for every schedule, party and window.                            *)
(***************************************************************************)
EXTENDS Slots, TLAPS, FiniteSetTheorems, SequenceTheorems

\* Everything a booking needs of the venue still holds of every live row: the
\* three invariants about live rows as one, which is how the steps keep them.
LiveBookable == \A r \in Res : Live(res[r], clock) => Bookable(res[r])

-----------------------------------------------------------------------------
(* Lemmas about rows. *)

LEMMA ClashSymmetry ==
  ASSUME NEW r, NEW q, Occupies(r), Clashes(q, r.asg, r.during)
  PROVE  Clashes(r, q.asg, q.during)
BY DEF Clashes, Overlaps

\* Moving rows of a table to a status keeps the table's type.
LEMMA SetStatusType ==
  ASSUME NEW T \in [Res -> Row \cup {NoRow}], NEW S \in SUBSET Res,
         NEW s \in Statuses, \A r \in S : T[r] \in Row
  PROVE  SetStatus(T, S, s) \in [Res -> Row \cup {NoRow}]
<1> SUFFICES ASSUME NEW r \in Res
             PROVE (IF r \in S THEN WithStatus(T[r], s) ELSE T[r]) \in Row \cup {NoRow}
  BY DEF SetStatus
<1>1. CASE r \in S
  BY <1>1 DEF WithStatus, Row
<1>2. CASE r \notin S
  BY <1>2
<1> QED BY <1>1, <1>2

LEMMA RowOfStatus ==
  ASSUME TypeOK, NEW r \in Res, res[r].status \in Statuses
  PROVE  res[r] \in Row
BY DEF TypeOK, NoRow, Statuses

LEMMA LiveIsOccupying ==
  ASSUME NEW row, NEW t, Live(row, t)
  PROVE  row.status \in LiveStatuses /\ Occupies(row)
BY DEF Live, EffectiveStatus, LiveStatuses, Occupies, OccupyingStatuses

-----------------------------------------------------------------------------
(* The invariant. *)

LEMMA InitSafe == Init => TypeOK /\ NoDoubleBooking /\ LiveBookable
<1> SUFFICES ASSUME Init PROVE TypeOK /\ NoDoubleBooking /\ LiveBookable
  OBVIOUS
<1>1. TypeOK
  BY BookingAssumption DEF Init, TypeOK
<1>2. \A r \in Res : res[r].status = "free"
  BY DEF Init, NoRow
<1>3. \A r \in Res : \A a, d : ~Clashes(res[r], a, d) /\ ~Live(res[r], clock)
  BY <1>2 DEF Clashes, Occupies, OccupyingStatuses, LiveStatuses, Live, EffectiveStatus
<1> QED
  BY <1>1, <1>3 DEF NoDoubleBooking, LiveBookable

LEMMA TypeStep == TypeOK /\ [Next]_vars => TypeOK'
<1> SUFFICES ASSUME TypeOK, [Next]_vars PROVE TypeOK'
  OBVIOUS
<1> USE BookingAssumption
<1>1. CASE Tick
  BY <1>1 DEF Tick, TypeOK
<1>2. ASSUME NEW E \in SUBSET Res, Expire(E) PROVE TypeOK'
  <2>1. \A r \in E : res[r] \in Row
    BY <1>2, RowOfStatus DEF Expire, Dead, Statuses
  <2> QED BY <1>2, <2>1, SetStatusType DEF Expire, TypeOK, Statuses
<1>3. ASSUME NEW r \in Res, NEW a \in Assignments, NEW n \in Parties, NEW d \in Ranges,
             NEW x \in Ttl..(clock + Ttl), NEW E \in SUBSET Res, Book(r, a, n, d, x, E)
      PROVE TypeOK'
  <2>1. \A e \in E : res[e] \in Row
    BY <1>3, RowOfStatus DEF Book, Dead, Statuses
  <2>2. SetStatus(res, E, "expired") \in [Res -> Row \cup {NoRow}]
    BY <2>1, SetStatusType DEF TypeOK, Statuses
  <2>3. [status |-> "held", asg |-> a, party |-> n, during |-> d, expires |-> x] \in Row
    BY DEF Row, Statuses, TypeOK
  <2> QED BY <1>3, <2>2, <2>3 DEF Book, TypeOK
<1>4. ASSUME NEW r \in Res, Confirm(r) \/ Seat(r) \/ Complete(r) \/ Cancel(r)
      PROVE TypeOK'
  <2>1. res[r] \in Row
    BY <1>4, RowOfStatus DEF Confirm, Seat, Complete, Cancel, Statuses, LiveStatuses
  <2>2. PICK s \in Statuses : res' = SetStatus(res, {r}, s)
    BY <1>4 DEF Confirm, Seat, Complete, Cancel, Statuses
  <2>3. res' \in [Res -> Row \cup {NoRow}]
    BY <2>1, <2>2, SetStatusType DEF TypeOK
  <2> QED
    BY <1>4, <2>3 DEF Confirm, Seat, Complete, Cancel, TypeOK
<1>5. ASSUME NEW C \in SUBSET Res, CancelAll(C)
      PROVE res' \in [Res -> Row \cup {NoRow}]
  <2>1. \A r \in C : res[r] \in Row
    BY <1>5, RowOfStatus DEF CancelAll, Statuses, LiveStatuses
  <2> QED BY <1>5, <2>1, SetStatusType DEF CancelAll, TypeOK, Statuses
<1>6. ASSUME NEW u \in Units, NEW cap \in Capacities, NEW act \in BOOLEAN,
             NEW C \in SUBSET Res, WriteUnit(u, cap, act, C)
      PROVE TypeOK'
  BY <1>5, <1>6 DEF WriteUnit, TypeOK, Assignments
<1>7. ASSUME NEW c \in Combos, NEW act \in BOOLEAN, NEW C \in SUBSET Res, WriteCombo(c, act, C)
      PROVE TypeOK'
  BY <1>5, <1>7 DEF WriteCombo, TypeOK, Assignments
<1>8. ASSUME NEW b \in Blackouts, NEW s \in {"inactive", "active"}, NEW C \in SUBSET Res,
             WriteBlackout(b, s, C)
      PROVE TypeOK'
  BY <1>5, <1>8 DEF WriteBlackout, TypeOK, BlackoutStates
<1>9. CASE UNCHANGED vars
  BY <1>9 DEF vars, TypeOK
<1> QED
  BY <1>1, <1>2, <1>3, <1>4, <1>6, <1>7, <1>8, <1>9 DEF Next

\* Moving occupying rows to any status creates no clash.
LEMMA MoveNoClash ==
  ASSUME TypeOK, NoDoubleBooking, NEW S \in SUBSET Res, NEW s \in Statuses,
         \A r \in S : res[r].status \in LiveStatuses,
         NEW T, T = SetStatus(res, S, s)
  PROVE  \A r, q \in Res :
           (r # q /\ Occupies(T[q])) => ~Clashes(T[r], T[q].asg, T[q].during)
<1>1. \A r \in S : res[r] \in Row
  BY RowOfStatus DEF LiveStatuses, Statuses
<1>2. ASSUME NEW r \in Res
      PROVE  /\ T[r].asg = res[r].asg /\ T[r].during = res[r].during
             /\ Occupies(T[r]) => Occupies(res[r])
  <2>1. CASE r \in S
    BY <1>1, <2>1 DEF SetStatus, WithStatus, Row, Occupies, OccupyingStatuses
  <2>2. CASE r \notin S
    BY <2>2 DEF SetStatus
  <2> QED BY <2>1, <2>2
<1> QED
  BY <1>2 DEF NoDoubleBooking, Clashes

\* A step after which every live row was live before, on the same assignment,
\* party and range, strands nothing while the configuration stays.
LEMMA LiveShrinks ==
  ASSUME LiveBookable, UNCHANGED <<capacity, active, closed>>,
         \A r \in Res : Live(res'[r], clock') =>
           /\ Live(res[r], clock)
           /\ res'[r].asg = res[r].asg
           /\ res'[r].party = res[r].party
           /\ res'[r].during = res[r].during
  PROVE  LiveBookable'
BY DEF LiveBookable, Bookable, Usable, Fits, Open

\* The rows a configuration write or a cancellation leaves live are rows it
\* did not cancel.
LEMMA CancelLeaves ==
  ASSUME TypeOK, NEW C \in SUBSET Res, CancelAll(C), NEW r \in Res,
         Live(res'[r], clock)
  PROVE  r \notin C /\ res'[r] = res[r] /\ Live(res[r], clock)
<1>1. \A q \in C : res[q] \in Row
  BY RowOfStatus DEF CancelAll, LiveStatuses, Statuses
<1>2. r \in C => res'[r].status = "cancelled"
  BY <1>1 DEF CancelAll, SetStatus, WithStatus, Row
<1>3. r \notin C
  BY <1>2 DEF Live, EffectiveStatus, LiveStatuses
<1>4. res'[r] = res[r]
  BY <1>3 DEF CancelAll, SetStatus
<1> QED
  BY <1>3, <1>4

\* A new hold, booked once the dead rows E in its way are expired.
LEMMA BookSafe ==
  ASSUME TypeOK, NoDoubleBooking, LiveBookable, NEW r \in Res, NEW a \in Assignments,
         NEW n \in Parties, NEW d \in Ranges, NEW x \in Ttl..(clock + Ttl),
         NEW E \in SUBSET Res, Book(r, a, n, d, x, E)
  PROVE  NoDoubleBooking' /\ LiveBookable'
<1> DEFINE row == [status |-> "held", asg |-> a, party |-> n, during |-> d, expires |-> x]
           T == SetStatus(res, E, "expired")
<1>1. res' = [T EXCEPT ![r] = row] /\ res[r] = NoRow /\ Bookable(row)
  BY DEF Book
<1>2. r \notin E
  BY <1>1 DEF Book, Dead, NoRow
<1>3. \A e \in E : res[e] \in Row
  BY RowOfStatus DEF Book, Dead, Statuses
<1>4. ASSUME NEW q \in Res PROVE T[q] = IF q \in E THEN [res[q] EXCEPT !.status = "expired"] ELSE res[q]
  BY DEF SetStatus, WithStatus
<1>5. res'[r] = row
  BY <1>1 DEF SetStatus
<1>6. ASSUME NEW q \in Res \ {r}
      PROVE res'[q] = IF q \in E THEN [res[q] EXCEPT !.status = "expired"] ELSE res[q]
  BY <1>1, <1>4
<1>7. ASSUME NEW q \in E PROVE ~Occupies(res'[q]) /\ ~Live(res'[q], clock')
  BY <1>2, <1>3, <1>6 DEF Occupies, OccupyingStatuses, LiveStatuses, Live, EffectiveStatus, Row
<1>8. ASSUME NEW q \in Res \ {r} PROVE ~Clashes(res'[q], a, d)
  <2>1. CASE q \in E
    BY <1>7, <2>1 DEF Clashes
  <2>2. CASE q \notin E
    BY <1>6, <2>2 DEF Book, Clear
  <2> QED BY <2>1, <2>2
<1>9. NoDoubleBooking'
  <2> SUFFICES ASSUME NEW p \in Res, NEW q \in Res, p # q, Occupies(res'[q])
               PROVE  ~Clashes(res'[p], res'[q].asg, res'[q].during)
    BY DEF NoDoubleBooking
  <2>1. CASE q = r
    BY <1>5, <1>8, <2>1
  <2>2. CASE p = r
    <3>1. ~Clashes(res'[q], row.asg, row.during)
      BY <1>8, <2>2
    <3> QED BY <1>5, <2>2, <3>1, ClashSymmetry
  <2>3. CASE p # r /\ q # r
    <3>1. q \notin E /\ res'[q] = res[q]
      BY <1>6, <1>7, <2>3
    <3>2. CASE p \in E
      BY <1>7, <3>2 DEF Clashes
    <3>3. CASE p \notin E
      BY <1>6, <2>3, <3>1, <3>3 DEF NoDoubleBooking
    <3> QED BY <3>2, <3>3
  <2> QED BY <2>1, <2>2, <2>3
<1>10. LiveBookable'
  <2> SUFFICES ASSUME NEW q \in Res, Live(res'[q], clock')
               PROVE  Bookable(res[q])'
    BY DEF LiveBookable
  <2>1. q # r => res'[q] = res[q]
    BY <1>6, <1>7
  <2>2. Bookable(res'[q])
    BY <1>1, <1>5, <2>1 DEF LiveBookable, Book
  <2> QED BY <2>2 DEF Bookable, Usable, Fits, Open, Book
<1> QED BY <1>9, <1>10

\* Every step of the abstract database keeps its bookings safe.
LEMMA SafeStep ==
  TypeOK /\ NoDoubleBooking /\ LiveBookable /\ [Next]_vars => NoDoubleBooking' /\ LiveBookable'
<1> SUFFICES ASSUME TypeOK, NoDoubleBooking, LiveBookable, [Next]_vars
             PROVE  NoDoubleBooking' /\ LiveBookable'
  OBVIOUS
<1>1. CASE Tick
  <2>1. NoDoubleBooking'
    BY <1>1 DEF Tick, NoDoubleBooking
  <2>2. ASSUME NEW r \in Res, Live(res'[r], clock')
        PROVE  Live(res[r], clock)
    <3>1. res[r] \in Row
      BY <1>1, <2>2, RowOfStatus, LiveIsOccupying DEF Tick, LiveStatuses, Statuses
    <3> QED
      BY <1>1, <2>2, <3>1, BookingAssumption
         DEF Tick, Live, EffectiveStatus, LiveStatuses, TypeOK, Row
  <2> QED BY <1>1, <2>1, <2>2, LiveShrinks DEF Tick
<1>2. ASSUME NEW E \in SUBSET Res, Expire(E) PROVE NoDoubleBooking' /\ LiveBookable'
  <2>1. \A r \in E : res[r] \in Row /\ res[r].status \in LiveStatuses
    BY <1>2, RowOfStatus DEF Expire, Dead, Statuses, LiveStatuses
  <2>2. NoDoubleBooking'
    BY <1>2, <2>1, MoveNoClash DEF Expire, NoDoubleBooking, Statuses
  <2>3. ASSUME NEW r \in Res, Live(res'[r], clock') PROVE res'[r] = res[r]
    BY <1>2, <2>1, <2>3 DEF Expire, SetStatus, WithStatus, Row, Live, EffectiveStatus, LiveStatuses
  <2> QED BY <1>2, <2>2, <2>3, LiveShrinks DEF Expire
<1>3. ASSUME NEW r \in Res, Confirm(r) \/ Seat(r) \/ Complete(r) \/ Cancel(r)
      PROVE NoDoubleBooking' /\ LiveBookable'
  <2>1. PICK s \in Statuses : res' = SetStatus(res, {r}, s)
    BY <1>3 DEF Confirm, Seat, Complete, Cancel, Statuses
  <2>2. res[r] \in Row /\ res[r].status \in LiveStatuses
    BY <1>3, RowOfStatus DEF Confirm, Seat, Complete, Cancel, Statuses, LiveStatuses
  <2>3. NoDoubleBooking'
    BY <2>1, <2>2, MoveNoClash DEF NoDoubleBooking
  <2>4. UNCHANGED <<clock, capacity, active, closed>>
    BY <1>3 DEF Confirm, Seat, Complete, Cancel
  <2>5. ASSUME NEW q \in Res, Live(res'[q], clock') PROVE Bookable(res[q])
    <3>1. CASE q # r
      <4>1. res'[q] = res[q]
        BY <2>1, <3>1 DEF SetStatus
      <4> QED BY <2>4, <2>5, <4>1 DEF LiveBookable
    <3>2. CASE q = r
      <4>1. CASE Confirm(r)
        BY <3>2, <4>1 DEF Confirm
      <4>2. CASE Seat(r)
        BY <3>2, <4>2 DEF Seat, LiveBookable, Live, EffectiveStatus, LiveStatuses
      <4>3. CASE Complete(r) \/ Cancel(r)
        BY <2>2, <2>5, <3>2, <4>3
           DEF Complete, Cancel, SetStatus, WithStatus, Row, Live, EffectiveStatus, LiveStatuses
      <4> QED BY <1>3, <4>1, <4>2, <4>3
    <3> QED BY <3>1, <3>2
  <2>6. ASSUME NEW q \in Res
        PROVE  res'[q].asg = res[q].asg /\ res'[q].party = res[q].party
               /\ res'[q].during = res[q].during
    BY <2>1, <2>2 DEF SetStatus, WithStatus, Row
  <2>7. LiveBookable'
    BY <2>4, <2>5, <2>6 DEF LiveBookable, Bookable, Usable, Fits, Open
  <2> QED BY <2>3, <2>7
<1>4. ASSUME NEW C \in SUBSET Res, CancelAll(C) PROVE NoDoubleBooking'
  BY <1>4, MoveNoClash DEF CancelAll, NoDoubleBooking, Statuses
<1>5. ASSUME NEW u \in Units, NEW cap \in Capacities, NEW act \in BOOLEAN,
             NEW C \in SUBSET Res, WriteUnit(u, cap, act, C)
      PROVE NoDoubleBooking' /\ LiveBookable'
  <2> SUFFICES ASSUME NEW r \in Res, Live(res'[r], clock) PROVE Bookable(res[r])'
    BY <1>4, <1>5 DEF WriteUnit, LiveBookable
  <2>1. r \notin C /\ res'[r] = res[r] /\ Live(res[r], clock)
    BY <1>5, CancelLeaves DEF WriteUnit
  <2>2. Bookable(res[r]) /\ res[r] \in Row
    BY <2>1, RowOfStatus, LiveIsOccupying DEF LiveBookable, LiveStatuses, Statuses
  <2>3. Usable(res[r].asg)'
    BY <1>5, <2>1, <2>2 DEF WriteUnit, UnitStrands, Bookable, Usable, TypeOK, Members, Assignments, Row
  <2>4. Fits(res[r].asg, res[r].party)'
    BY <1>5, <2>1, <2>2 DEF WriteUnit, UnitStrands, Within, Bookable, Fits, TypeOK, Assignments, Row
  <2> QED BY <1>5, <2>1, <2>2, <2>3, <2>4 DEF WriteUnit, Bookable, Open
<1>6. ASSUME NEW c \in Combos, NEW act \in BOOLEAN, NEW C \in SUBSET Res, WriteCombo(c, act, C)
      PROVE NoDoubleBooking' /\ LiveBookable'
  <2> SUFFICES ASSUME NEW r \in Res, Live(res'[r], clock) PROVE Bookable(res[r])'
    BY <1>4, <1>6 DEF WriteCombo, LiveBookable
  <2>1. r \notin C /\ res'[r] = res[r] /\ Live(res[r], clock)
    BY <1>6, CancelLeaves DEF WriteCombo
  <2>2. Bookable(res[r]) /\ res[r] \in Row
    BY <2>1, RowOfStatus, LiveIsOccupying DEF LiveBookable, LiveStatuses, Statuses
  <2>3. Members(res[r].asg) \subseteq Units
    BY <2>2, RulesAssumption DEF Members, Row, Assignments
  <2>4. Usable(res[r].asg)'
    BY <1>6, <2>1, <2>2, <2>3, RulesAssumption
       DEF WriteCombo, Bookable, Usable, TypeOK, Assignments, Row
  <2> QED BY <1>6, <2>1, <2>2, <2>4 DEF WriteCombo, Bookable, Fits, Open
<1>7. ASSUME NEW b \in Blackouts, NEW s \in {"inactive", "active"}, NEW C \in SUBSET Res,
             WriteBlackout(b, s, C)
      PROVE NoDoubleBooking' /\ LiveBookable'
  <2> SUFFICES ASSUME NEW r \in Res, Live(res'[r], clock) PROVE Bookable(res[r])'
    BY <1>4, <1>7 DEF WriteBlackout, LiveBookable
  <2>1. r \notin C /\ res'[r] = res[r] /\ Live(res[r], clock)
    BY <1>7, CancelLeaves DEF WriteBlackout
  <2>2. Bookable(res[r])
    BY <2>1 DEF LiveBookable
  <2>3. Open(res[r].during)'
    BY <1>7, <2>1, <2>2 DEF WriteBlackout, Bookable, Open, TypeOK
  <2> QED BY <1>7, <2>1, <2>2, <2>3 DEF WriteBlackout, Bookable, Usable, Fits
<1>8. CASE UNCHANGED vars
  BY <1>8 DEF vars, NoDoubleBooking, LiveBookable, Bookable, Usable, Fits, Open
<1> QED
  BY <1>1, <1>2, <1>3, <1>5, <1>6, <1>7, <1>8, BookSafe DEF Next

-----------------------------------------------------------------------------
(* Orders. *)

\* Among finitely many there is one with the least value.
LEMMA Least ==
  ASSUME NEW D, IsFiniteSet(D), NEW f \in [D -> Int], NEW T \in SUBSET D, T # {}
  PROVE  \E m \in T : \A x \in T : f[m] <= f[x]
<1> DEFINE Below(m) == {x \in T : f[x] < f[m]}
           B == {Below(m) : m \in T}
<1>1. \A m \in T : Below(m) \in SUBSET D /\ IsFiniteSet(Below(m))
  BY FS_Subset
<1>2. B \subseteq FiniteSubsetsOf(D) /\ B # {}
  BY <1>1 DEF FiniteSubsetsOf
<1>3. \E x \in B : \A y \in B : <<y, x>> \notin StrictSubsetOrdering(D)
  BY <1>2, FS_StrictSubsetOrderingWellFounded, WFMin
<1>4. PICK m \in T : \A x \in T : <<Below(x), Below(m)>> \notin StrictSubsetOrdering(D)
  BY <1>3
<1>5. ASSUME NEW x \in T, f[x] < f[m] PROVE FALSE
  <2>1. Below(x) \subseteq Below(m) /\ Below(x) # Below(m)
    <3>1. x \in Below(m) /\ x \notin Below(x)
      BY <1>5
    <3>2. \A y \in Below(x) : y \in Below(m)
      BY <1>5
    <3> QED BY <3>1, <3>2
  <2> QED BY <1>1, <1>4, <2>1 DEF StrictSubsetOrdering
<1>6. \A x \in T : f[m] \in Int /\ f[x] \in Int
  OBVIOUS
<1> HIDE DEF Below, B
<1> QED BY <1>5, <1>6

\* What holds of 0 and is passed on holds up to any number.
LEMMA Induct ==
  ASSUME NEW n \in Nat, NEW S, 0 \in S, \A k \in 0..(n - 1) : k \in S => k + 1 \in S
  PROVE  0..n \subseteq S
<1> SUFFICES ASSUME (0..n) \ S # {} PROVE FALSE
  OBVIOUS
<1>1. PICK f \in [0..n -> Int] : \A k \in 0..n : f[k] = k
  <2>1. [k \in 0..n |-> k] \in [0..n -> Int]
    OBVIOUS
  <2> QED BY <2>1
<1>2. IsFiniteSet(0..n)
  BY FS_Interval
<1>3. PICK k \in (0..n) \ S : \A j \in (0..n) \ S : f[k] <= f[j]
  BY <1>2, Least
<1>4. k # 0 /\ k - 1 \in 0..(n - 1) /\ k - 1 \in (0..n) \ S
  BY <1>3
<1> QED BY <1>1, <1>3, <1>4

-----------------------------------------------------------------------------
(* The rows of a unit. *)

\* Rows with different starts, in their order.
LEMMA SortedIs ==
  ASSUME NEW B, IsFiniteSet(B), \A d \in B : d.from \in Int,
         \A d, e \in B : d # e => d.from # e.from,
         NEW n, n = Cardinality(B), NEW rows, rows = Sorted(B)
  PROVE  /\ n \in Nat /\ rows \in [1..n -> B] /\ rows \in Seq(B) /\ Len(rows) = n
         /\ \A i, j \in 1..n : i < j => rows[i].from < rows[j].from
         /\ \A d \in B : \E i \in 1..n : rows[i] = d
<1> DEFINE Upto(d) == {e \in B : e.from <= d.from}
<1>1. n \in Nat /\ IsFiniteSet(1..n) /\ Cardinality(1..n) = n
  BY FS_CardinalityType, FS_Interval
<1>2. \A d \in B : Upto(d) \in SUBSET B /\ d \in Upto(d)
  OBVIOUS
<1>3. ASSUME NEW d \in B PROVE Cardinality(Upto(d)) \in 1..n /\ IsFiniteSet(Upto(d))
  <2> HIDE DEF Upto
  <2>1. IsFiniteSet(Upto(d)) /\ Cardinality(Upto(d)) \in Nat /\ Cardinality(Upto(d)) <= n
    BY <1>2, FS_Subset, FS_CardinalityType
  <2>2. Cardinality(Upto(d)) # 0
    BY <1>2, <2>1, FS_EmptySet
  <2> QED BY <1>1, <2>1, <2>2
<1>4. ASSUME NEW d \in B, NEW e \in B, d.from < e.from
      PROVE  Cardinality(Upto(d)) < Cardinality(Upto(e))
  <2>1. Upto(d) \subseteq Upto(e)
    BY <1>4
  <2>2. e \notin Upto(d)
    BY <1>4
  <2> HIDE DEF Upto
  <2>3. Upto(d) # Upto(e)
    BY <1>2, <2>2
  <2>4. Cardinality(Upto(d)) <= Cardinality(Upto(e)) /\ Cardinality(Upto(d)) # Cardinality(Upto(e))
    BY <1>3, <2>1, <2>3, FS_Subset
  <2> QED BY <1>3, <2>4
<1>5. PICK r \in [B -> 1..n] : \A d \in B : r[d] = Cardinality(Upto(d))
  <2> DEFINE r == [d \in B |-> Cardinality(Upto(d))]
  <2>1. r \in [B -> 1..n] /\ \A d \in B : r[d] = Cardinality(Upto(d))
    BY <1>3
  <2> QED BY <2>1
<1>6. \A d, e \in B : d.from < e.from => r[d] < r[e]
  BY <1>4, <1>5
<1>7. r \in Injection(B, 1..n)
  BY <1>6 DEF Injection, IsInjective
<1>8. r \in Surjection(B, 1..n)
  BY <1>1, <1>7, FS_Injection
<1>9. \A i \in 1..n : \E d \in B : r[d] = i
  BY <1>8 DEF Surjection
<1>10. rows = [i \in 1..n |-> CHOOSE d \in B : Cardinality(Upto(d)) = i]
  BY DEF Sorted
<1> HIDE DEF Upto
<1>11. ASSUME NEW i \in 1..n PROVE rows[i] \in B /\ r[rows[i]] = i
  <2>1. \E d \in B : Cardinality(Upto(d)) = i
    BY <1>5, <1>9
  <2>2. rows[i] \in B /\ Cardinality(Upto(rows[i])) = i
    BY <1>10, <2>1
  <2> QED BY <1>5, <2>2
<1>12. rows \in [1..n -> B]
  BY <1>10, <1>11
<1>13. rows \in Seq(B) /\ Len(rows) = n
  <2>1. rows \in Seq(B)
    BY <1>1, <1>12, SeqDef
  <2>2. DOMAIN rows = 1..Len(rows) /\ Len(rows) \in Nat /\ DOMAIN rows = 1..n
    BY <1>12, <2>1, LenProperties
  <2> QED BY <1>1, <2>1, <2>2
<1>14. ASSUME NEW i \in 1..n, NEW j \in 1..n, i < j PROVE rows[i].from < rows[j].from
  <2>1. rows[i] # rows[j] /\ rows[i].from \in Int /\ rows[j].from \in Int
    BY <1>11, <1>14
  <2>2. ~(rows[j].from < rows[i].from)
    BY <1>6, <1>11, <1>14
  <2> QED BY <1>11, <2>1, <2>2
<1>15. ASSUME NEW d \in B PROVE \E i \in 1..n : rows[i] = d
  <2>1. r[d] \in 1..n /\ r[rows[r[d]]] = r[d]
    BY <1>11
  <2> QED BY <1>7, <1>11, <2>1 DEF Injection, IsInjective
<1> QED BY <1>1, <1>12, <1>13, <1>14, <1>15

\* The binary search finds the first row that ends after from.
LEMMA FirstAfterIs ==
  ASSUME NEW rows, NEW n \in Nat, Len(rows) = n, NEW from \in Int,
         \A i \in 1..n : rows[i].to \in Int,
         \A i, j \in 1..n : i < j => rows[i].to <= rows[j].to
  PROVE  /\ FirstAfter(rows, from) \in 1..(n + 1)
         /\ \A i \in 1..n : i < FirstAfter(rows, from) <=> rows[i].to <= from
<1> DEFINE P == (0..n) \X (0..n)
           Mid(lo, hi) == (lo + hi) \div 2
           Half(g, lo, hi) ==
             IF lo >= hi THEN lo
             ELSE IF rows[Mid(lo, hi) + 1].to <= from THEN g[<<Mid(lo, hi) + 1, hi>>]
             ELSE g[<<lo, Mid(lo, hi)>>]
           Solves(g) == g = [w \in P |-> Half(g, w[1], w[2])]
           Stops == {k \in 0..n : k < n => ~(rows[k + 1].to <= from)}
<1>1. PICK c \in 0..n : \A i \in 1..n : i <= c <=> rows[i].to <= from
  <2>1. PICK f \in [0..n -> Int] : \A k \in 0..n : f[k] = k
    <3>1. [k \in 0..n |-> k] \in [0..n -> Int]
      OBVIOUS
    <3> QED BY <3>1
  <2>2. n \in Stops /\ Stops \in SUBSET (0..n)
    OBVIOUS
  <2>3. IsFiniteSet(0..n)
    BY FS_Interval
  <2> HIDE DEF Stops
  <2>4. PICK c \in Stops : \A k \in Stops : f[c] <= f[k]
    BY <2>2, <2>3, Least
  <2>5. \A k \in 0..n : k < c => k \notin Stops
    BY <2>1, <2>2, <2>4
  <2>6. ASSUME NEW i \in 1..n, i <= c PROVE rows[i].to <= from
    <3>1. i - 1 \in 0..n /\ i - 1 < c /\ i - 1 < n /\ (i - 1) + 1 = i
      BY <2>2, <2>6
    <3>2. i - 1 \notin Stops
      BY <2>5, <3>1
    <3> QED BY <3>1, <3>2 DEF Stops
  <2>7. ASSUME NEW i \in 1..n, ~(i <= c) PROVE ~(rows[i].to <= from)
    <3>1. c \in 0..n /\ c < n /\ c + 1 \in 1..n /\ c + 1 <= i
      BY <2>2, <2>7
    <3>2. ~(rows[c + 1].to <= from)
      BY <3>1, <2>4 DEF Stops
    <3>3. rows[c + 1].to <= rows[i].to /\ rows[c + 1].to \in Int /\ rows[i].to \in Int
      BY <3>1
    <3> QED BY <3>2, <3>3
  <2> QED BY <2>2, <2>6, <2>7
<1> DEFINE Between(lo, hi) == IF lo >= hi \/ c <= lo THEN lo ELSE IF c >= hi THEN hi ELSE c
<1>2. ASSUME NEW lo \in 0..n, NEW hi \in 0..n, lo < hi
      PROVE  /\ Mid(lo, hi) \in 0..n /\ Mid(lo, hi) + 1 \in 0..n /\ lo <= Mid(lo, hi) /\ Mid(lo, hi) < hi
             /\ rows[Mid(lo, hi) + 1].to <= from <=> Mid(lo, hi) < c
             /\ Mid(lo, hi) < c => Between(lo, hi) = Between(Mid(lo, hi) + 1, hi)
             /\ ~(Mid(lo, hi) < c) => Between(lo, hi) = Between(lo, Mid(lo, hi))
  <2>1. PICK m \in Int : m = Mid(lo, hi)
    OBVIOUS
  <2>2. lo <= m /\ m < hi
    BY <1>2, <2>1
  <2>3. m + 1 \in 1..n /\ m \in 0..n /\ m + 1 \in 0..n
    BY <2>2
  <2>4. rows[m + 1].to <= from <=> m < c
    BY <1>1, <2>3
  <2>5. m < c => Between(lo, hi) = Between(m + 1, hi)
    BY <2>2
  <2>6. ~(m < c) => Between(lo, hi) = Between(lo, m)
    BY <2>2
  <2> HIDE DEF Mid, Between
  <2> QED BY <2>1, <2>2, <2>3, <2>4, <2>5, <2>6
<1> HIDE DEF Mid
<1>3. \E g : Solves(g)
  <2> DEFINE g == [w \in P |-> Between(w[1], w[2])]
  <2>1. \A lo, hi \in 0..n : g[<<lo, hi>>] = Between(lo, hi)
    OBVIOUS
  <2>2. ASSUME NEW lo \in 0..n, NEW hi \in 0..n PROVE Between(lo, hi) = Half(g, lo, hi)
    <3>1. CASE lo >= hi
      BY <3>1
    <3>2. CASE lo < hi
      <4>1. PICK m : m = Mid(lo, hi)
        OBVIOUS
      <4> HIDE DEF Between, g
      <4>2. /\ m \in 0..n /\ m + 1 \in 0..n
            /\ rows[m + 1].to <= from <=> m < c
            /\ m < c => Between(lo, hi) = Between(m + 1, hi)
            /\ ~(m < c) => Between(lo, hi) = Between(lo, m)
        BY <1>2, <3>2, <4>1
      <4>3. g[<<m + 1, hi>>] = Between(m + 1, hi) /\ g[<<lo, m>>] = Between(lo, m)
        BY <2>1, <4>2
      <4>4. Half(g, lo, hi) = IF rows[m + 1].to <= from THEN g[<<m + 1, hi>>] ELSE g[<<lo, m>>]
        BY <3>2, <4>1
      <4> QED BY <4>2, <4>3, <4>4
    <3> QED BY <3>1, <3>2
  <2>3. \A w \in P : w[1] \in 0..n /\ w[2] \in 0..n
    OBVIOUS
  <2>4. \A w \in P : Between(w[1], w[2]) = Half(g, w[1], w[2])
    BY <2>2, <2>3
  <2> HIDE DEF Between, Half
  <2>5. g = [w \in P |-> Half(g, w[1], w[2])]
    BY <2>4
  <2> QED BY <2>5
<1>4. PICK g : Solves(g) /\ FirstAfter(rows, from) = g[<<0, n>>] + 1
  <2>1. Solves(CHOOSE g : Solves(g))
    BY <1>3
  <2>2. FirstAfter(rows, from) = (CHOOSE g : Solves(g))[<<0, n>>] + 1
    BY DEF FirstAfter, Mid
  <2> HIDE DEF Solves
  <2> QED BY <2>1, <2>2
<1>5. ASSUME NEW lo \in 0..n, NEW hi \in 0..n PROVE g[<<lo, hi>>] = Half(g, lo, hi)
  <2>1. <<lo, hi>> \in P /\ <<lo, hi>>[1] = lo /\ <<lo, hi>>[2] = hi
    OBVIOUS
  <2> HIDE DEF Half, P
  <2>2. g[<<lo, hi>>] = Half(g, <<lo, hi>>[1], <<lo, hi>>[2])
    BY <1>4, <2>1
  <2> QED BY <2>1, <2>2
<1> DEFINE S == {k \in 0..n : \A lo, hi \in 0..n : hi - lo <= k => g[<<lo, hi>>] = Between(lo, hi)}
<1>6. 0 \in S
  <2> SUFFICES ASSUME NEW lo \in 0..n, NEW hi \in 0..n, hi - lo <= 0 PROVE g[<<lo, hi>>] = Between(lo, hi)
    OBVIOUS
  <2>1. lo >= hi
    OBVIOUS
  <2> QED BY <1>5, <2>1
<1>7. \A k \in 0..(n - 1) : k \in S => k + 1 \in S
  <2> SUFFICES ASSUME NEW k \in 0..(n - 1), k \in S PROVE k + 1 \in S
    OBVIOUS
  <2> k + 1 \in 0..n
    OBVIOUS
  <2> HIDE DEF Between
  <2> SUFFICES ASSUME NEW lo \in 0..n, NEW hi \in 0..n, hi - lo <= k + 1
               PROVE  g[<<lo, hi>>] = Between(lo, hi)
    OBVIOUS
  <2>1. CASE lo >= hi
    <3>1. hi - lo <= k /\ k \in 0..n
      BY <2>1
    <3> QED BY <3>1
  <2>2. CASE lo < hi
    <3>1. PICK m : m = Mid(lo, hi)
      OBVIOUS
    <3>2. /\ m \in 0..n /\ m + 1 \in 0..n /\ lo <= m /\ m < hi
          /\ rows[m + 1].to <= from <=> m < c
          /\ m < c => Between(lo, hi) = Between(m + 1, hi)
          /\ ~(m < c) => Between(lo, hi) = Between(lo, m)
      BY <1>2, <2>2, <3>1
    <3>3. g[<<m + 1, hi>>] = Between(m + 1, hi) /\ g[<<lo, m>>] = Between(lo, m)
      <4>1. hi - (m + 1) <= k /\ m - lo <= k
        BY <3>2
      <4> QED BY <3>2, <4>1
    <3>4. g[<<lo, hi>>] = IF rows[m + 1].to <= from THEN g[<<m + 1, hi>>] ELSE g[<<lo, m>>]
      BY <1>5, <2>2, <3>1
    <3> QED BY <3>2, <3>3, <3>4
  <2> QED BY <2>1, <2>2
<1> HIDE DEF S
<1>8. 0..n \subseteq S
  BY <1>6, <1>7, Induct
<1>9. g[<<0, n>>] = Between(0, n)
  BY <1>8 DEF S
<1>10. Between(0, n) = c
  OBVIOUS
<1>11. FirstAfter(rows, from) = c + 1
  BY <1>4, <1>9, <1>10
<1> QED BY <1>1, <1>11

\* The rows that are read of a unit are finitely many, and apart.
LEMMA BusyIs ==
  ASSUME TypeOK, NoDoubleBooking, NEW u
  PROVE  /\ IsFiniteSet(Busy(u)) /\ Busy(u) \subseteq Ranges
         /\ \A d \in Busy(u) : d.from \in Nat /\ d.to \in Nat /\ d.from < d.to
         /\ \A d, e \in Busy(u) : d # e => ~Overlaps(d, e)
<1> DEFINE B == Busy(u)
<1>1. ASSUME NEW d \in B
      PROVE  /\ d \in Ranges /\ Overlaps(d, Span)
             /\ \E q \in Res : Occupies(res[q]) /\ u \in Members(res[q].asg) /\ d = res[q].during
  <2>1. PICK q \in Res : /\ Occupies(res[q]) /\ u \in Members(res[q].asg) /\ d = res[q].during
                         /\ Overlaps(res[q].during, Span)
    BY DEF Busy
  <2>2. res[q] \in Row
    BY <2>1 DEF TypeOK, NoRow, Occupies, OccupyingStatuses, LiveStatuses
  <2> QED BY <2>1, <2>2 DEF Row
<1>2. \A d \in B : d.from \in Nat /\ d.to \in Nat /\ d.from < d.to
  BY <1>1, RulesAssumption
<1>3. ASSUME NEW d \in B, NEW e \in B, d # e PROVE ~Overlaps(d, e)
  <2>1. PICK q \in Res : Occupies(res[q]) /\ u \in Members(res[q].asg) /\ d = res[q].during
    BY <1>1
  <2>2. PICK r \in Res : Occupies(res[r]) /\ u \in Members(res[r].asg) /\ e = res[r].during
    BY <1>1
  <2>3. ~Clashes(res[q], res[r].asg, res[r].during)
    BY <1>3, <2>1, <2>2 DEF NoDoubleBooking
  <2> QED BY <2>1, <2>2, <2>3 DEF Clashes
<1>4. IsFiniteSet(B)
  <2> DEFINE N == 0..(Window.to + 2 * Reach)
  <2>1. IsFiniteSet(N)
    BY FS_Interval, SlotsAssumption
  <2>2. \A d \in B : d.from \in N
    BY <1>1, <1>2, SlotsAssumption DEF Overlaps, Span
  <2>3. \A d, e \in B : d.from = e.from => d = e
    BY <1>2, <1>3 DEF Overlaps
  <2> HIDE DEF B, N
  <2>4. [d \in B |-> d.from] \in Injection(B, N)
    BY <2>2, <2>3 DEF Injection, IsInjective
  <2> QED BY <2>1, <2>4, FS_Injection
<1> QED BY <1>1, <1>2, <1>3, <1>4

\* A unit is free just when none of its rows is in the way.
LEMMA UnitFreeIs ==
  ASSUME TypeOK, NoDoubleBooking, NEW u, NEW from \in Int, NEW to \in Int
  PROVE  UnitFree(u, from, to) <=> \A d \in Busy(u) : ~(d.from < to /\ from < d.to)
<1> DEFINE B == Busy(u)
<1>1. PICK n, rows : n = Cardinality(B) /\ rows = Sorted(B)
  OBVIOUS
<1>2. \A d \in B : d.from \in Int /\ d.to \in Int /\ d.from < d.to
  BY BusyIs
<1>3. \A d, e \in B : d # e => d.from # e.from /\ ~Overlaps(d, e)
  BY BusyIs DEF Overlaps
<1>4. /\ n \in Nat /\ rows \in [1..n -> B] /\ Len(rows) = n
      /\ \A i, j \in 1..n : i < j => rows[i].from < rows[j].from
      /\ \A d \in B : \E i \in 1..n : rows[i] = d
  <2> HIDE DEF B
  <2>1. IsFiniteSet(B)
    BY BusyIs DEF B
  <2> QED BY <1>1, <1>2, <1>3, <2>1, SortedIs
<1> HIDE DEF B
<1>5. \A i \in 1..n : rows[i].from \in Int /\ rows[i].to \in Int /\ rows[i].from < rows[i].to
  BY <1>2, <1>4
<1>6. \A i, j \in 1..n : i < j => rows[i].to <= rows[j].to
  <2> SUFFICES ASSUME NEW i \in 1..n, NEW j \in 1..n, i < j PROVE rows[i].to <= rows[j].to
    OBVIOUS
  <2>1. rows[i].from < rows[j].from /\ rows[i] \in B /\ rows[j] \in B
    BY <1>4
  <2>2. rows[i] # rows[j]
    BY <1>5, <2>1
  <2>3. ~Overlaps(rows[i], rows[j])
    BY <1>3, <2>1, <2>2
  <2> QED BY <1>5, <2>1, <2>3 DEF Overlaps
<1>7. PICK f \in 1..(n + 1) : /\ f = FirstAfter(rows, from)
                              /\ \A i \in 1..n : i < f <=> rows[i].to <= from
  BY <1>4, <1>5, <1>6, FirstAfterIs
<1>8. UnitFree(u, from, to) <=> f > n \/ rows[f].from >= to
  BY <1>1, <1>4, <1>7 DEF UnitFree, B
<1>9. ASSUME UnitFree(u, from, to), NEW d \in B PROVE ~(d.from < to /\ from < d.to)
  <2>1. PICK i \in 1..n : rows[i] = d
    BY <1>4
  <2>2. CASE i < f
    BY <1>2, <1>7, <2>1, <2>2
  <2>3. CASE f <= i
    <3>1. f \in 1..n /\ rows[f].from >= to
      BY <1>4, <1>8, <1>9, <2>3
    <3>2. rows[f].from <= rows[i].from
      BY <1>4, <1>5, <2>3, <3>1
    <3> QED BY <1>5, <2>1, <3>1, <3>2
  <2> QED BY <2>2, <2>3
<1>10. ASSUME \A d \in B : ~(d.from < to /\ from < d.to) PROVE UnitFree(u, from, to)
  <2>1. CASE f > n
    BY <1>8, <2>1
  <2>2. CASE f <= n
    <3>1. f \in 1..n /\ ~(f < f)
      BY <1>4, <2>2
    <3>2. ~(rows[f].to <= from) /\ rows[f] \in B
      BY <1>4, <1>7, <3>1
    <3>3. rows[f].from >= to
      BY <1>5, <1>10, <3>1, <3>2
    <3> QED BY <1>8, <3>3
  <2> QED BY <1>4, <2>1, <2>2
<1> QED BY <1>9, <1>10 DEF B

-----------------------------------------------------------------------------
(* The choices of a slot. *)

\* A duration is one of the period's.
LEMMA DurationIs ==
  ASSUME NEW p \in Periods, NEW n \in Nat, Sizes(p, n) # {}
  PROVE  DurationFor(p, n) \in 1..Reach
<1> DEFINE D == DOMAIN p.durations
<1>1. D \subseteq Nat /\ IsFiniteSet(D) /\ \A size \in D : p.durations[size] \in 1..Reach
  BY SlotsAssumption
<1>2. PICK f \in [D -> Int] : \A x \in D : f[x] = x
  <2>1. [x \in D |-> x] \in [D -> Int]
    BY <1>1
  <2> QED BY <2>1
<1>3. Sizes(p, n) \in SUBSET D
  BY DEF Sizes
<1>4. PICK m \in Sizes(p, n) : \A x \in Sizes(p, n) : f[m] <= f[x]
  BY <1>1, <1>3, Least
<1>5. \A x \in Sizes(p, n) : m <= x
  BY <1>2, <1>3, <1>4
<1>6. Min(Sizes(p, n)) \in Sizes(p, n)
  BY <1>5 DEF Min
<1> QED BY <1>1, <1>3, <1>6 DEF DurationFor

\* A start that some period admits has a period, which admits it.
LEMMA PeriodIs ==
  ASSUME NEW n, NEW t, \E p \in Periods : Admits(p, n, t)
  PROVE  PeriodOf(n, t) \in Periods /\ Admits(PeriodOf(n, t), n, t)
<1> DEFINE T == {p \in Periods : Admits(p, n, t)}
<1>1. IsFiniteSet(Periods) /\ \A p \in Periods : p.id \in Nat /\ p.from \in Nat
  BY SlotsAssumption
<1>2. PICK f \in [Periods -> Int], g \in [Periods -> Int] : \A p \in Periods : f[p] = p.from /\ g[p] = p.id
  <2>1. [p \in Periods |-> p.from] \in [Periods -> Int] /\ [p \in Periods |-> p.id] \in [Periods -> Int]
    BY <1>1
  <2> QED BY <2>1
<1>3. T \in SUBSET Periods /\ T # {}
  OBVIOUS
<1> HIDE DEF T
<1>4. PICK a \in T : \A p \in T : f[a] <= f[p]
  BY <1>1, <1>3, Least
<1> DEFINE U == {p \in T : f[p] = f[a]}
<1>5. U \in SUBSET Periods /\ a \in U
  BY <1>3
<1>6. PICK b \in U : \A p \in U : g[b] <= g[p]
  BY <1>1, <1>5, Least
<1>7. b \in T /\ \A p \in T : Before(b, p)
  <2> SUFFICES ASSUME NEW p \in T PROVE b \in T /\ Before(b, p)
    OBVIOUS
  <2>1. b \in T /\ f[b] = f[a] /\ b \in Periods /\ p \in Periods
    BY <1>3
  <2>2. f[b] <= f[p] /\ (f[p] = f[b] => g[b] <= g[p])
    BY <1>4, <1>6, <2>1
  <2> QED BY <1>1, <1>2, <2>1, <2>2 DEF Before
<1>8. \E p \in Periods : Admits(p, n, t) /\ \A q \in Periods : Admits(q, n, t) => Before(p, q)
  BY <1>3, <1>7 DEF T
<1> QED BY <1>8 DEF PeriodOf

\* Among assignments that are free one is chosen.
LEMMA ChooseIs ==
  ASSUME TypeOK, NEW free \in SUBSET Assignments, free # {}, NEW from, NEW to
  PROVE  Choose(free, from, to) \in free
<1> DEFINE K(a) == Key(a, from, to)
<1>1. IsFiniteSet(Assignments) /\ Assignments \subseteq Nat
  BY RulesAssumption, FS_Union DEF Assignments
<1>2. ASSUME NEW a \in Assignments
      PROVE  K(a)[1] \in Int /\ K(a)[2] \in Int /\ K(a)[3] \in Int /\ K(a)[4] = a
  <2>1. capacity[a].max \in Nat
    BY BookingAssumption DEF TypeOK
  <2>2. Broken(a, from, to) \in Nat
    <3> DEFINE C == {c \in UsableCombos : a \in Members(c) /\ Free(Members(c), from, to)}
    <3>1. C \in SUBSET Combos
      BY DEF UsableCombos
    <3>2. Cardinality(C) \in Nat
      BY <3>1, RulesAssumption, FS_Subset, FS_CardinalityType
    <3> QED BY <3>2 DEF Broken
  <2> QED BY <2>1, <2>2 DEF Key
<1> HIDE DEF K
<1>3. PICK f \in [Assignments -> Int], g \in [Assignments -> Int], h \in [Assignments -> Int],
           k \in [Assignments -> Int] :
        \A a \in Assignments : f[a] = K(a)[1] /\ g[a] = K(a)[2] /\ h[a] = K(a)[3] /\ k[a] = K(a)[4]
  <2>1. /\ [a \in Assignments |-> K(a)[1]] \in [Assignments -> Int]
        /\ [a \in Assignments |-> K(a)[2]] \in [Assignments -> Int]
        /\ [a \in Assignments |-> K(a)[3]] \in [Assignments -> Int]
        /\ [a \in Assignments |-> K(a)[4]] \in [Assignments -> Int]
    BY <1>1, <1>2
  <2> QED BY <2>1
<1>4. PICK a1 \in free : \A x \in free : f[a1] <= f[x]
  BY <1>1, Least
<1> DEFINE T2 == {x \in free : f[x] = f[a1]}
<1>5. PICK a2 \in T2 : \A x \in T2 : g[a2] <= g[x]
  <2>1. T2 \in SUBSET Assignments /\ a1 \in T2
    OBVIOUS
  <2> HIDE DEF T2
  <2> QED BY <1>1, <2>1, Least
<1> DEFINE T3 == {x \in T2 : g[x] = g[a2]}
<1>6. PICK a3 \in T3 : \A x \in T3 : h[a3] <= h[x]
  <2>1. T3 \in SUBSET Assignments /\ a2 \in T3
    OBVIOUS
  <2> HIDE DEF T3
  <2> QED BY <1>1, <2>1, Least
<1> DEFINE T4 == {x \in T3 : h[x] = h[a3]}
<1>7. PICK a4 \in T4 : \A x \in T4 : k[a4] <= k[x]
  <2>1. T4 \in SUBSET Assignments /\ a3 \in T4
    OBVIOUS
  <2> HIDE DEF T4
  <2> QED BY <1>1, <2>1, Least
<1>8. a4 \in free /\ f[a4] = f[a1] /\ g[a4] = g[a2] /\ h[a4] = h[a3]
  OBVIOUS
<1>9. ASSUME NEW b \in free \ {a4} PROVE Precedes(K(a4), K(b))
  <2>1. a4 \in Assignments /\ b \in Assignments /\ k[a4] = a4 /\ k[b] = b
    BY <1>2, <1>3, <1>8
  <2>2. CASE f[a4] < f[b]
    <3>1. K(a4)[1] < K(b)[1] /\ \A j \in 1..0 : K(a4)[j] = K(b)[j]
      BY <1>3, <2>1, <2>2
    <3> QED BY <3>1 DEF Precedes
  <2>3. CASE f[a4] = f[b] /\ g[a4] < g[b]
    <3>1. K(a4)[2] < K(b)[2] /\ \A j \in 1..1 : K(a4)[j] = K(b)[j]
      BY <1>3, <2>1, <2>3
    <3> QED BY <3>1 DEF Precedes
  <2>4. CASE f[a4] = f[b] /\ g[a4] = g[b] /\ h[a4] < h[b]
    <3>1. K(a4)[3] < K(b)[3] /\ \A j \in 1..2 : K(a4)[j] = K(b)[j]
      BY <1>3, <2>1, <2>4
    <3> QED BY <3>1 DEF Precedes
  <2>5. CASE f[a4] = f[b] /\ g[a4] = g[b] /\ h[a4] = h[b] /\ k[a4] < k[b]
    <3>1. K(a4)[4] < K(b)[4] /\ \A j \in 1..3 : K(a4)[j] = K(b)[j]
      BY <1>3, <2>1, <2>5
    <3> QED BY <3>1 DEF Precedes
  <2>6. f[a4] <= f[b]
    BY <1>4, <1>8
  <2>7. f[a4] = f[b] => b \in T2 /\ g[a4] <= g[b]
    BY <1>5, <1>8
  <2>8. f[a4] = f[b] /\ g[a4] = g[b] => b \in T3 /\ h[a4] <= h[b]
    BY <1>6, <1>8, <2>7
  <2>9. f[a4] = f[b] /\ g[a4] = g[b] /\ h[a4] = h[b] => k[a4] < k[b]
    BY <1>1, <1>7, <1>8, <2>1, <2>8
  <2>10. /\ f[a4] \in Int /\ f[b] \in Int /\ g[a4] \in Int /\ g[b] \in Int /\ h[a4] \in Int /\ h[b] \in Int
         /\ k[a4] \in Int /\ k[b] \in Int
    BY <2>1
  <2> HIDE DEF T2, T3, T4
  <2> QED BY <2>2, <2>3, <2>4, <2>5, <2>6, <2>7, <2>8, <2>9, <2>10
<1>10. \E a \in free : \A b \in free \ {a} : Precedes(K(a), K(b))
  BY <1>8, <1>9
<1> QED BY <1>10 DEF Choose, K

-----------------------------------------------------------------------------
(* What is offered. *)

\* Within the span that is read, an assignment is free just when no row that counts is
\* in its way.
LEMMA FreeIs ==
  ASSUME TypeOK, NoDoubleBooking, NEW a, NEW d \in [from: Int, to: Int],
         Span.from <= d.from, d.to <= Span.to
  PROVE  Free(Members(a), d.from, d.to) <=> InTheWay(a, d) = {}
<1>1. Span.from \in Int /\ Span.to \in Int
  BY SlotsAssumption DEF Span
<1>2. Free(Members(a), d.from, d.to) <=>
        \A u \in Members(a) : \A e \in Busy(u) : ~Overlaps(e, d)
  BY UnitFreeIs DEF Free, Overlaps
<1>3. ASSUME NEW q \in InTheWay(a, d) PROVE \E u \in Members(a) : \E e \in Busy(u) : Overlaps(e, d)
  <2>1. q \in Res /\ Clashes(res[q], a, d) /\ ~Dead(res[q], clock)
    BY DEF InTheWay
  <2>2. PICK u : u \in Members(res[q].asg) /\ u \in Members(a)
    BY <2>1 DEF Clashes
  <2>3. Occupies(res[q]) /\ Overlaps(res[q].during, d)
    BY <2>1 DEF Clashes
  <2>4. res[q].during \in Ranges
    BY <2>1, <2>3 DEF TypeOK, NoRow, Row, Occupies, OccupyingStatuses, LiveStatuses
  <2>5. EffectiveStatus(res[q], clock) # "expired"
    BY <2>1, <2>3 DEF EffectiveStatus, Dead, Occupies, OccupyingStatuses, LiveStatuses
  <2>6. Overlaps(res[q].during, Span)
    <3>1. PICK e \in Ranges : e = res[q].during /\ e.from \in Int /\ e.to \in Int
      BY <2>4, RulesAssumption
    <3>2. e.from < Span.to /\ Span.from < e.to
      BY <1>1, <2>3, <3>1 DEF Overlaps
    <3> QED BY <3>1, <3>2 DEF Overlaps
  <2>7. res[q].during \in Busy(u)
    BY <2>1, <2>2, <2>3, <2>5, <2>6 DEF Busy
  <2> QED BY <2>2, <2>3, <2>7
<1>4. ASSUME NEW u \in Members(a), NEW e \in Busy(u), Overlaps(e, d) PROVE InTheWay(a, d) # {}
  <2>1. PICK q \in Res : /\ Occupies(res[q]) /\ u \in Members(res[q].asg) /\ e = res[q].during
                         /\ EffectiveStatus(res[q], clock) # "expired"
    BY DEF Busy
  <2>2. Clashes(res[q], a, d) /\ ~Dead(res[q], clock)
    BY <1>4, <2>1 DEF Clashes, Dead, EffectiveStatus
  <2> QED BY <2>2 DEF InTheWay
<1> QED BY <1>2, <1>3, <1>4

\* What a start stands for: the booking, and its padding, which is read whole.
LEMMA StartIs ==
  ASSUME NEW n \in Parties, NEW t \in Starts(n)
  PROVE  /\ PeriodOf(n, t) \in Periods
         /\ t \in Int /\ Window.from <= t /\ t < Window.to
         /\ Booked(n, t) \in [from: Int, to: Int] /\ Booked(n, t).from = t
         /\ Booked(n, t).to <= Window.to + Reach
         /\ PeriodOf(n, t).from <= t /\ Booked(n, t).to <= PeriodOf(n, t).to
         /\ Padded(n, t) \in [from: Int, to: Int]
         /\ Padded(n, t).from <= t /\ Booked(n, t).to <= Padded(n, t).to
         /\ Span.from <= Padded(n, t).from /\ Padded(n, t).to <= Span.to
<1>1. PICK p \in Periods : p = PeriodOf(n, t) /\ Admits(p, n, t)
  BY PeriodIs DEF Starts
<1>2. n \in Nat
  BY RulesAssumption
<1>3. PICK m \in 1..Reach : m = DurationFor(p, n)
  BY <1>1, <1>2, DurationIs DEF Admits
<1>4. p.from \in Nat /\ p.to \in Nat /\ p.gap \in 0..Reach /\ Reach \in Nat /\ Window \in [from: Nat, to: Nat]
  BY SlotsAssumption
<1>5. t \in p.from..(p.to - m)
  BY <1>1, <1>3 DEF Admits, SlotStarts
<1>6. t \in Int /\ Window.from <= t /\ t < Window.to
  BY <1>4 DEF Starts
<1>7. Booked(n, t) = [from |-> t, to |-> t + m]
  BY <1>1, <1>3 DEF Booked
<1>8. Padded(n, t) = [from |-> t - p.gap, to |-> t + m + p.gap]
  BY <1>1, <1>7 DEF Padded
<1>9. Span.from = Window.from - Reach /\ Span.to = Window.to + 2 * Reach
  BY DEF Span
<1> QED BY <1>1, <1>4, <1>5, <1>6, <1>7, <1>8, <1>9

\* A booking is clear of the closures just when it is of the active blackouts.
LEMMA OpenIs ==
  ASSUME NEW n \in Parties, NEW t \in Starts(n)
  PROVE  (\A c \in Closures : ~Overlaps(c, Booked(n, t))) <=> Open(Booked(n, t))
<1> DEFINE W == [Window EXCEPT !.to = @ + Reach]
<1>1. W.from = Window.from /\ W.to = Window.to + Reach
  BY SlotsAssumption
<1>2. ASSUME NEW b \in Blackouts, Overlaps(BlackoutRange[b], Booked(n, t))
      PROVE  Overlaps(BlackoutRange[b], W)
  <2>1. PICK d \in [from: Nat, to: Nat] : d = BlackoutRange[b]
    BY BookingAssumption, RulesAssumption
  <2>2. PICK e \in [from: Int, to: Int] :
          e = Booked(n, t) /\ Window.from <= e.from /\ e.to <= Window.to + Reach
    BY StartIs
  <2>3. Window.from \in Nat /\ Window.to \in Nat /\ Reach \in Nat
    BY SlotsAssumption
  <2>4. d.from < Window.to + Reach /\ Window.from < d.to
    BY <1>2, <2>1, <2>2, <2>3 DEF Overlaps
  <2> QED BY <1>1, <2>1, <2>4 DEF Overlaps
<1>3. Closures = {BlackoutRange[b] : b \in {c \in Blackouts :
                    closed[c] = "active" /\ Overlaps(BlackoutRange[c], W)}}
  BY DEF Closures
<1> HIDE DEF W
<1> QED BY <1>2, <1>3 DEF Open

\* Offers are starts that can be offered, and all when the answer is not truncated.
LEMMA FirstOfAll ==
  ASSUME NEW S, IsFiniteSet(S), S \subseteq Int, NEW k \in Nat, Cardinality(S) <= k
  PROVE  FirstOf(k, S) = S
<1> SUFFICES ASSUME NEW t \in S PROVE Cardinality({s \in S : s < t}) < k
  BY DEF FirstOf
<1> DEFINE L == {s \in S : s < t}
<1>1. L \subseteq S /\ t \notin L
  OBVIOUS
<1> HIDE DEF L
<1>2. /\ Cardinality(L) <= Cardinality(S) /\ Cardinality(L) # Cardinality(S)
      /\ Cardinality(L) \in Nat /\ Cardinality(S) \in Nat
  BY <1>1, FS_Subset, FS_CardinalityType
<1>3. Cardinality(L) < k
  BY <1>2
<1> QED BY <1>3 DEF L

LEMMA OffersTrue ==
  ASSUME TypeOK, NoDoubleBooking
  PROVE  OffersBookable
<1> SUFFICES ASSUME NEW n \in Parties, NEW t \in FirstOf(Limit, Offers(n)), NEW s, s = SlotAt(n, t)
             PROVE  /\ Bookable([status |-> "held", asg |-> s.asg, party |-> n,
                                 during |-> s.during, expires |-> 0])
                    /\ InTheWay(s.asg, s.during) = {} /\ InSchedule(s.during)
  BY DEF OffersBookable, Answer
<1>1. t \in Starts(n) /\ Offered(n, t)
  BY DEF FirstOf, Offers
<1>2. PICK a : a = Choose(FreeAt(n, t), Padded(n, t).from, Padded(n, t).to) /\ s.asg = a
  BY DEF SlotAt
<1>3. s.during = Booked(n, t)
  BY DEF SlotAt
<1>4. a \in FreeAt(n, t)
  <2>1. FreeAt(n, t) \in SUBSET Assignments /\ FreeAt(n, t) # {}
    BY <1>1 DEF FreeAt, Candidates, Offered
  <2> QED BY <1>2, <2>1, ChooseIs
<1>5. a \in Assignments /\ Usable(a) /\ Fits(a, n) /\ Free(Members(a), Padded(n, t).from, Padded(n, t).to)
  BY <1>4 DEF FreeAt, Candidates
<1>6. Open(Booked(n, t))
  BY <1>1, OpenIs DEF Offered
<1>7. InTheWay(a, Padded(n, t)) = {}
  <2>1. PICK d \in [from: Int, to: Int] : d = Padded(n, t) /\ Span.from <= d.from /\ d.to <= Span.to
    BY <1>1, StartIs
  <2> QED BY <1>5, <2>1, FreeIs
<1>8. InTheWay(a, Booked(n, t)) = {}
  <2> SUFFICES ASSUME NEW q \in Res, Clashes(res[q], a, Booked(n, t)), ~Dead(res[q], clock) PROVE FALSE
    BY DEF InTheWay
  <2>1. res[q].during \in Ranges
    BY DEF Clashes, TypeOK, NoRow, Row, Occupies, OccupyingStatuses, LiveStatuses
  <2>2. PICK e : e = res[q].during /\ e.from \in Int /\ e.to \in Int
    BY <2>1, RulesAssumption
  <2>3. /\ Booked(n, t) \in [from: Int, to: Int] /\ Padded(n, t) \in [from: Int, to: Int]
        /\ Padded(n, t).from <= Booked(n, t).from /\ Booked(n, t).to <= Padded(n, t).to
    BY <1>1, StartIs
  <2>4. Overlaps(e, Booked(n, t))
    BY <2>2 DEF Clashes
  <2>5. Overlaps(e, Padded(n, t))
    BY <2>2, <2>3, <2>4 DEF Overlaps
  <2>6. Clashes(res[q], a, Padded(n, t))
    BY <2>2, <2>5 DEF Clashes
  <2> QED BY <1>7, <2>6 DEF InTheWay
<1>9. InSchedule(Booked(n, t))
  BY <1>1, StartIs DEF InSchedule
<1> QED BY <1>2, <1>3, <1>5, <1>6, <1>8, <1>9 DEF Bookable

LEMMA OffersAll ==
  ASSUME TypeOK, NoDoubleBooking
  PROVE  OffersComplete
<1> SUFFICES ASSUME NEW n \in Parties, ~Answer(n).truncated,
                    NEW t \in Starts(n), t \notin {s.start : s \in Answer(n).slots},
                    NEW a \in Assignments,
                    Bookable([status |-> "held", asg |-> a, party |-> n, during |-> Booked(n, t),
                              expires |-> 0]),
                    LET d == Booked(n, t) gap == PeriodOf(n, t).gap
                    IN InTheWay(a, [from |-> d.from - gap, to |-> d.to + gap]) = {}
             PROVE  FALSE
  BY DEF OffersComplete
<1>1. /\ IsFiniteSet(Starts(n)) /\ Starts(n) \subseteq Int
      /\ Offers(n) \subseteq Starts(n) /\ IsFiniteSet(Offers(n))
  <2>1. Starts(n) \in SUBSET (Window.from..(Window.to - 1))
    BY DEF Starts
  <2>2. IsFiniteSet(Window.from..(Window.to - 1)) /\ Window.from..(Window.to - 1) \subseteq Int
    BY FS_Interval, SlotsAssumption
  <2>3. Offers(n) \in SUBSET Starts(n)
    BY DEF Offers, FirstOf
  <2> QED BY <2>1, <2>2, <2>3, FS_Subset
<1>2. Cardinality(Starts(n)) <= MaxStarts /\ Cardinality(Offers(n)) <= Limit
  <2>1. ~(Cardinality(Starts(n)) > MaxStarts) /\ ~(Cardinality(Offers(n)) > Limit)
    BY DEF Answer
  <2>2. Cardinality(Offers(n)) \in Nat /\ Cardinality(Starts(n)) \in Nat
    BY <1>1, FS_CardinalityType
  <2>3. MaxStarts \in Nat /\ Limit \in Nat
    BY SlotsAssumption
  <2> QED BY <2>1, <2>2, <2>3
<1>3. FirstOf(MaxStarts, Starts(n)) = Starts(n) /\ FirstOf(Limit, Offers(n)) = Offers(n)
  BY <1>1, <1>2, FirstOfAll, SlotsAssumption
<1>4. t \notin Offers(n)
  <2>1. \A x \in Offers(n) : SlotAt(n, x) \in Answer(n).slots /\ SlotAt(n, x).start = x
    BY <1>3 DEF Answer, SlotAt
  <2> QED BY <2>1
<1>5. ~Offered(n, t)
  BY <1>3, <1>4 DEF Offers
<1>6. Usable(a) /\ Fits(a, n) /\ Open(Booked(n, t))
  BY DEF Bookable
<1>7. a \notin FreeAt(n, t)
  BY <1>5, <1>6, OpenIs DEF Offered
<1>8. ~Free(Members(a), Padded(n, t).from, Padded(n, t).to)
  BY <1>6, <1>7 DEF FreeAt, Candidates
<1>9. InTheWay(a, Padded(n, t)) # {}
  <2>1. PICK d \in [from: Int, to: Int] : d = Padded(n, t) /\ Span.from <= d.from /\ d.to <= Span.to
    BY StartIs
  <2> QED BY <1>8, <2>1, FreeIs
<1> QED BY <1>9 DEF Padded

-----------------------------------------------------------------------------
(* Theorems. *)

\* The tables of the abstract database keep their types.
THEOREM BookingType == Spec => []TypeOK
<1>1. Init => TypeOK
  BY InitSafe
<1> QED BY <1>1, TypeStep, PTL DEF Spec

\* Invariants 1, 4, 11 and 12 of CORRECTNESS.md follow from what each commit
\* checks: no double booking, and every live reservation fits its assignment,
\* overlaps no active blackout and uses active units only.
THEOREM BookingSafe ==
  Spec => [](NoDoubleBooking /\ PartyFits /\ NoBlackoutBooked /\ OnlyActiveAssigned)
<1> DEFINE IInv == TypeOK /\ NoDoubleBooking /\ LiveBookable
<1>1. Init => IInv
  BY InitSafe
<1>2. IInv /\ [Next]_vars => IInv'
  BY TypeStep, SafeStep
<1>3. IInv => NoDoubleBooking /\ PartyFits /\ NoBlackoutBooked /\ OnlyActiveAssigned
  BY DEF LiveBookable, Bookable, PartyFits, NoBlackoutBooked, OnlyActiveAssigned
<1> QED BY <1>1, <1>2, <1>3, PTL DEF Spec

\* Invariant 7: whoever writes them, reservations only enter as holds and move
\* along the transition table, keeping what was booked.
THEOREM BookingLegal == Spec => LegalSteps
<1> DEFINE Legal(r) ==
      \/ res[r] = NoRow /\ res'[r].status = "held"
      \/ /\ <<res[r].status, res'[r].status>> \in Transitions
         /\ res'[r] = WithStatus(res[r], res'[r].status)
<1>1. ASSUME TypeOK, NEW S \in SUBSET Res, NEW s \in Statuses, NEW T, T = SetStatus(res, S, s),
             NEW r \in Res, T[r] # res[r],
             \A q \in S : <<res[q].status, s>> \in Transitions
      PROVE  /\ <<res[r].status, T[r].status>> \in Transitions
             /\ T[r] = WithStatus(res[r], T[r].status)
  <2>1. r \in S /\ T[r] = WithStatus(res[r], s)
    BY <1>1 DEF SetStatus
  <2>2. res[r] \in Row
    BY <1>1, <2>1, RowOfStatus DEF Transitions, Statuses
  <2>3. T[r].status = s
    BY <2>1, <2>2 DEF WithStatus, Row
  <2> QED BY <1>1, <2>1, <2>3
<1>2. ASSUME TypeOK, [Next]_vars, NEW r \in Res, res'[r] # res[r] PROVE Legal(r)
  <2>1. ASSUME NEW S \in SUBSET Res, NEW s \in Statuses, res' = SetStatus(res, S, s),
               \A q \in S : <<res[q].status, s>> \in Transitions
        PROVE  Legal(r)
    BY <1>1, <1>2, <2>1
  <2>2. ASSUME NEW E \in SUBSET Res, Expire(E) PROVE Legal(r)
    BY <2>1, <2>2 DEF Expire, Dead, Transitions, Statuses
  <2>3. ASSUME NEW k \in Res, NEW a \in Assignments, NEW n \in Parties, NEW d \in Ranges,
               NEW x \in Ttl..(clock + Ttl), NEW E \in SUBSET Res, Book(k, a, n, d, x, E)
        PROVE  Legal(r)
    <3>1. CASE r = k
      BY <2>3, <3>1 DEF Book, SetStatus
    <3>2. CASE r # k
      <4>1. res'[r] = SetStatus(res, E, "expired")[r]
        BY <2>3, <3>2 DEF Book
      <4>2. \A q \in E : <<res[q].status, "expired">> \in Transitions
        BY <2>3 DEF Book, Dead, Transitions
      <4> QED BY <1>1, <1>2, <4>1, <4>2 DEF Statuses
    <3> QED BY <3>1, <3>2
  <2>4. ASSUME NEW k \in Res, Confirm(k) \/ Seat(k) \/ Complete(k) \/ Cancel(k) PROVE Legal(r)
    <3>1. PICK s \in Statuses : res' = SetStatus(res, {k}, s) /\ <<res[k].status, s>> \in Transitions
      BY <2>4 DEF Confirm, Seat, Complete, Cancel, Statuses, LiveStatuses, Transitions
    <3> QED BY <2>1, <3>1
  <2>5. ASSUME NEW C \in SUBSET Res, CancelAll(C) PROVE Legal(r)
    BY <2>1, <2>5 DEF CancelAll, LiveStatuses, Transitions, Statuses
  <2>6. CASE Tick \/ UNCHANGED vars
    BY <1>2, <2>6 DEF Tick, vars
  <2> QED
    BY <1>2, <2>2, <2>3, <2>4, <2>5, <2>6 DEF Next, WriteUnit, WriteCombo, WriteBlackout
<1>3. TypeOK /\ [Next]_vars => [\A r \in Res : res'[r] # res[r] => Legal(r)]_vars
  BY <1>2
<1> QED BY <1>3, BookingType, PTL DEF Spec, LegalSteps

\* A slot that availability offers is one a hold accepts: its units are free, it fits, it is
\* open and within the schedule (packages/core/src/availability.ts).
THEOREM SlotsBookable == Spec => []OffersBookable
<1> DEFINE IInv == TypeOK /\ NoDoubleBooking
<1>1. IInv => OffersBookable
  BY OffersTrue
<1> QED BY <1>1, BookingType, BookingSafe, PTL

\* An answer that does not say `truncated` leaves out no start at which a hold would be
\* accepted with its period's gap (packages/core/src/availability.ts).
THEOREM SlotsComplete == Spec => []OffersComplete
<1> DEFINE IInv == TypeOK /\ NoDoubleBooking
<1>1. IInv => OffersComplete
  BY OffersAll
<1> QED BY <1>1, BookingType, BookingSafe, PTL
=============================================================================
