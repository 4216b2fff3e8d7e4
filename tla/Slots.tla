-------------------------------- MODULE Slots --------------------------------
(***************************************************************************)
(* Availability (packages/core/src/availability.ts and the reads of        *)
(* commands/availability.ts): the slots a venue offers a party, computed   *)
(* from the tables of Booking as one repeatable-read transaction sees them.*)
(* Service periods are given as instants; the database has converted them. *)
(***************************************************************************)
EXTENDS Booking, Sequences, FiniteSetsExt

CONSTANTS
  Periods,      \* service periods [id, from, to, durations, gap]
  SlotStep,     \* slot_minutes
  Window,       \* the starts a request asks for, [from, to)
  Limit,        \* the most slots a request wants
  MaxStarts,    \* availabilityStartsExamined
  Reach         \* twelve hours: the longest gap, and the longest duration

ASSUME SlotsAssumption ==
  /\ SlotStep \in Nat \ {0} /\ Reach \in Nat /\ Limit \in Nat /\ MaxStarts \in Nat
  /\ Window \in [from: Nat, to: Nat]
  /\ IsFiniteSet(Periods)
  /\ \A p \in Periods :
       /\ p.id \in Nat /\ p.from \in Nat /\ p.to \in Nat /\ p.gap \in 0..Reach
       /\ DOMAIN p.durations \subseteq Nat /\ IsFiniteSet(DOMAIN p.durations)
       /\ \A size \in DOMAIN p.durations : p.durations[size] \in 1..Reach

-----------------------------------------------------------------------------
(* The reads. *)

\* The span whose occupancy is read: that of any booking with its gaps.
Span == [from |-> Window.from - Reach, to |-> Window.to + 2 * Reach]

\* Mutant: a hold that is past its expiry still occupies its units.
BusyUnswept(u) ==
  {res[r].during : r \in {q \in Res : Occupies(res[q]) /\ u \in Members(res[q].asg)
                                        /\ Overlaps(res[q].during, Span)}}

\* The active unit rows of u, except those of holds expired by effective status.
Busy(u) ==
  {res[r].during : r \in {q \in Res : Occupies(res[q]) /\ u \in Members(res[q].asg)
                                        /\ Overlaps(res[q].during, Span)
                                        /\ EffectiveStatus(res[q], clock) # "expired"}}

\* The active blackouts over the window and the longest booking that starts in it.
Closures ==
  {BlackoutRange[b] : b \in {c \in Blackouts :
     closed[c] = "active" /\ Overlaps(BlackoutRange[c], [Window EXCEPT !.to = @ + Reach])}}

-----------------------------------------------------------------------------
(* The computation. *)

\* The smallest key at or above the party decides; none when every key is smaller.
Sizes(p, n) == {size \in DOMAIN p.durations : size >= n}
DurationFor(p, n) == p.durations[Min(Sizes(p, n))]

\* The starts of a period, on the grid from its opening, with the booking over by its close.
SlotStarts(p, n) ==
  {t \in p.from..(p.to - DurationFor(p, n)) : (t - p.from) % SlotStep = 0}

Admits(p, n, t) == Sizes(p, n) # {} /\ t \in SlotStarts(p, n)

\* A start belongs to the first period, by opening and then id, that admits it.
Before(p, q) == p.from < q.from \/ (p.from = q.from /\ p.id <= q.id)
PeriodOf(n, t) ==
  CHOOSE p \in Periods : Admits(p, n, t) /\ \A q \in Periods : Admits(q, n, t) => Before(p, q)

\* The starts a request asks for.
Starts(n) ==
  {t \in Window.from..(Window.to - 1) : t >= clock /\ \E p \in Periods : Admits(p, n, t)}

\* Active units, and active combinations of active units, that fit the party.
UsableCombos == {c \in Combos : Usable(c)}
Candidates(n) == {a \in Assignments : Usable(a) /\ Fits(a, n)}

\* The rows of a unit in the order of their starts.
Sorted(rows) ==
  [i \in 1..Cardinality(rows) |->
     CHOOSE d \in rows : Cardinality({e \in rows : e.from <= d.from}) = i]

\* Mutant: the search goes on behind the first row that ends at the start.
FirstAfterOff(rows, from) ==
  LET search[w \in (0..Len(rows)) \X (0..Len(rows))] ==
        LET lo == w[1] hi == w[2] mid == (lo + hi) \div 2 IN
        IF lo >= hi THEN lo
        ELSE IF rows[mid + 1].to <= from + 1 THEN search[<<mid + 1, hi>>] ELSE search[<<lo, mid>>]
  IN search[<<0, Len(rows)>>] + 1

\* Sorted by start, rows of a unit are sorted by end: a binary search for the first
\* that ends after from.
FirstAfter(rows, from) ==
  LET search[w \in (0..Len(rows)) \X (0..Len(rows))] ==
        LET lo == w[1] hi == w[2] mid == (lo + hi) \div 2 IN
        IF lo >= hi THEN lo
        ELSE IF rows[mid + 1].to <= from THEN search[<<mid + 1, hi>>] ELSE search[<<lo, mid>>]
  IN search[<<0, Len(rows)>>] + 1

UnitFree(u, from, to) ==
  LET rows == Sorted(Busy(u)) i == FirstAfter(rows, from)
  IN i > Len(rows) \/ rows[i].from >= to
Free(S, from, to) == \A u \in S : UnitFree(u, from, to)

\* Smallest capacity first, a unit before a combination, for units the fewest
\* free combinations broken; labels and ids settle ties.
Broken(a, from, to) ==
  IF a \in Combos THEN 0
  ELSE Cardinality({c \in UsableCombos : a \in Members(c) /\ Free(Members(c), from, to)})
Key(a, from, to) ==
  <<capacity[a].max, IF a \in Combos THEN 1 ELSE 0, Broken(a, from, to), a>>
Precedes(k, l) ==
  \E i \in 1..4 : k[i] < l[i] /\ \A j \in 1..(i - 1) : k[j] = l[j]
Choose(free, from, to) ==
  CHOOSE a \in free : \A b \in free \ {a} : Precedes(Key(a, from, to), Key(b, from, to))

Booked(n, t) == [from |-> t, to |-> t + DurationFor(PeriodOf(n, t), n)]

\* The booking and the gap of its period on both sides.
Padded(n, t) ==
  LET d == Booked(n, t) gap == PeriodOf(n, t).gap
  IN [from |-> d.from - gap, to |-> d.to + gap]

FreeAt(n, t) ==
  {a \in Candidates(n) : Free(Members(a), Padded(n, t).from, Padded(n, t).to)}

Offered(n, t) == FreeAt(n, t) # {} /\ \A c \in Closures : ~Overlaps(c, Booked(n, t))

\* computeAvailability: the examined starts that can be offered, up to the limit.
FirstOf(k, S) == {t \in S : Cardinality({s \in S : s < t}) < k}
Offers(n) == {t \in FirstOf(MaxStarts, Starts(n)) : Offered(n, t)}
SlotAt(n, t) ==
  LET p == Padded(n, t)
  IN [start |-> t, during |-> Booked(n, t), asg |-> Choose(FreeAt(n, t), p.from, p.to)]
Answer(n) ==
  LET starts == Starts(n) offers == Offers(n) IN
  [slots |-> {SlotAt(n, t) : t \in FirstOf(Limit, offers)},
   truncated |-> Cardinality(starts) > MaxStarts \/ Cardinality(offers) > Limit]

\* checkSchedule, of a hold that enforces it: a venue without periods takes any range.
InSchedule(d) == Periods = {} \/ \E p \in Periods : p.from <= d.from /\ d.to <= p.to

-----------------------------------------------------------------------------
(* Properties. *)

\* What is in the way of a over d, once a hold has expired the dead rows there.
InTheWay(a, d) == {q \in Res : Clashes(res[q], a, d) /\ ~Dead(res[q], clock)}

\* A slot that is offered can be held: in the state the snapshot was taken of, a
\* hold of the slot's assignment for the party passes every check of Booking, and
\* that of the schedule, which looks at whole bookings instead of starts.
OffersBookable ==
  \A n \in Parties : \A s \in Answer(n).slots :
    /\ Bookable([status |-> "held", asg |-> s.asg, party |-> n, during |-> s.during, expires |-> 0])
    /\ InTheWay(s.asg, s.during) = {} /\ InSchedule(s.during)

\* An answer that does not say `truncated` names every start a party can be held
\* at: on the grid of a period, not yet passed, with an assignment that is free for
\* the booking and its period's gap.
OffersComplete ==
  \A n \in Parties :
    LET answer == Answer(n) IN
    ~answer.truncated =>
      \A t \in Starts(n) \ {s.start : s \in answer.slots}, a \in Assignments :
        ~ /\ Bookable([status |-> "held", asg |-> a, party |-> n, during |-> Booked(n, t),
                        expires |-> 0])
          /\ LET d == Booked(n, t) gap == PeriodOf(n, t).gap
             IN InTheWay(a, [from |-> d.from - gap, to |-> d.to + gap]) = {}
=============================================================================
