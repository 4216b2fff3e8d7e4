----------------------------- MODULE LoadProofs -----------------------------
(***************************************************************************)
(* Proofs about Load and the Api it runs against, for any requests, keys,  *)
(* plans, deadlines and operators: RevokedRefused, AnsweredAtExit and      *)
(* RecordsTrue.  The invariant says of each request what its place implies *)
(* (Good), and of each planned hold which outcome its request, its key and *)
(* its record may show together (HoldInv).                                 *)
(***************************************************************************)
EXTENDS Load, TLAPS, FiniteSetTheorems, SequenceTheorems

HoldArrivals == {a \in Arrivals : Plan[a].hold}
Ended == {"exit0", "exit1", "crashed"}
Places == {"none", "sent", "lookup", "scope", "command", "done", "lost"}

\* The calls a request may carry.
CallOk(r, c) ==
  /\ c.route \in DOMAIN Capability
  /\ c.route = "revokeKey" => c.target \in Keys
  /\ IF r \in HoldArrivals THEN c.route = "hold" /\ c.id = r
     ELSE c.route = "hold" => c.id \notin HoldArrivals

\* A hold that may still be booked.
Open(q) == q.pc \in {"sent", "lookup", "scope", "command"} \/ q.orphan

\* The invariant of request r, with record q, at stage st, when the revocations tl have
\* been answered, the keys are ks and the outcomes are sd.
Shape(q) ==
  /\ DOMAIN q = {"pc", "call", "answer", "client", "late", "orphan"}
  /\ q.pc \in Places /\ q.client \in {"none", "waiting", "gone"}
  /\ q.late \in BOOLEAN /\ q.orphan \in BOOLEAN
CallInv(r, q) ==
  /\ q.pc # "none" \/ q.orphan => CallOk(r, q.call)
  /\ q.orphan => q.pc \in {"none", "done", "lost"}
LateInv(q, tl) ==
  q.late => /\ q.call.key \in tl
            /\ q.pc \in {"sent", "lookup", "done", "lost"} /\ ~q.orphan
            /\ q.answer \in {None, "unauthorized"} \cup Failures
RevokeInv(q, ks) ==
  q.pc = "done" /\ q.answer = "ok" /\ q.call.route = "revokeKey" => ks[q.call.target] = "revoked"
StageInv(q, st) ==
  /\ q.pc = "lost" => st \in Ended
  /\ q.client = "waiting" => /\ st = "closing" => q.pc \notin {"lookup", "scope", "command", "done"}
                             /\ st \in {"exit0", "exit1"} => q.pc # "lost"
OutcomeInv(r, q, sd) ==
  r \in HoldArrivals =>
    /\ Open(q) => sd[r] = "none"
    /\ q.pc = "done" /\ q.answer = "ok" => sd[r] = "granted"
    /\ q.pc = "done" /\ q.answer = "hold_conflict" => sd[r] = "refused"
    /\ q.pc = "done" => q.answer # "shed"
Good(r, q, st, tl, ks, sd) ==
  /\ Shape(q) /\ CallInv(r, q) /\ LateInv(q, tl) /\ RevokeInv(q, ks) /\ StageInv(q, st)
  /\ OutcomeInv(r, q, sd)

Tables ==
  /\ DOMAIN req = Requests /\ DOMAIN keys = Keys /\ DOMAIN res = Res /\ DOMAIN stored = Res
  /\ DOMAIN started = Arrivals /\ DOMAIN rec = Arrivals
  /\ planned \subseteq Arrivals /\ clock \in Nat
Told == told \subseteq Keys /\ \A k \in told : keys[k] = "revoked"
Row(x) == x = NoRow \/ (DOMAIN x = {"status", "venue", "token"} /\ x.status \in Statuses)
Rows == \A i \in Res : Row(res[i])
RequestsGood == \A r \in Requests : Good(r, req[r], stage, told, keys, stored)

\* A planned hold: booked just when its outcome says so; its record says no more than
\* its outcome; what was never fired, or was shed, is nowhere.
HoldInv(a) ==
  /\ (stored[a] = "granted") = ~Absent(a)
  /\ ~Fired(a) => req[a] = NoRequest /\ stored[a] = "none" /\ rec[a] = NoRecord
  /\ DOMAIN rec[a] = {"code", "done", "stored"}
  /\ rec[a].code = "ok" \/ rec[a].stored = "granted" => stored[a] = "granted"
  /\ rec[a].code = "hold_conflict" \/ rec[a].stored = "refused" => stored[a] = "refused"
  /\ rec[a].code = "shed" => stored[a] = "none" /\ ~Open(req[a]) /\ rec[a].done = Never
  /\ rec[a].code \notin {"none", "shed"} => rec[a].done \in Nat

\* A server that does not listen yet, or closes its pool, has no connection that could
\* carry a request.
IdleInv == idle \in Nat /\ (stage \in {"starting", "closing"} \cup Ended => idle = 0)

ApiInv == Told /\ Rows /\ RequestsGood
LoadInv == Tables /\ ApiInv /\ \A a \in HoldArrivals : HoldInv(a)

-----------------------------------------------------------------------------
(* A request's record. *)

\* A settled request promises no more than it did.
LEMMA SettledGood ==
  ASSUME NEW r, NEW q, NEW st, NEW tl, NEW ks, NEW sd, Good(r, q, st, tl, ks, sd)
  PROVE  Good(r, Settled(q), st, tl, ks, sd) /\ (Open(Settled(q)) <=> Open(q))
<1>1. CASE Settled(q) = q
  BY <1>1
<1>2. CASE Settled(q) # q /\ q.orphan
  <2>1. Settled(q) = [NoRequest EXCEPT !.call = q.call, !.late = q.late, !.orphan = TRUE]
    BY <1>2 DEF Settled
  <2>2. /\ Settled(q) = [pc |-> "none", call |-> q.call, answer |-> None, client |-> "none",
                         late |-> q.late, orphan |-> TRUE]
        /\ ~q.late
    BY <1>2, <2>1 DEF NoRequest, Good, LateInv
  <2> QED
    BY <1>2, <2>2 DEF Good, Shape, CallInv, LateInv, RevokeInv, StageInv, OutcomeInv, Open, Places
<1>3. CASE Settled(q) # q /\ ~q.orphan
  <2>1. Settled(q) = NoRequest /\ q.pc \in {"none", "done", "lost"}
    BY <1>3 DEF Settled
  <2> QED
    BY <1>3, <2>1
    DEF NoRequest, Good, Shape, CallInv, LateInv, RevokeInv, StageInv, OutcomeInv, Open, Places
<1> QED BY <1>1, <1>2, <1>3

\* Answering a request: what has to hold of the answer.
Done(q, x, o) == [q EXCEPT !.pc = "done", !.answer = x, !.orphan = o]

LEMMA AnsweredGood ==
  ASSUME NEW r, NEW q, NEW st, NEW tl, NEW ks, NEW sd, NEW x, NEW o \in BOOLEAN,
         Shape(q), CallOk(r, q.call), st # "closing" \/ q.client # "waiting",
         q.late => q.call.key \in tl /\ x \in {"unauthorized"} \cup Failures /\ o = FALSE,
         x = "ok" /\ q.call.route = "revokeKey" => ks[q.call.target] = "revoked",
         r \in HoldArrivals => /\ o = TRUE => sd[r] = "none"
                               /\ x = "ok" => sd[r] = "granted"
                               /\ x = "hold_conflict" => sd[r] = "refused"
                               /\ x # "shed"
  PROVE  /\ Good(r, Settled(Done(q, x, o)), st, tl, ks, sd)
         /\ Open(Settled(Done(q, x, o))) <=> o = TRUE
<1> DEFINE d == Done(q, x, o)
<1>1. /\ DOMAIN d = DOMAIN q /\ d.pc = "done" /\ d.answer = x /\ d.orphan = o
      /\ d.call = q.call /\ d.late = q.late /\ d.client = q.client
  BY DEF Shape, Done
<1> HIDE DEF d
<1>2. Good(r, d, st, tl, ks, sd) /\ (Open(d) <=> o = TRUE)
  BY <1>1 DEF Good, Shape, CallInv, LateInv, RevokeInv, StageInv, OutcomeInv, Open, Places
<1>3. Good(r, Settled(d), st, tl, ks, sd) /\ (Open(Settled(d)) <=> o = TRUE)
  BY <1>2, SettledGood
<1> QED BY <1>3 DEF d

\* What other requests do keeps a request's promises.
LEMMA GoodKeeps ==
  ASSUME NEW r, NEW q, NEW st, NEW tl, NEW ks, NEW sd, NEW tl2, NEW ks2, NEW sd2,
         Good(r, q, st, tl, ks, sd), tl \subseteq tl2,
         \A k \in Keys : ks[k] = "revoked" => ks2[k] = "revoked",
         r \in HoldArrivals => sd2[r] = sd[r]
  PROVE  Good(r, q, st, tl2, ks2, sd2)
BY DEF Good, LateInv, RevokeInv, OutcomeInv, CallInv, CallOk

-----------------------------------------------------------------------------
(* Commands. *)

\* A change of status leaves a row a row, and makes none.
LEMMA MoveRows ==
  ASSUME Tables, Rows, NEW j, NEW s \in Statuses, NEW x, Move(j, s, x), NEW i \in Res
  PROVE  Row(res'[i]) /\ DOMAIN res' = Res /\ Absent(i)' = Absent(i)
<1>1. CASE res' = res
  BY <1>1 DEF Tables, Rows, Absent
<1>2. CASE /\ res' = [res EXCEPT ![j].status = s, ![j].token = 0] /\ i = j
           /\ <<res[j].status, s>> \in Transitions
  <2>1. res[i] # NoRow
    BY <1>2 DEF NoRow, Transitions
  <2>2. DOMAIN res[i] = {"status", "venue", "token"}
    BY <2>1 DEF Rows, Row
  <2>3. DOMAIN res'[i] = DOMAIN res[i] /\ res'[i].status = s
    BY <1>2, <2>2 DEF Tables
  <2>4. res'[i] # NoRow
    BY <2>3 DEF NoRow, Statuses
  <2> QED BY <1>2, <2>1, <2>2, <2>3, <2>4 DEF Row, Absent, Tables
<1>3. CASE res' = [res EXCEPT ![j].status = s, ![j].token = 0] /\ i # j
  BY <1>3 DEF Tables, Rows, Absent
<1> QED BY <1>1, <1>2, <1>3 DEF Move

\* A new token leaves a row a row.
LEMMA MintRows ==
  ASSUME Tables, Rows, NEW c, NEW x, Mint(c, x), NEW i \in Res
  PROVE  Row(res'[i]) /\ DOMAIN res' = Res /\ Absent(i)' = Absent(i)
<1>1. CASE res' = res
  BY <1>1 DEF Tables, Rows, Absent
<1>2. CASE res' = [res EXCEPT ![c.id].token = @ + 1] /\ i = c.id /\ res[c.id].status = "held"
  <2>1. res[i] # NoRow
    BY <1>2 DEF NoRow
  <2>2. DOMAIN res[i] = {"status", "venue", "token"}
    BY <2>1 DEF Rows, Row
  <2>3. DOMAIN res'[i] = DOMAIN res[i] /\ res'[i].status = "held"
    BY <1>2, <2>2 DEF Tables
  <2>4. res'[i] # NoRow
    BY <2>3 DEF NoRow
  <2> QED BY <1>2, <2>1, <2>2, <2>3, <2>4 DEF Row, Absent, Tables, Statuses
<1>3. CASE res' = [res EXCEPT ![c.id].token = @ + 1] /\ i # c.id
  BY <1>3 DEF Tables, Rows, Absent
<1> QED BY <1>1, <1>2, <1>3 DEF Mint

\* A write of the configuration cancels reservations, and makes none.
LEMMA StrandsRows ==
  ASSUME Tables, Rows, NEW c, NEW x, NEW code, Strands(c, x, code), NEW i \in Res
  PROVE  Row(res'[i]) /\ DOMAIN res' = Res /\ Absent(i)' = Absent(i) /\ UNCHANGED <<keys, stored>>
<1>1. UNCHANGED <<keys, stored>>
  BY DEF Strands, Keep
<1>2. CASE res' = res
  BY <1>1, <1>2 DEF Tables, Rows, Absent
<1>3. ASSUME NEW S \in SUBSET {j \in Res : res[j].status \in LiveStatuses /\ res[j].venue = c.venue},
             res' = [j \in Res |-> IF j \in S
                                   THEN [res[j] EXCEPT !.status = "cancelled", !.token = 0] ELSE res[j]]
      PROVE  Row(res'[i]) /\ DOMAIN res' = Res /\ Absent(i)' = Absent(i)
  <2>1. CASE i \notin S
    BY <1>3, <2>1 DEF Rows, Absent
  <2>2. CASE i \in S
    <3>1. res[i] # NoRow
      BY <2>2 DEF NoRow, LiveStatuses
    <3>2. DOMAIN res[i] = {"status", "venue", "token"}
      BY <3>1 DEF Rows, Row
    <3>3. DOMAIN res'[i] = DOMAIN res[i] /\ res'[i].status = "cancelled"
      BY <1>3, <2>2, <3>2
    <3>4. res'[i] # NoRow
      BY <3>3 DEF NoRow
    <3> QED BY <1>3, <3>1, <3>2, <3>3, <3>4 DEF Row, Absent, Statuses
  <2> QED BY <2>1, <2>2
<1> QED BY <1>1, <1>2, <1>3 DEF Strands

\* The administrators' writes strand reservations, or are refused.
LEMMA ConfiguresRows ==
  ASSUME Tables, Rows, NEW c, NEW x, NEW i \in Res,
         UpdateUnit(c, x) \/ UpdateCombo(c, x) \/ CreateBlackout(c, x) \/ UpdateBlackout(c, x)
  PROVE  Row(res'[i]) /\ DOMAIN res' = Res /\ Absent(i)' = Absent(i) /\ UNCHANGED <<keys, stored>>
<1>1. CASE UNCHANGED database
  BY <1>1 DEF Tables, Rows, Absent, database
<1>2. CASE \E code : Strands(c, x, code)
  BY <1>2, StrandsRows
<1> QED BY <1>1, <1>2 DEF UpdateUnit, UpdateCombo, CreateBlackout, UpdateBlackout, Rejects

\* The commands that are not holds book nothing and touch no outcome.
LEMMA OtherRows ==
  ASSUME Tables, Rows, NEW c, NEW x, Command(c, x), c.route \in DOMAIN Capability, c.route # "hold",
         NEW i \in Res
  PROVE  Row(res'[i]) /\ DOMAIN res' = Res /\ Absent(i)' = Absent(i) /\ UNCHANGED stored
<1>1. CASE UNCHANGED <<res, stored>>
  BY <1>1 DEF Tables, Rows, Absent
<1>2. CASE \E s \in Statuses : Move(c.id, s, x) /\ UNCHANGED stored
  BY <1>2, MoveRows
<1>3. CASE Mint(c, x)
  BY <1>3, MintRows DEF Mint, Keep
<1>4. \/ Cancel(c, x) \/ Seat(c, x) \/ Complete(c, x) \/ Confirm(c, x) \/ Mint(c, x)
      \/ CreateVenueKey(c, x) \/ RevokeVenueKey(c, x) \/ ListHolds(c, x) \/ Availability(c, x)
      \/ Read(c, x) \/ ListKeys(c, x) \/ ListRows(c, x) \/ WriteRow(c, x)
      \/ UpdateUnit(c, x) \/ UpdateCombo(c, x) \/ CreateBlackout(c, x) \/ UpdateBlackout(c, x)
  BY DEF Command, Capability
<1>5. CASE Cancel(c, x) \/ Seat(c, x) \/ Complete(c, x) \/ Confirm(c, x)
  BY <1>1, <1>2, <1>5 DEF Cancel, Seat, Complete, Confirm, Keep, Statuses
<1>6. CASE CreateVenueKey(c, x) \/ RevokeVenueKey(c, x) \/ ListHolds(c, x) \/ Availability(c, x)
           \/ Read(c, x) \/ ListKeys(c, x) \/ ListRows(c, x) \/ WriteRow(c, x)
  BY <1>1, <1>6 DEF CreateVenueKey, RevokeVenueKey, ListHolds, Availability, Read, ListKeys,
                    ListRows, WriteRow, database
<1>7. CASE UpdateUnit(c, x) \/ UpdateCombo(c, x) \/ CreateBlackout(c, x) \/ UpdateBlackout(c, x)
  BY <1>7, ConfiguresRows
<1> QED BY <1>3, <1>4, <1>5, <1>6, <1>7

\* A hold books its own reservation, or stores a refusal, or does nothing.
LEMMA HoldRows ==
  ASSUME Tables, Rows, NEW c, NEW x, Hold(c, x), NEW i \in Res
  PROVE  /\ Row(res'[i]) /\ DOMAIN res' = Res /\ DOMAIN stored' = Res
         /\ i # c.id => stored'[i] = stored[i] /\ Absent(i)' = Absent(i)
         /\ i = c.id => /\ x = "ok" => stored'[i] = "granted" /\ ~Absent(i)'
                        /\ x = "hold_conflict" => stored'[i] = "refused" /\ Absent(i)' = Absent(i)
                        /\ x \notin {"ok", "hold_conflict"} =>
                             stored'[i] = stored[i] /\ Absent(i)' = Absent(i)
<1> DEFINE row == [status |-> "held", venue |-> c.venue, token |-> 0]
<1>1. Row(row) /\ row # NoRow
  BY DEF Row, Statuses, NoRow
<1> HIDE DEF row
<1>2. CASE /\ x = "ok" /\ stored' = [stored EXCEPT ![c.id] = "granted"]
           /\ res' = [res EXCEPT ![c.id] = row]
  BY <1>1, <1>2 DEF Tables, Rows, Absent
<1>3. CASE x = "hold_conflict" /\ stored' = [stored EXCEPT ![c.id] = "refused"] /\ res' = res
  BY <1>3 DEF Tables, Rows, Absent
<1>4. CASE x = "too_many_live_holds" /\ UNCHANGED <<res, stored>>
  BY <1>4 DEF Tables, Rows, Absent
<1> QED BY <1>2, <1>3, <1>4 DEF Hold, row

\* No command gives a revoked key back, and a revocation that is answered has happened.
LEMMA CommandKeys ==
  ASSUME Tables, NEW c, NEW x, Command(c, x), c.route \in DOMAIN Capability,
         c.route = "revokeKey" => c.target \in Keys
  PROVE  /\ DOMAIN keys' = Keys
         /\ \A k \in Keys : keys[k] = "revoked" => keys'[k] = "revoked"
         /\ c.route = "revokeKey" /\ x = "ok" => keys'[c.target] = "revoked"
<1>1. CASE c.route = "createKey"
  <2>1. CreateVenueKey(c, x)
    BY <1>1 DEF Command
  <2> QED BY <1>1, <2>1 DEF CreateVenueKey, Tables
<1>2. CASE c.route = "revokeKey"
  <2>1. RevokeVenueKey(c, x)
    BY <1>2 DEF Command
  <2> QED BY <1>2, <2>1 DEF RevokeVenueKey, Tables
<1>3. CASE c.route \notin {"createKey", "revokeKey"}
  <2>1. \/ Hold(c, x) \/ Cancel(c, x) \/ Seat(c, x) \/ Complete(c, x) \/ Confirm(c, x) \/ Mint(c, x)
        \/ ListHolds(c, x) \/ Availability(c, x)
        \/ Read(c, x) \/ ListKeys(c, x) \/ ListRows(c, x) \/ WriteRow(c, x)
        \/ UpdateUnit(c, x) \/ UpdateCombo(c, x) \/ CreateBlackout(c, x) \/ UpdateBlackout(c, x)
    BY <1>3 DEF Command, Capability
  <2>2. keys' = keys
    BY <2>1 DEF Hold, Cancel, Seat, Complete, Confirm, Mint, Keep, ListHolds, Availability, Read,
                ListKeys, ListRows, WriteRow, UpdateUnit, UpdateCombo, CreateBlackout,
                UpdateBlackout, Strands, Rejects, database
  <2> QED BY <1>3, <2>2 DEF Tables
<1> QED BY <1>1, <1>2, <1>3

-----------------------------------------------------------------------------
(* What keeps the invariant. *)

LEMMA HoldKeeps ==
  ASSUME NEW a \in HoldArrivals, HoldInv(a), stored'[a] = stored[a], Absent(a)' = Absent(a),
         started'[a] = started[a], rec'[a] = rec[a],
         Open(req'[a]) => Open(req[a]), req[a] = NoRequest => req'[a] = NoRequest
  PROVE  HoldInv(a)'
<1>1. Fired(a)' = Fired(a) /\ Open(req[a])' = Open(req'[a])
  BY DEF Fired, Open
<1> QED BY <1>1 DEF HoldInv

LEMMA HoldArrivalsIn ==
  /\ HoldArrivals \subseteq Arrivals /\ HoldArrivals \subseteq Requests
  /\ HoldArrivals \subseteq Res
BY LoadAssumption DEF HoldArrivals

\* The tables stay as they are: each request keeps its promises at the new stage, opens
\* nothing, and is not sent.
LEMMA QuietKeeps ==
  ASSUME LoadInv, UNCHANGED <<keys, told, res, stored, loadVars>>, DOMAIN req' = Requests,
         \A r \in Requests : /\ Good(r, req'[r], stage', told, keys, stored)
                             /\ Open(req'[r]) => Open(req[r])
                             /\ req[r] = NoRequest => req'[r] = NoRequest
  PROVE  LoadInv'
<1>1. Tables'
  BY DEF LoadInv, Tables, loadVars
<1>2. Told' /\ Rows'
  BY DEF LoadInv, ApiInv, Told, Rows
<1>3. RequestsGood'
  BY DEF RequestsGood, Good, Shape, CallInv, LateInv, RevokeInv, StageInv, OutcomeInv, Open
<1>4. ASSUME NEW a \in HoldArrivals PROVE HoldInv(a)'
  <2>1. /\ HoldInv(a) /\ stored'[a] = stored[a] /\ Absent(a)' = Absent(a)
        /\ started'[a] = started[a] /\ rec'[a] = rec[a] /\ a \in Requests
    BY HoldArrivalsIn DEF LoadInv, Absent, loadVars
  <2> QED BY <2>1, HoldKeeps
<1> QED BY <1>1, <1>2, <1>3, <1>4 DEF LoadInv, ApiInv

\* One request takes another step, and that is all.
LEMMA RequestKeeps ==
  ASSUME LoadInv, NEW r \in Requests, NEW q, req' = [req EXCEPT ![r] = q],
         UNCHANGED <<stage, keys, told, res, stored, loadVars>>,
         Good(r, q, stage, told, keys, stored), Open(q) => Open(req[r]), req[r] # NoRequest
  PROVE  LoadInv'
<1>1. DOMAIN req' = Requests /\ req'[r] = q /\ \A s \in Requests \ {r} : req'[s] = req[s]
  BY DEF LoadInv, Tables
<1>2. \A s \in Requests : Good(s, req[s], stage, told, keys, stored)
  BY DEF LoadInv, ApiInv, RequestsGood
<1>3. \A s \in Requests : /\ Good(s, req'[s], stage', told, keys, stored)
                          /\ Open(req'[s]) => Open(req[s])
                          /\ req[s] = NoRequest => req'[s] = NoRequest
  BY <1>1, <1>2
<1> QED BY <1>1, <1>3, QuietKeeps

\* A request whose command was open runs it, and is open no more.
LEMMA CommandKeeps ==
  ASSUME LoadInv, NEW r \in Requests, NEW q, req' = [req EXCEPT ![r] = q],
         UNCHANGED <<stage, told, loadVars>>,
         NEW x, Command(req[r].call, x), Open(req[r]), CallOk(r, req[r].call),
         Good(r, q, stage, told, keys', stored'), ~Open(q)
  PROVE  LoadInv'
<1> DEFINE c == req[r].call
<1>1. DOMAIN req' = Requests /\ req'[r] = q /\ \A s \in Requests \ {r} : req'[s] = req[s]
  BY DEF LoadInv, Tables
<1>2. /\ DOMAIN keys' = Keys /\ \A k \in Keys : keys[k] = "revoked" => keys'[k] = "revoked"
  BY CommandKeys DEF LoadInv, CallOk
<1>3. \A i \in Res : Row(res'[i])
  BY OtherRows, HoldRows DEF LoadInv, ApiInv, CallOk, Command
<1>4. DOMAIN res' = Res /\ DOMAIN stored' = Res
  BY DEF LoadInv, Tables, CallOk, Capability, Command, Hold, Cancel, Seat, Complete, Confirm, Mint,
         CreateVenueKey, RevokeVenueKey, ListHolds, Availability, Read, ListKeys, ListRows, WriteRow,
         UpdateUnit, UpdateCombo, CreateBlackout, UpdateBlackout, Strands, Rejects, Move, Keep, database
<1>5. ASSUME NEW a \in HoldArrivals \ {r} PROVE stored'[a] = stored[a] /\ Absent(a)' = Absent(a)
  <2>1. a \in Res /\ (c.route = "hold" => a # c.id)
    BY HoldArrivalsIn DEF CallOk
  <2>2. CASE c.route = "hold"
    <3>1. Hold(c, x)
      BY <2>2 DEF Command
    <3> QED BY <2>1, <2>2, <3>1, HoldRows DEF LoadInv, ApiInv
  <2>3. CASE c.route # "hold"
    BY <2>1, <2>3, OtherRows DEF LoadInv, ApiInv, CallOk
  <2> QED BY <2>2, <2>3
<1>6. Tables'
  BY <1>1, <1>2, <1>4 DEF LoadInv, Tables, loadVars
<1>7. Told' /\ Rows'
  BY <1>2, <1>3 DEF LoadInv, ApiInv, Told, Rows
<1>8. ASSUME NEW s \in Requests PROVE Good(s, req'[s], stage', told', keys', stored')
  <2>1. CASE s = r
    BY <1>1, <2>1
  <2>2. CASE s # r
    <3>1. Good(s, req[s], stage, told, keys, stored)
      BY DEF LoadInv, ApiInv, RequestsGood
    <3> QED BY <1>1, <1>2, <1>5, <2>2, <3>1, GoodKeeps
  <2> QED BY <2>1, <2>2
<1>9. RequestsGood'
  BY <1>8 DEF RequestsGood, Good, Shape, CallInv, LateInv, RevokeInv, StageInv, OutcomeInv, Open
<1>10. ASSUME NEW a \in HoldArrivals PROVE HoldInv(a)'
  <2>1. HoldInv(a) /\ started'[a] = started[a] /\ rec'[a] = rec[a] /\ a \in Requests /\ a \in Res
    BY HoldArrivalsIn DEF LoadInv, loadVars
  <2>2. CASE a # r
    BY <1>1, <1>5, <2>1, <2>2, HoldKeeps
  <2>3. CASE a = r
    <3>1. c.route = "hold" /\ c.id = a /\ Hold(c, x)
      BY <2>3 DEF CallOk, Command
    <3>2. stored[a] = "none"
      BY <2>3 DEF LoadInv, ApiInv, RequestsGood, Good, OutcomeInv
    <3>3. Absent(a) /\ Fired(a)
      BY <2>1, <2>3, <3>2 DEF HoldInv, Open, NoRequest
    <3>4. /\ x = "ok" => stored'[a] = "granted" /\ ~Absent(a)'
          /\ x # "ok" => stored'[a] # "granted" /\ Absent(a)'
      BY <2>1, <3>1, <3>2, <3>3, HoldRows DEF LoadInv, ApiInv
    <3>5. /\ (stored'[a] = "granted") = ~Absent(a)'
          /\ Fired(a)' /\ rec[a].code \notin {"ok", "hold_conflict", "shed"}
          /\ rec[a].stored \notin {"granted", "refused"} /\ DOMAIN rec[a] = {"code", "done", "stored"}
      BY <2>1, <2>3, <3>2, <3>3, <3>4 DEF HoldInv, Fired
    <3> QED BY <2>1, <3>5 DEF HoldInv
  <2> QED BY <2>2, <2>3
<1> QED BY <1>6, <1>7, <1>9, <1>10 DEF LoadInv, ApiInv

\* A client's step: one request and its record change.
LEMMA ClientKeeps ==
  ASSUME LoadInv, NEW r \in Requests, NEW q,
         DOMAIN req' = Requests, req'[r] = q, \A s \in Requests \ {r} : req'[s] = req[s],
         UNCHANGED <<stage, keys, res, stored, clock, planned>>,
         told \subseteq told', Told', Good(r, q, stage, told', keys, stored),
         DOMAIN started' = Arrivals, DOMAIN rec' = Arrivals,
         \A a \in Arrivals \ {r} : started'[a] = started[a] /\ rec'[a] = rec[a],
         r \in HoldArrivals => HoldInv(r)'
  PROVE  LoadInv'
<1>1. DOMAIN req' = Requests /\ req'[r] = q /\ \A s \in Requests \ {r} : req'[s] = req[s]
  OBVIOUS
<1>2. Tables' /\ Rows'
  BY <1>1 DEF LoadInv, ApiInv, Tables, Rows
<1>3. ASSUME NEW s \in Requests PROVE Good(s, req'[s], stage', told', keys', stored')
  <2>1. CASE s = r
    BY <1>1, <2>1
  <2>2. CASE s # r
    <3>1. Good(s, req[s], stage, told, keys, stored)
      BY DEF LoadInv, ApiInv, RequestsGood
    <3> QED BY <1>1, <2>2, <3>1, GoodKeeps
  <2> QED BY <2>1, <2>2
<1>4. RequestsGood'
  BY <1>3 DEF RequestsGood, Good, Shape, CallInv, LateInv, RevokeInv, StageInv, OutcomeInv, Open
<1>5. ASSUME NEW a \in HoldArrivals PROVE HoldInv(a)'
  <2>1. CASE a # r
    <3>1. /\ HoldInv(a) /\ stored'[a] = stored[a] /\ Absent(a)' = Absent(a)
          /\ started'[a] = started[a] /\ rec'[a] = rec[a] /\ req'[a] = req[a]
      BY <1>1, <2>1, HoldArrivalsIn DEF LoadInv, Absent
    <3> QED BY <3>1, HoldKeeps
  <2> QED BY <2>1
<1> QED BY <1>2, <1>4, <1>5 DEF LoadInv, ApiInv

-----------------------------------------------------------------------------
(* The API's steps. *)

\* A request that the server works on, or is about to.
Working(r) ==
  /\ req[r].pc \in {"sent", "lookup", "scope", "command"}
  /\ stage # "closing" \/ req[r].client # "waiting"
  /\ ~req[r].orphan /\ req[r] # NoRequest
  /\ CallOk(r, req[r].call) /\ Good(r, req[r], stage, told, keys, stored)

LEMMA WorkingHolds ==
  ASSUME LoadInv, NEW r \in Requests,
         \/ stage # "closing" /\ req[r].pc = "sent"
         \/ req[r].pc \in {"lookup", "scope", "command"}
  PROVE  Working(r)
<1>1. Good(r, req[r], stage, told, keys, stored)
  BY DEF LoadInv, ApiInv, RequestsGood
<1> QED BY <1>1 DEF Working, Good, CallInv, StageInv, NoRequest

LEMMA GotoKeeps ==
  ASSUME LoadInv, NEW r \in Requests, Working(r), NEW l \in {"lookup", "scope", "command"}, Goto(r, l),
         req[r].late => l = "lookup",
         UNCHANGED <<stage, keys, told, res, stored, loadVars>>
  PROVE  LoadInv'
<1> DEFINE q == [req[r] EXCEPT !.pc = l]
<1>1. req' = [req EXCEPT ![r] = q]
  BY DEF Goto
<1>2. /\ DOMAIN q = DOMAIN req[r] /\ q.pc = l /\ q.call = req[r].call /\ q.answer = req[r].answer
      /\ q.client = req[r].client /\ q.late = req[r].late /\ q.orphan = req[r].orphan
  BY DEF Working, Good, Shape
<1> HIDE DEF q
<1>3. Good(r, q, stage, told, keys, stored) /\ (Open(q) => Open(req[r])) /\ req[r] # NoRequest
  BY <1>2 DEF Working, Good, Shape, CallInv, LateInv, RevokeInv, StageInv, OutcomeInv, Open, Places
<1> QED BY <1>1, <1>3, RequestKeeps

\* An answer that is neither success nor a stored refusal; o when the statement goes on.
LEMMA AnswerKeeps ==
  ASSUME LoadInv, NEW r \in Requests, Working(r), NEW x, x \notin {"ok", "hold_conflict", "shed"},
         NEW o \in BOOLEAN, req' = [req EXCEPT ![r] = Settled(Done(req[r], x, o))],
         req[r].late => x \in {"unauthorized"} \cup Failures /\ o = FALSE,
         UNCHANGED <<stage, keys, told, res, stored, loadVars>>
  PROVE  LoadInv'
<1>1. /\ Shape(req[r]) /\ CallOk(r, req[r].call)
      /\ stage # "closing" \/ req[r].client # "waiting"
      /\ req[r].late => req[r].call.key \in told /\ x \in {"unauthorized"} \cup Failures /\ o = FALSE
      /\ r \in HoldArrivals => stored[r] = "none"
  BY DEF Working, Good, LateInv, OutcomeInv, Open
<1>2. /\ Good(r, Settled(Done(req[r], x, o)), stage, told, keys, stored)
      /\ Open(Settled(Done(req[r], x, o))) <=> o = TRUE
  BY <1>1, AnsweredGood
<1>3. Open(req[r]) /\ req[r] # NoRequest
  BY DEF Working, Open
<1> QED BY <1>2, <1>3, RequestKeeps

LEMMA AnswerIs ==
  ASSUME LoadInv, NEW r \in Requests, Working(r), NEW x, Answer(r, x)
  PROVE  req' = [req EXCEPT ![r] = Settled(Done(req[r], x, FALSE))]
<1>1. [req[r] EXCEPT !.pc = "done", !.answer = x] = Done(req[r], x, FALSE)
  BY DEF Working, Good, Shape, Done
<1> QED BY <1>1 DEF Answer

LEMMA RefuseKeeps ==
  ASSUME LoadInv, NEW r \in Requests, Working(r), NEW x \in {"unauthorized", "forbidden", "not_found"},
         Answer(r, x), req[r].late => x = "unauthorized",
         UNCHANGED <<stage, keys, told, res, stored, loadVars>>
  PROVE  LoadInv'
BY AnswerIs, AnswerKeeps

LEMMA HandlerKeeps ==
  ASSUME LoadInv, IdleInv, NEW r \in Requests, UNCHANGED loadVars,
         Accept(r) \/ Lookup(r) \/ Scope(r) \/ CheckToken(r) \/ Run(r) \/ Fail(r) \/ Orphan(r)
  PROVE  LoadInv'
<1> DEFINE c == req[r].call
<1>1. Good(r, req[r], stage, told, keys, stored)
  BY DEF LoadInv, ApiInv, RequestsGood
<1>2. req[r].late => c.key \in told /\ c.key # None /\ keys[c.key] = "revoked"
  BY <1>1, ApiAssumption DEF Good, LateInv, LoadInv, ApiInv, Told
<1>3. req[r].late => req[r].pc \notin {"scope", "command"} /\ ~req[r].orphan
  BY <1>1 DEF Good, LateInv
<1>4. CASE Accept(r)
  <2>1. Working(r) /\ UNCHANGED <<stage, keys, told, res, stored, loadVars>>
    BY <1>4, WorkingHolds DEF Accept, IdleInv, process, database
  <2>2. \/ c.key # None /\ Goto(r, "lookup")
        \/ c.key = None /\ Goto(r, "scope")
        \/ c.key = None /\ Answer(r, "unauthorized")
    BY <1>4 DEF Accept
  <2> QED BY <1>2, <2>1, <2>2, GotoKeeps, RefuseKeeps
<1>5. CASE Lookup(r)
  <2>1. Working(r) /\ UNCHANGED <<stage, keys, told, res, stored, loadVars>>
    BY <1>5, WorkingHolds DEF Lookup, At, server, process, database
  <2>2. \/ Answer(r, "unauthorized")
        \/ keys[c.key] = "live" /\ (\/ Answer(r, "forbidden") \/ Answer(r, "not_found")
                                    \/ Goto(r, "scope") \/ Goto(r, "command"))
    BY <1>5 DEF Lookup
  <2> QED BY <1>2, <2>1, <2>2, GotoKeeps, RefuseKeeps
<1>6. CASE Scope(r)
  <2>1. Working(r) /\ UNCHANGED <<stage, keys, told, res, stored, loadVars>> /\ ~req[r].late
    BY <1>3, <1>6, WorkingHolds DEF Scope, At, server, process, database
  <2>2. Answer(r, "not_found") \/ Goto(r, "command")
    BY <1>6 DEF Scope
  <2> QED BY <2>1, <2>2, GotoKeeps, RefuseKeeps
<1>7. CASE CheckToken(r)
  <2>1. Working(r) /\ UNCHANGED <<stage, keys, told, res, stored, loadVars>> /\ ~req[r].late
    BY <1>3, <1>7, WorkingHolds DEF CheckToken, At, server, process, database
  <2>2. Answer(r, "forbidden") \/ Goto(r, "command")
    BY <1>7 DEF CheckToken
  <2> QED BY <2>1, <2>2, GotoKeeps, RefuseKeeps
<1>8. CASE Run(r)
  <2>1. Working(r) /\ ~req[r].late /\ Open(req[r]) /\ UNCHANGED <<stage, told, loadVars>>
    BY <1>3, <1>8, WorkingHolds DEF Run, At, server, process, Open
  <2>2. PICK x \in Answers : Command(c, x) /\ Answer(r, x)
    BY <1>8 DEF Run
  <2> DEFINE q == Settled(Done(req[r], x, FALSE))
  <2>3. req' = [req EXCEPT ![r] = q]
    BY <2>1, <2>2, AnswerIs
  <2>4. x = "ok" /\ c.route = "revokeKey" => keys'[c.target] = "revoked"
    BY <2>1, <2>2, CommandKeys DEF Working, CallOk, LoadInv
  <2>5. r \in HoldArrivals => /\ x = "ok" => stored'[r] = "granted"
                              /\ x = "hold_conflict" => stored'[r] = "refused"
    <3> SUFFICES ASSUME r \in HoldArrivals
                 PROVE  /\ x = "ok" => stored'[r] = "granted"
                        /\ x = "hold_conflict" => stored'[r] = "refused"
      OBVIOUS
    <3>1. r \in Res /\ c.route = "hold" /\ c.id = r
      BY <2>1, HoldArrivalsIn DEF Working, CallOk
    <3>2. Hold(c, x)
      BY <2>2, <3>1 DEF Command
    <3> QED BY <3>1, <3>2, HoldRows DEF LoadInv, ApiInv
  <2>6. /\ Shape(req[r]) /\ CallOk(r, c)
        /\ stage # "closing" \/ req[r].client # "waiting"
        /\ x # "shed"
    BY <2>1, LoadAssumption DEF Working, Good, Answers
  <2>7. Good(r, q, stage, told, keys', stored') /\ ~Open(q)
    BY <2>1, <2>4, <2>5, <2>6, AnsweredGood
  <2> HIDE DEF q
  <2> QED BY <2>1, <2>2, <2>3, <2>7, CommandKeeps DEF Working
<1>9. CASE Fail(r)
  <2>1. Working(r) /\ UNCHANGED <<stage, keys, told, res, stored, loadVars>>
    BY <1>9, WorkingHolds DEF Fail, At, server, process, database
  <2>2. PICK x \in Failures, o \in BOOLEAN :
          /\ o => req[r].pc = "command"
          /\ req' = [req EXCEPT ![r] = Settled(Done(req[r], x, o))]
    BY <1>9 DEF Fail, At, Done
  <2>3. x \notin {"ok", "hold_conflict", "shed"}
    BY ApiAssumption, LoadAssumption
  <2>4. req[r].late => x \in {"unauthorized"} \cup Failures /\ o = FALSE
    BY <1>3, <2>2
  <2> QED BY <2>1, <2>2, <2>3, <2>4, AnswerKeeps
<1>10. CASE Orphan(r)
  <2>1. /\ Open(req[r]) /\ CallOk(r, c) /\ ~req[r].late /\ UNCHANGED <<stage, told, loadVars>>
        /\ req[r].orphan /\ req[r].pc \in {"none", "done", "lost"}
    BY <1>1, <1>3, <1>10 DEF Orphan, Open, Good, CallInv, server, process
  <2>2. PICK x \in Answers : Command(c, x)
    BY <1>10 DEF Orphan
  <2> DEFINE d == [req[r] EXCEPT !.orphan = FALSE]
             q == Settled(d)
  <2>3. req' = [req EXCEPT ![r] = q]
    BY <1>10 DEF Orphan
  <2>4. \A k \in Keys : keys[k] = "revoked" => keys'[k] = "revoked"
    BY <2>1, <2>2, CommandKeys DEF CallOk, LoadInv
  <2>5. /\ DOMAIN d = DOMAIN req[r] /\ d.pc = req[r].pc /\ d.call = c /\ d.answer = req[r].answer
        /\ d.client = req[r].client /\ d.late = req[r].late /\ d.orphan = FALSE
    BY <1>1 DEF Good, Shape
  <2> HIDE DEF d
  <2>6. Good(r, d, stage, told, keys', stored') /\ ~Open(d)
    BY <1>1, <2>1, <2>4, <2>5
    DEF Good, Shape, CallInv, CallOk, LateInv, RevokeInv, StageInv, OutcomeInv, Open
  <2>7. Good(r, q, stage, told, keys', stored') /\ ~Open(q)
    BY <2>6, SettledGood
  <2> HIDE DEF q
  <2> QED BY <2>1, <2>2, <2>3, <2>7, CommandKeeps
<1> QED BY <1>4, <1>5, <1>6, <1>7, <1>8, <1>9, <1>10

\* The end of the process: what the server had taken is lost.
LEMMA EndKeeps ==
  ASSUME LoadInv, UNCHANGED loadVars, NEW s \in Ended,
         NEW left \in SUBSET {r \in Requests : req[r].pc = "command"}, End(s, left),
         s \in {"exit0", "exit1"} => stage = "closing"
  PROVE  LoadInv'
<1>1. /\ stage' = s /\ UNCHANGED <<keys, told, res, stored>> /\ DOMAIN req' = Requests
  BY DEF End, database
<1>2. ASSUME NEW r \in Requests
      PROVE  /\ Good(r, req'[r], stage', told, keys, stored)
             /\ Open(req'[r]) => Open(req[r])
             /\ req[r] = NoRequest => req'[r] = NoRequest
  <2>1. Good(r, req[r], stage, told, keys, stored)
    BY DEF LoadInv, ApiInv, RequestsGood
  <2>2. CASE ~AtServer(r)
    <3>1. req'[r] = req[r]
      BY <2>2 DEF End
    <3>2. req[r].pc = "lost" => stage \in Ended
      BY <2>1 DEF Good, StageInv
    <3> QED
      BY <1>1, <2>1, <2>2, <3>1, <3>2
      DEF Good, StageInv, AtServer, Ended
  <2>3. CASE AtServer(r)
    <3>1. PICK o \in BOOLEAN : o = (req[r].orphan \/ r \in left)
      OBVIOUS
    <3> DEFINE d == [req[r] EXCEPT !.pc = "lost", !.orphan = o]
    <3>2. req'[r] = Settled(d)
      BY <2>3, <3>1 DEF End
    <3>3. /\ DOMAIN d = DOMAIN req[r] /\ d.pc = "lost" /\ d.call = req[r].call
          /\ d.answer = req[r].answer /\ d.client = req[r].client /\ d.late = req[r].late
          /\ d.orphan = o
      BY <2>1 DEF Good, Shape
    <3>4. o => Open(req[r])
      BY <3>1 DEF Open
    <3>5. req[r].late => ~o
      BY <2>1, <3>1 DEF Good, LateInv
    <3> HIDE DEF d
    <3>6. s \in {"exit0", "exit1"} => d.client # "waiting"
      BY <2>1, <2>3, <3>3 DEF Good, StageInv, AtServer
    <3>7. Good(r, d, s, told, keys, stored) /\ (Open(d) <=> o)
      BY <2>1, <2>3, <3>3, <3>4, <3>5, <3>6
      DEF Good, Shape, CallInv, LateInv, RevokeInv, StageInv, OutcomeInv, Open, AtServer, Places, Ended
    <3>8. Good(r, Settled(d), s, told, keys, stored) /\ (Open(Settled(d)) <=> o)
      BY <3>7, SettledGood
    <3>9. req[r] # NoRequest
      BY <2>3 DEF AtServer, NoRequest
    <3> QED BY <1>1, <3>2, <3>4, <3>8, <3>9
  <2> QED BY <2>2, <2>3
<1> QED BY <1>1, <1>2, QuietKeeps

LEMMA ProcessKeeps ==
  ASSUME LoadInv, UNCHANGED loadVars, Process
  PROVE  LoadInv'
<1>1. \A r \in Requests : Good(r, req[r], stage, told, keys, stored)
  BY DEF LoadInv, ApiInv, RequestsGood
<1>2. CASE Listen \/ Signal \/ HangUp \/ Close
  <2>1. UNCHANGED <<keys, told, res, stored, req>> /\ DOMAIN req = Requests
    BY <1>2 DEF Listen, Signal, HangUp, Close, process, database, LoadInv, Tables
  <2>2. ASSUME NEW r \in Requests PROVE StageInv(req[r], stage')
    BY <1>1, <1>2 DEF Good, StageInv, Listen, Signal, HangUp, Close, Drained, AtServer, Ended, process
  <2>3. \A r \in Requests : Good(r, req'[r], stage', told, keys, stored)
    BY <1>1, <2>1, <2>2 DEF Good
  <2> QED BY <2>1, <2>3, QuietKeeps
<1>3. CASE Exit
  <2>1. stage = "closing" /\ End("exit0", {})
    BY <1>3 DEF Exit
  <2> QED BY <2>1, EndKeeps DEF Ended
<1>4. CASE ExitAgain
  <2>1. stage = "closing" /\ End("exit1", {r \in Requests : req[r].pc = "command"})
    BY <1>4 DEF ExitAgain, Cut
  <2> QED BY <2>1, EndKeeps DEF Ended
<1>5. CASE Crash
  <2>1. End("crashed", {r \in Requests : req[r].pc = "command"})
    BY <1>5 DEF Crash, Cut
  <2> QED BY <2>1, EndKeeps DEF Ended
<1> QED BY <1>2, <1>3, <1>4, <1>5 DEF Process

LEMMA ExpireKeeps ==
  ASSUME LoadInv, UNCHANGED loadVars, NEW j \in Res, Expire(j)
  PROVE  LoadInv'
<1>1. UNCHANGED <<stage, keys, stored, told, req>> /\ Move(j, "expired", "ok")
  BY DEF Expire, Move, Transitions, server, process
<1>2. \A i \in Res : Row(res'[i]) /\ Absent(i)' = Absent(i)
  BY <1>1, MoveRows DEF LoadInv, ApiInv, Statuses
<1>3. Tables'
  BY <1>1 DEF LoadInv, Tables, loadVars, Expire
<1>4. Told' /\ Rows'
  BY <1>1, <1>2 DEF LoadInv, ApiInv, Told, Rows
<1>5. RequestsGood'
  BY <1>1 DEF LoadInv, ApiInv, RequestsGood, Good, Shape, CallInv, LateInv, RevokeInv, StageInv,
              OutcomeInv, Open
<1>6. ASSUME NEW a \in HoldArrivals PROVE HoldInv(a)'
  <2>1. /\ HoldInv(a) /\ stored'[a] = stored[a] /\ Absent(a)' = Absent(a)
        /\ started'[a] = started[a] /\ rec'[a] = rec[a] /\ req'[a] = req[a]
    BY <1>1, <1>2, HoldArrivalsIn DEF LoadInv, loadVars
  <2> QED BY <2>1, HoldKeeps
<1> QED BY <1>3, <1>4, <1>5, <1>6 DEF LoadInv, ApiInv

-----------------------------------------------------------------------------
(* The steps of the clients. *)

\* A request that is sent.
Fresh(c) == [NoRequest EXCEPT !.pc = "sent", !.call = c, !.client = "waiting", !.late = c.key \in told]

LEMMA FreshGood ==
  ASSUME NEW r, NEW c, CallOk(r, c), r \in HoldArrivals => stored[r] = "none"
  PROVE  Good(r, Fresh(c), stage, told, keys, stored)
<1> DEFINE q == Fresh(c)
<1>1. /\ DOMAIN q = {"pc", "call", "answer", "client", "late", "orphan"}
      /\ q.pc = "sent" /\ q.call = c /\ q.answer = None /\ q.client = "waiting" /\ q.orphan = FALSE
  BY DEF Fresh, NoRequest
<1>2. q.late \in BOOLEAN /\ (q.late => c.key \in told)
  <2>1. CASE c.key \in told
    <3>1. q = [NoRequest EXCEPT !.pc = "sent", !.call = c, !.client = "waiting", !.late = TRUE]
      BY <2>1 DEF Fresh
    <3> QED BY <2>1, <3>1 DEF NoRequest
  <2>2. CASE c.key \notin told
    <3>1. q = [NoRequest EXCEPT !.pc = "sent", !.call = c, !.client = "waiting", !.late = FALSE]
      <4>1. (c.key \in told) = FALSE
        BY <2>2
      <4> QED BY <4>1, Zenon DEF Fresh
    <3> QED BY <2>2, <3>1 DEF NoRequest
  <2> QED BY <2>1, <2>2
<1> HIDE DEF q
<1>3. Good(r, q, stage, told, keys, stored)
  BY <1>1, <1>2 DEF Good, Shape, CallInv, LateInv, RevokeInv, StageInv, OutcomeInv, Open, Places
<1> QED BY <1>3 DEF q

\* A request whose client has gone.
Left(q) == Settled([q EXCEPT !.client = "gone"])

LEMMA LeftGood ==
  ASSUME NEW r, NEW q, NEW st, NEW tl, NEW ks, NEW sd, Good(r, q, st, tl, ks, sd)
  PROVE  Good(r, Left(q), st, tl, ks, sd) /\ (Open(Left(q)) <=> Open(q))
<1> DEFINE d == [q EXCEPT !.client = "gone"]
<1>1. /\ DOMAIN d = DOMAIN q /\ d.pc = q.pc /\ d.answer = q.answer /\ d.orphan = q.orphan
      /\ d.call = q.call /\ d.late = q.late /\ d.client = "gone"
  BY DEF Good, Shape
<1> HIDE DEF d
<1>2. Good(r, d, st, tl, ks, sd) /\ (Open(d) <=> Open(q))
  BY <1>1 DEF Good, Shape, CallInv, LateInv, RevokeInv, StageInv, OutcomeInv, Open
<1>3. Good(r, Settled(d), st, tl, ks, sd) /\ (Open(Settled(d)) <=> Open(q))
  BY <1>2, SettledGood
<1> QED BY <1>3 DEF d, Left

\* An answer arrives: what it tells of a revocation is so.
LEMMA DeliverTold ==
  ASSUME LoadInv, NEW r \in Requests, Deliver(r), UNCHANGED keys
  PROVE  /\ req' = [req EXCEPT ![r] = Left(req[r])] /\ told \subseteq told' /\ Told'
         /\ Good(r, req[r], stage, told', keys, stored)
         /\ req[r].pc = "done" /\ req[r].client = "waiting"
<1>1. Good(r, req[r], stage, told, keys, stored) /\ Told
  BY DEF LoadInv, ApiInv, RequestsGood
<1>2. /\ req' = [req EXCEPT ![r] = Left(req[r])] /\ req[r].pc = "done" /\ req[r].client = "waiting"
      /\ told' = told \cup (IF req[r].call.route = "revokeKey" /\ req[r].answer = "ok"
                            THEN {req[r].call.target} ELSE {})
  BY DEF Deliver, At, Left
<1>3. Told' /\ told \subseteq told'
  BY <1>1, <1>2 DEF Told, Good, RevokeInv, CallInv, CallOk
<1>4. Good(r, req[r], stage, told', keys, stored)
  BY <1>1, <1>3, GoodKeeps
<1> QED BY <1>2, <1>3, <1>4

\* The dispatcher.
LEMMA FireKeeps ==
  ASSUME LoadInv, NEW a \in Arrivals, FireHold(a) \/ FollowUp(a)
  PROVE  LoadInv'
<1>1. /\ ~Fired(a) /\ started' = [started EXCEPT ![a] = clock] /\ a \in Requests
      /\ UNCHANGED <<stage, keys, told, res, stored, clock, planned>>
  BY LoadAssumption DEF FireHold, FollowUp, Due, Fires, server, process, database
<1>2. /\ DOMAIN started' = Arrivals /\ \A b \in Arrivals \ {a} : started'[b] = started[b]
      /\ Fired(a)' /\ DOMAIN rec = Arrivals /\ DOMAIN req = Requests
  BY <1>1 DEF LoadInv, Tables, Fired, Never
<1>3. Told /\ Told' /\ Good(a, req[a], stage, told, keys, stored)
  BY <1>1 DEF LoadInv, ApiInv, Told, RequestsGood
<1>4. Absent(a)' = Absent(a) /\ Open(req[a])' = Open(req'[a])
  BY <1>1 DEF Absent, Open
<1>5. CASE FireHold(a)
  <2>1. a \in HoldArrivals /\ HoldInv(a)
    BY <1>5 DEF FireHold, HoldArrivals, LoadInv
  <2>2. req[a] = NoRequest /\ stored[a] = "none" /\ rec[a] = NoRecord
    BY <1>1, <2>1 DEF HoldInv
  <2>3. CASE Records(a, "shed", Never) /\ req' = req
    <3>1. /\ rec'[a].code = "shed" /\ rec'[a].stored = "none" /\ rec'[a].done = Never
          /\ DOMAIN rec'[a] = {"code", "done", "stored"}
          /\ DOMAIN rec' = Arrivals /\ \A b \in Arrivals \ {a} : rec'[b] = rec[b]
      BY <1>2, <2>2, <2>3 DEF Records, NoRecord
    <3>2. req' = req
      BY <2>3
    <3>3. HoldInv(a)'
      BY <1>1, <1>2, <1>4, <2>1, <2>2, <2>3, <3>1 DEF HoldInv, NoRecord, NoRequest, Open
    <3> QED BY <1>1, <1>2, <1>3, <3>1, <3>2, <3>3, ClientKeeps
  <2>4. CASE rec' = rec /\ Send(a, [route |-> "hold", key |-> LoadKey, venue |-> Venue,
                                       id |-> a, token |-> 0])
    <3> DEFINE c == [route |-> "hold", key |-> LoadKey, venue |-> Venue, id |-> a, token |-> 0]
    <3>1. DOMAIN req' = Requests /\ req'[a] = Fresh(c) /\ \A s \in Requests \ {a} : req'[s] = req[s]
      BY <1>1, <1>2, <2>4 DEF Send, Fresh
    <3>2. CallOk(a, c)
      BY <2>1 DEF CallOk, Capability
    <3> HIDE DEF c
    <3>3. Good(a, Fresh(c), stage, told, keys, stored)
      BY <2>2, <3>2, FreshGood
    <3>4. HoldInv(a)'
      BY <1>1, <1>2, <1>4, <2>1, <2>2, <2>4 DEF HoldInv, NoRecord
    <3> QED BY <1>1, <1>2, <1>3, <2>4, <3>1, <3>3, <3>4, ClientKeeps
  <2> QED BY <1>5, <2>3, <2>4 DEF FireHold
<1>6. CASE FollowUp(a)
  <2>1. a \notin HoldArrivals
    BY <1>6 DEF FollowUp, HoldArrivals
  <2>2. CASE Records(a, "skipped", Never) /\ req' = req
    <3>1. DOMAIN rec' = Arrivals /\ \A b \in Arrivals \ {a} : rec'[b] = rec[b]
      BY <1>2, <2>2 DEF Records
    <3>2. req' = req
      BY <2>2
    <3> QED BY <1>1, <1>2, <1>3, <2>1, <3>1, <3>2, ClientKeeps
  <2>3. CASE rec' = rec /\ ~(recent = <<>>)
    <3>1. PICK c : /\ Send(a, c) /\ c.route \in {"confirm", "cancel"}
      BY <1>6, <2>3 DEF FollowUp
    <3>2. /\ DOMAIN req' = Requests /\ req'[a] = Fresh(c) /\ \A s \in Requests \ {a} : req'[s] = req[s]
          /\ CallOk(a, c)
      BY <1>1, <1>2, <2>1, <3>1 DEF Send, Fresh, CallOk, Capability
    <3>3. Good(a, Fresh(c), stage, told, keys, stored)
      BY <2>1, <3>2, FreshGood
    <3> QED BY <1>1, <1>2, <1>3, <2>1, <2>3, <3>2, <3>3, ClientKeeps
  <2> QED BY <1>6, <2>2, <2>3 DEF FollowUp
<1> QED BY <1>5, <1>6

\* A record is written when an answer arrives or none is waited for any more.
LEMMA RecordKeeps ==
  ASSUME LoadInv, NEW a \in Arrivals, Receive(a) \/ GiveUp(a) \/ Break(a)
  PROVE  LoadInv'
<1>1. /\ a \in Requests /\ UNCHANGED <<stage, keys, res, stored, clock, planned, started>>
      /\ Good(a, req[a], stage, told, keys, stored)
  BY LoadAssumption
  DEF Receive, GiveUp, Break, Lose, process, database, LoadInv, ApiInv, RequestsGood
<1>2. /\ req' = [req EXCEPT ![a] = Left(req[a])] /\ told \subseteq told' /\ Told'
      /\ Good(a, req[a], stage, told', keys, stored) /\ req[a].client = "waiting"
  <2>1. CASE Receive(a)
    BY <1>1, <2>1, DeliverTold DEF Receive
  <2>2. CASE GiveUp(a) \/ Break(a)
    BY <1>1, <2>2 DEF GiveUp, Break, Lose, Abandon, Left, LoadInv, ApiInv, Told
  <2> QED BY <2>1, <2>2
<1>3. /\ Good(a, Left(req[a]), stage, told', keys, stored) /\ (Open(Left(req[a])) <=> Open(req[a]))
      /\ DOMAIN req' = Requests /\ req'[a] = Left(req[a]) /\ \A s \in Requests \ {a} : req'[s] = req[s]
  BY <1>1, <1>2, LeftGood DEF LoadInv, Tables
<1>4. PICK code : /\ Records(a, code, clock)
                  /\ \/ code = req[a].answer /\ req[a].pc = "done"
                     \/ code \in {"transport_timeout", "transport_error"}
  BY DEF Receive, GiveUp, Break, Lose, Deliver, At
<1>5. /\ DOMAIN rec' = Arrivals /\ \A b \in Arrivals \ {a} : rec'[b] = rec[b]
      /\ rec' = [rec EXCEPT ![a] = [rec[a] EXCEPT !.code = code, !.done = clock]]
      /\ DOMAIN started' = Arrivals
  BY <1>1, <1>4 DEF Records, LoadInv, Tables
<1>6. ASSUME a \in HoldArrivals PROVE HoldInv(a)'
  <2>1. HoldInv(a) /\ Fired(a) /\ Fired(a)' /\ Absent(a)' = Absent(a)
    BY <1>1, <1>2, <1>6 DEF LoadInv, HoldInv, NoRequest, Fired, Absent
  <2>2. /\ rec'[a].code = code /\ rec'[a].stored = rec[a].stored /\ rec'[a].done \in Nat
        /\ DOMAIN rec'[a] = {"code", "done", "stored"}
    BY <1>5, <2>1 DEF HoldInv, LoadInv, Tables
  <2>3. /\ code = "ok" => stored[a] = "granted"
        /\ code = "hold_conflict" => stored[a] = "refused"
        /\ code # "shed"
    BY <1>1, <1>4, <1>6 DEF Good, OutcomeInv
  <2> QED BY <1>1, <2>1, <2>2, <2>3 DEF HoldInv
<1> QED BY <1>1, <1>2, <1>3, <1>5, <1>6, ClientKeeps

\* The run looks at the outcomes, revokes its keys, and time passes.
LEMMA HarnessKeeps ==
  ASSUME LoadInv, Tick \/ Look \/ RevokeKeys
  PROVE  LoadInv'
<1>1. CASE Tick
  <2>1. /\ UNCHANGED <<stage, keys, told, res, stored, req, started, rec, planned>>
        /\ clock' = clock + 1
    BY <1>1 DEF Tick, apiVars
  <2>2. Tables'
    BY <2>1 DEF LoadInv, Tables
  <2>3. ApiInv'
    BY <2>1 DEF LoadInv, ApiInv, Told, Rows, RequestsGood, Good, Shape, CallInv, LateInv, RevokeInv,
                StageInv, OutcomeInv, Open
  <2>4. ASSUME NEW a \in HoldArrivals PROVE HoldInv(a)'
    BY <2>1 DEF LoadInv, HoldInv, Absent, Fired, Open
  <2> QED BY <2>2, <2>3, <2>4 DEF LoadInv
<1>2. CASE Look
  <2>1. /\ UNCHANGED <<stage, keys, told, res, stored, req, started, planned, clock>>
        /\ DOMAIN rec' = Arrivals /\ \A a \in planned : Fired(a)
        /\ \A a \in Arrivals : \/ rec'[a] = rec[a]
                               \/ a \in planned /\ rec'[a] = [rec[a] EXCEPT !.stored = Found(a)]
    BY <1>2 DEF Look, apiVars, HoldPlan
  <2>2. Tables'
    BY <2>1 DEF LoadInv, Tables
  <2>3. ApiInv'
    BY <2>1 DEF LoadInv, ApiInv, Told, Rows, RequestsGood, Good, Shape, CallInv, LateInv, RevokeInv,
                StageInv, OutcomeInv, Open
  <2>4. ASSUME NEW a \in HoldArrivals PROVE HoldInv(a)'
    <3>1. HoldInv(a) /\ a \in Arrivals /\ Fired(a)' = Fired(a)
      BY <2>1, HoldArrivalsIn DEF LoadInv, Fired
    <3>2. CASE rec'[a] = rec[a]
      BY <2>1, <3>1, <3>2 DEF HoldInv, Absent, Open
    <3>3. CASE a \in planned /\ rec'[a] = [rec[a] EXCEPT !.stored = Found(a)]
      <4>1. /\ rec'[a].code = rec[a].code /\ rec'[a].stored = Found(a) /\ rec'[a].done = rec[a].done
            /\ DOMAIN rec'[a] = {"code", "done", "stored"} /\ Fired(a)
        BY <2>1, <3>1, <3>3 DEF HoldInv
      <4>2. Found(a) \in {"granted", "refused"} => stored[a] = Found(a)
        BY DEF Found
      <4> QED BY <2>1, <3>1, <4>1, <4>2 DEF HoldInv, Absent, Open
    <3> QED BY <2>1, <3>1, <3>2, <3>3
  <2> QED BY <2>2, <2>3, <2>4 DEF LoadInv
<1>3. CASE RevokeKeys
  <2>1. /\ UNCHANGED <<stage, res, stored, req, started, rec, planned, clock>>
        /\ told \subseteq told' /\ told' \subseteq told \cup {LoadKey}
        /\ LoadKey \in told' \ told => keys'[LoadKey] = "revoked"
        /\ \A k \in Keys : keys[k] = "revoked" => keys'[k] = "revoked"
        /\ DOMAIN keys' = Keys
    BY <1>3, LoadAssumption DEF RevokeKeys, server, process, LoadInv, Tables
  <2>2. Tables' /\ Rows'
    BY <2>1 DEF LoadInv, ApiInv, Tables, Rows
  <2>3. Told'
    BY <2>1, LoadAssumption DEF LoadInv, ApiInv, Told
  <2>4. \A r \in Requests : Good(r, req[r], stage, told, keys, stored)
    BY DEF LoadInv, ApiInv, RequestsGood
  <2>5. \A r \in Requests : Good(r, req'[r], stage', told', keys', stored')
    BY <2>1, <2>4, GoodKeeps
  <2>6. RequestsGood'
    BY <2>5 DEF RequestsGood, Good, Shape, CallInv, LateInv, RevokeInv, StageInv, OutcomeInv, Open
  <2>7. ASSUME NEW a \in HoldArrivals PROVE HoldInv(a)'
    BY <2>1 DEF LoadInv, HoldInv, Absent, Fired, Open
  <2> QED BY <2>2, <2>3, <2>6, <2>7 DEF LoadInv, ApiInv
<1> QED BY <1>1, <1>2, <1>3

\* The operator.
LEMMA OperatorKeeps ==
  ASSUME LoadInv, OperatorSends \/ OperatorEnds
  PROVE  LoadInv'
<1>1. /\ Operator \in Requests /\ Operator \notin Arrivals /\ Operator \notin HoldArrivals
      /\ UNCHANGED <<stage, keys, res, stored, started, rec, planned, clock>>
      /\ Good(Operator, req[Operator], stage, told, keys, stored)
      /\ Told /\ DOMAIN started = Arrivals /\ DOMAIN rec = Arrivals /\ DOMAIN req = Requests
  BY LoadAssumption, HoldArrivalsIn
  DEF OperatorSends, OperatorEnds, server, process, database, loadVars, LoadInv, ApiInv, Tables, RequestsGood
<1>2. CASE OperatorSends
  <2>1. PICK c \in OperatorCalls : Send(Operator, c) /\ told' = told
    BY <1>2 DEF OperatorSends
  <2>2. CallOk(Operator, c)
    BY <1>1, LoadAssumption, HoldArrivalsIn DEF CallOk
  <2>3. Good(Operator, Fresh(c), stage, told, keys, stored)
    BY <1>1, <2>2, FreshGood
  <2>4. /\ DOMAIN req' = Requests /\ req'[Operator] = Fresh(c)
        /\ \A s \in Requests \ {Operator} : req'[s] = req[s]
    BY <1>1, <2>1 DEF Send, Fresh
  <2>5. Told'
    BY <1>1, <2>1 DEF Told
  <2> QED BY <1>1, <2>1, <2>3, <2>4, <2>5, ClientKeeps
<1>3. CASE OperatorEnds
  <2>1. /\ req' = [req EXCEPT ![Operator] = Left(req[Operator])] /\ told \subseteq told' /\ Told'
        /\ Good(Operator, req[Operator], stage, told', keys, stored)
    <3>1. CASE Deliver(Operator)
      BY <1>1, <3>1, DeliverTold
    <3>2. CASE Abandon(Operator)
      BY <1>1, <3>2 DEF Abandon, Left, Told
    <3> QED BY <1>3, <3>1, <3>2 DEF OperatorEnds
  <2>2. /\ Good(Operator, Left(req[Operator]), stage, told', keys, stored)
        /\ DOMAIN req' = Requests /\ req'[Operator] = Left(req[Operator])
        /\ \A s \in Requests \ {Operator} : req'[s] = req[s]
    BY <1>1, <2>1, LeftGood
  <2> QED BY <1>1, <2>1, <2>2, ClientKeeps
<1> QED BY <1>2, <1>3

-----------------------------------------------------------------------------
(* The specification. *)

LEMMA InitLoad == Init => LoadInv
<1> SUFFICES ASSUME Init PROVE LoadInv
  OBVIOUS
<1>1. Tables /\ Told
  BY LoadAssumption DEF Init, ApiInit, Tables, Told
<1>2. ASSUME NEW i \in Res PROVE Row(res[i]) /\ (i \notin DOMAIN FirstRes => Absent(i))
  <2>1. res[i] = IF i \in DOMAIN FirstRes THEN FirstRes[i] ELSE NoRow
    BY DEF Init, ApiInit
  <2>2. i \in DOMAIN FirstRes => FirstRes[i] \in [status: Statuses, venue: Venues, token: Nat]
    BY ApiAssumption
  <2> QED BY <2>1, <2>2 DEF Row, Absent
<1>3. ASSUME NEW r \in Requests PROVE Good(r, req[r], stage, told, keys, stored)
  <2>1. req[r] = NoRequest
    BY DEF Init, ApiInit
  <2> QED
    BY <2>1 DEF NoRequest, Good, Shape, CallInv, LateInv, RevokeInv, StageInv, OutcomeInv, Open, Places
<1>4. ASSUME NEW a \in HoldArrivals PROVE HoldInv(a)
  <2>1. a \in Res /\ a \notin DOMAIN FirstRes /\ a \in Arrivals /\ a \in Requests
    BY HoldArrivalsIn, LoadAssumption DEF HoldArrivals
  <2>2. Absent(a) /\ stored[a] = "none" /\ req[a] = NoRequest /\ rec[a] = NoRecord
    BY <1>2, <2>1 DEF Init, ApiInit
  <2> QED BY <2>2 DEF HoldInv, NoRecord
<1> QED BY <1>1, <1>2, <1>3, <1>4 DEF LoadInv, ApiInv, Rows, RequestsGood

\* Connections without a request are gone when the pool is closed, and stay so.
LEMMA NextIdle == IdleInv /\ [Next]_vars => IdleInv'
<1> SUFFICES ASSUME IdleInv, [Next]_vars PROVE IdleInv'
  OBVIOUS
<1>1. CASE UNCHANGED <<stage, idle>>
  BY <1>1 DEF IdleInv
<1>2. CASE Listen \/ Signal \/ Close
  BY <1>2, ApiAssumption DEF IdleInv, Listen, Signal, Close, Drained, Ended
<1>3. CASE HangUp
  BY <1>3 DEF IdleInv, HangUp, process
<1>4. CASE Exit \/ ExitAgain \/ Crash
  <2>1. idle' = 0
    BY <1>4 DEF Exit, ExitAgain, Crash, Cut, End
  <2> QED BY <2>1 DEF IdleInv
<1>5. CASE \E r \in Requests : Handler(r)
  <2>1. PICK r \in Requests : Handler(r)
    BY <1>5
  <2>2. CASE Accept(r)
    BY <2>2 DEF IdleInv, Accept, process
  <2>3. CASE Lookup(r) \/ Scope(r) \/ CheckToken(r) \/ Run(r) \/ Fail(r) \/ Orphan(r)
    BY <1>1, <2>3 DEF Lookup, Scope, CheckToken, Run, Fail, Orphan, server, process
  <2> QED BY <2>1, <2>2, <2>3 DEF Handler
<1>6. CASE \E i \in Res : Expire(i)
  BY <1>1, <1>6 DEF Expire, server, process
<1>7. ASSUME NEW r, Deliver(r), UNCHANGED process PROVE IdleInv'
  BY <1>7, ApiAssumption DEF IdleInv, Deliver, Ended, process
<1>8. ASSUME NEW r, Abandon(r), UNCHANGED process PROVE IdleInv'
  BY <1>1, <1>8 DEF Abandon, process
<1>9. CASE Harness
  BY <1>1, <1>9 DEF Harness, Tick, Look, RevokeKeys, apiVars, server, process
<1>10. CASE \E a \in Arrivals : FireHold(a) \/ FollowUp(a)
  BY <1>1, <1>10 DEF FireHold, FollowUp, server, process
<1>11. CASE \E a \in Arrivals : Receive(a) \/ GiveUp(a) \/ Break(a)
  BY <1>7, <1>8, <1>11 DEF Receive, GiveUp, Break, Lose
<1>12. CASE OperatorSends \/ OperatorEnds
  BY <1>1, <1>7, <1>8, <1>12 DEF OperatorSends, OperatorEnds, server, process
<1>13. CASE UNCHANGED vars
  BY <1>1, <1>13 DEF vars, apiVars
<1> QED
  BY <1>2, <1>3, <1>4, <1>5, <1>6, <1>9, <1>10, <1>11, <1>12, <1>13 DEF Next, ApiStep, Process

LEMMA NextLoad == LoadInv /\ IdleInv /\ [Next]_vars => LoadInv'
<1> SUFFICES ASSUME LoadInv, IdleInv, [Next]_vars PROVE LoadInv'
  OBVIOUS
<1>1. CASE UNCHANGED vars
  <2>1. UNCHANGED <<stage, keys, told, res, stored, req, started, rec, planned, clock>>
    BY <1>1 DEF vars, apiVars, loadVars
  <2>2. Tables' /\ ApiInv'
    BY <2>1 DEF LoadInv, Tables, ApiInv, Told, Rows, RequestsGood, Good, Shape, CallInv, LateInv,
                RevokeInv, StageInv, OutcomeInv, Open
  <2>3. ASSUME NEW a \in HoldArrivals PROVE HoldInv(a)'
    BY <2>1 DEF LoadInv, HoldInv, Absent, Fired, Open
  <2> QED BY <2>2, <2>3 DEF LoadInv
<1>2. CASE ApiStep /\ UNCHANGED loadVars
  <2>1. CASE Process
    BY <1>2, <2>1, ProcessKeeps
  <2>2. CASE \E r \in Requests : Handler(r)
    BY <1>2, <2>2, HandlerKeeps DEF Handler
  <2>3. CASE \E i \in Res : Expire(i)
    BY <1>2, <2>3, ExpireKeeps
  <2> QED BY <1>2, <2>1, <2>2, <2>3 DEF ApiStep
<1>3. CASE Harness
  BY <1>3, HarnessKeeps DEF Harness
<1>4. CASE \E a \in Arrivals : FireHold(a) \/ FollowUp(a) \/ Receive(a) \/ GiveUp(a) \/ Break(a)
  BY <1>4, FireKeeps, RecordKeeps
<1>5. CASE OperatorSends \/ OperatorEnds
  BY <1>5, OperatorKeeps
<1> QED BY <1>1, <1>2, <1>3, <1>4, <1>5 DEF Next

\* Whatever fails, crashes, is late or is shut down, requests and records keep the invariant.
THEOREM LoadInductive == Spec => [](LoadInv /\ IdleInv)
<1>1. Init => IdleInv
  BY DEF Init, ApiInit, IdleInv, Ended
<1> QED BY <1>1, InitLoad, NextLoad, NextIdle, PTL DEF Spec

\* A key whose revocation has been answered opens no further request (auth.ts, keys.ts).
THEOREM LoadRevoked == Spec => []RevokedRefused
<1>1. LoadInv => RevokedRefused
  BY DEF LoadInv, ApiInv, RequestsGood, Good, LateInv, RevokedRefused
<1> QED BY <1>1, LoadInductive, PTL

\* A process that ends by signals has answered what it had taken, on new connections and
\* on those it had kept alive (server.ts).
THEOREM LoadAnswered == Spec => []AnsweredAtExit
<1>1. LoadInv => AnsweredAtExit
  BY DEF LoadInv, ApiInv, RequestsGood, Good, StageInv, AnsweredAtExit
<1> QED BY <1>1, LoadInductive, PTL

\* What a load run records of a hold is so in the database (load.ts, cli.ts).
THEOREM LoadRecords == Spec => []RecordsTrue
<1>1. LoadInv => RecordsTrue
  BY DEF LoadInv, Tables, HoldInv, HoldArrivals, HoldPlan, RecordsTrue
<1> QED BY <1>1, LoadInductive, PTL

-----------------------------------------------------------------------------
(* Orders. *)

\* Among finitely many there is one with the least value.
LEMMA Least ==
  ASSUME NEW D, IsFiniteSet(D), NEW f \in [D -> Int], NEW T \in SUBSET D, T # {}
  PROVE  \E m \in T : \A x \in T : f[m] <= f[x]
<1> DEFINE Below(m) == {x \in T : f[x] < f[m]}
           B == {Below(m) : m \in T}
<1>1. \A m \in T : Below(m) \in SUBSET D /\ IsFiniteSet(Below(m))
  BY FS_Subset
<1>2. B \subseteq FiniteSubsetsOf(D) /\ B # {}
  BY <1>1 DEF FiniteSubsetsOf
<1>3. \E x \in B : \A y \in B : <<y, x>> \notin StrictSubsetOrdering(D)
  BY <1>2, FS_StrictSubsetOrderingWellFounded, WFMin
<1>4. PICK m \in T : \A x \in T : <<Below(x), Below(m)>> \notin StrictSubsetOrdering(D)
  BY <1>3
<1>5. ASSUME NEW x \in T, f[x] < f[m] PROVE FALSE
  <2>1. Below(x) \subseteq Below(m) /\ Below(x) # Below(m)
    <3>1. x \in Below(m) /\ x \notin Below(x)
      BY <1>5
    <3>2. \A y \in Below(x) : y \in Below(m)
      BY <1>5
    <3> QED BY <3>1, <3>2
  <2> QED BY <1>1, <1>4, <2>1 DEF StrictSubsetOrdering
<1>6. \A x \in T : f[m] \in Int /\ f[x] \in Int
  OBVIOUS
<1> HIDE DEF Below, B
<1> QED BY <1>5, <1>6

LEMMA Greatest ==
  ASSUME NEW D, IsFiniteSet(D), NEW f \in [D -> Int], NEW T \in SUBSET D, T # {}
  PROVE  \E m \in T : \A x \in T : f[x] <= f[m]
<1>1. PICK g \in [D -> Int] : \A x \in D : g[x] = 0 - f[x]
  <2>1. [x \in D |-> 0 - f[x]] \in [D -> Int]
    OBVIOUS
  <2> QED BY <2>1
<1>2. PICK m \in T : \A x \in T : g[m] <= g[x]
  BY Least
<1>3. \A x \in T : f[m] \in Int /\ f[x] \in Int /\ g[m] = 0 - f[m] /\ g[x] = 0 - f[x]
  BY <1>1
<1> QED BY <1>2, <1>3

\* What holds of 0 and is passed on holds up to any number.
LEMMA Induct ==
  ASSUME NEW n \in Nat, NEW S, 0 \in S, \A k \in 0..(n - 1) : k \in S => k + 1 \in S
  PROVE  0..n \subseteq S
<1> SUFFICES ASSUME (0..n) \ S # {} PROVE FALSE
  OBVIOUS
<1>1. PICK f \in [0..n -> Int] : \A k \in 0..n : f[k] = k
  <2>1. [k \in 0..n |-> k] \in [0..n -> Int]
    OBVIOUS
  <2> QED BY <2>1
<1>2. IsFiniteSet(0..n)
  BY FS_Interval
<1>3. PICK k \in (0..n) \ S : \A j \in (0..n) \ S : f[k] <= f[j]
  BY <1>2, Least
<1>4. k # 0 /\ k - 1 \in 0..(n - 1) /\ k - 1 \in (0..n) \ S
  BY <1>3
<1> QED BY <1>1, <1>3, <1>4

-----------------------------------------------------------------------------
(* Percentiles. *)

\* The element of rank k of finitely many values is there.
LEMMA RankedIs ==
  ASSUME NEW D, IsFiniteSet(D), NEW f \in [D -> Int], NEW k \in 0..(Cardinality(D) - 1)
  PROVE  /\ Ranked(f, k) \in Int
         /\ Cardinality({a \in D : f[a] < Ranked(f, k)}) <= k
         /\ Cardinality({a \in D : f[a] <= Ranked(f, k)}) > k
<1> DEFINE T == {b \in D : Cardinality({a \in D : f[a] <= f[b]}) > k}
<1>1. Cardinality(D) \in Nat /\ D # {} /\ k \in Nat /\ k < Cardinality(D)
  BY FS_CardinalityType, FS_EmptySet
<1>2. PICK m \in D : \A x \in D : f[x] <= f[m]
  BY <1>1, Greatest
<1>3. {a \in D : f[a] <= f[m]} = D
  BY <1>2
<1>4. m \in T
  BY <1>1, <1>3
<1>5. PICK b \in T : \A x \in T : f[b] <= f[x]
  BY <1>4, Least
<1>6. Cardinality({a \in D : f[a] < f[b]}) <= k
  <2> DEFINE L == {a \in D : f[a] < f[b]}
  <2>1. L \in SUBSET D /\ IsFiniteSet(L) /\ Cardinality(L) \in Nat
    BY FS_Subset, FS_CardinalityType
  <2>2. CASE L = {}
    <3>1. Cardinality(L) = 0
      BY <2>2, FS_EmptySet
    <3> HIDE DEF L
    <3> QED BY <1>1, <3>1 DEF L
  <2>3. CASE L # {}
    <3>1. PICK u \in L : \A x \in L : f[x] <= f[u]
      BY <2>1, <2>3, Greatest
    <3>2. u \in D /\ f[u] < f[b] /\ f[u] \in Int /\ f[b] \in Int
      BY <3>1
    <3>3. ASSUME NEW a \in D PROVE a \in L <=> f[a] <= f[u]
      BY <3>1, <3>2
    <3>4. L = {a \in D : f[a] <= f[u]}
      BY <3>3
    <3>5. u \notin T
      BY <1>5, <3>2
    <3> HIDE DEF L
    <3> QED BY <1>1, <2>1, <3>2, <3>4, <3>5 DEF L
  <2> QED BY <2>2, <2>3
<1>7. f[b] \in Range(f) /\ Cardinality({a \in D : f[a] <= f[b]}) > k /\ DOMAIN f = D
  BY DEF Range
<1>8. /\ Ranked(f, k) \in Range(f)
      /\ Cardinality({a \in DOMAIN f : f[a] < Ranked(f, k)}) <= k
      /\ Cardinality({a \in DOMAIN f : f[a] <= Ranked(f, k)}) > k
  BY <1>6, <1>7 DEF Ranked
<1>9. Range(f) \subseteq Int
  BY DEF Range
<1> QED BY <1>7, <1>8, <1>9

\* It is no less when no value is.
LEMMA RankedMonotone ==
  ASSUME NEW D, IsFiniteSet(D), NEW f \in [D -> Int], NEW g \in [D -> Int],
         NEW k \in 0..(Cardinality(D) - 1), \A a \in D : f[a] <= g[a]
  PROVE  Ranked(f, k) <= Ranked(g, k)
<1> DEFINE v == Ranked(f, k)
           w == Ranked(g, k)
           L == {a \in D : f[a] < v}
           G == {a \in D : g[a] <= w}
<1>1. v \in Int /\ Cardinality(L) <= k
  BY RankedIs
<1>2. w \in Int /\ Cardinality(G) > k
  BY RankedIs
<1> HIDE DEF v, w
<1>3. L \in SUBSET D /\ G \in SUBSET D /\ k \in Int
  OBVIOUS
<1>4. ASSUME w < v PROVE G \subseteq L
  <2>1. ASSUME NEW a \in G PROVE a \in L
    <3>1. f[a] \in Int /\ g[a] \in Int /\ f[a] <= g[a] /\ g[a] <= w
      OBVIOUS
    <3> QED BY <1>1, <1>2, <1>4, <3>1
  <2> QED BY <2>1
<1> HIDE DEF L, G
<1>5. IsFiniteSet(L) /\ Cardinality(L) \in Nat
  BY <1>3, FS_Subset, FS_CardinalityType
<1>6. IsFiniteSet(G) /\ Cardinality(G) \in Nat
  BY <1>3, FS_Subset, FS_CardinalityType
<1>7. G \subseteq L => Cardinality(G) <= Cardinality(L)
  BY <1>5, FS_Subset
<1>8. v <= w
  BY <1>1, <1>2, <1>3, <1>4, <1>5, <1>6, <1>7
<1> QED BY <1>8 DEF v, w

\* The rank of a percentile that is given at all is a rank.
LEMMA RankIs ==
  ASSUME NEW n \in Nat, NEW p \in 0..99, Enough(n, p)
  PROVE  Rank(n, p) \in 0..(n - 1)
<1>1. MinAbove \in Nat \ {0}
  BY ReportAssumption
<1>2. n > 0
  BY <1>1 DEF Enough
<1>3. (p * n) \div 100 \in Nat
  <2>1. p * n \in Nat
    OBVIOUS
  <2> QED BY <2>1
<1>4. PICK q \in Nat : q = (p * n) \div 100
  BY <1>3
<1>5. CASE q <= n - 1
  <2>1. q \in {n - 1, q} /\ \A y \in {n - 1, q} : q <= y
    BY <1>5
  <2>2. Min({n - 1, q}) \in {n - 1, q} /\ \A y \in {n - 1, q} : Min({n - 1, q}) <= y
    BY <2>1 DEF Min
  <2> QED BY <1>2, <1>4, <2>2 DEF Rank
<1>6. CASE n - 1 <= q
  <2>1. n - 1 \in {n - 1, q} /\ \A y \in {n - 1, q} : n - 1 <= y
    BY <1>6
  <2>2. Min({n - 1, q}) \in {n - 1, q} /\ \A y \in {n - 1, q} : Min({n - 1, q}) <= y
    BY <2>1 DEF Min
  <2> QED BY <1>2, <1>4, <2>2 DEF Rank
<1> QED BY <1>4, <1>5, <1>6

\* However the samples would have gone on, a percentile is within its bounds, and a limit
\* is called met or missed when it is.
LEMMA QuantileTrue ==
  ASSUME NEW D, IsFiniteSet(D), NEW s, DOMAIN s = D,
         \A a \in D : s[a].ms \in Int, NEW p \in DOMAIN Limits,
         NEW M \in Nat, M <= Infinity,
         NEW f \in [D -> 0..M], \A a \in D : f[a] >= s[a].ms /\ (s[a].censored \/ f[a] = s[a].ms),
         NEW q, q = Quantile(s, p), q # <<>>
  PROVE  LET v == Ranked(f, Rank(Cardinality(D), p)) IN
         /\ q[1].atLeast <= v /\ v <= q[1].atMost
         /\ Judge(q, Limits[p]) = "met" => v <= Limits[p]
         /\ Judge(q, Limits[p]) = "missed" => v > Limits[p]
<1> DEFINE n == Cardinality(D)
           k == Rank(n, p)
<1>1. p \in 0..99 /\ Limits[p] \in Nat
  BY ReportAssumption
<1>2. n \in Nat
  BY FS_CardinalityType
<1>3. Enough(n, p) /\ q = <<[atLeast |-> Ranked(Lower(s), k), atMost |-> Ranked(Upper(s), k)]>>
  BY DEF Quantile
<1>4. k \in 0..(n - 1)
  BY <1>1, <1>2, <1>3, RankIs
<1> HIDE DEF k
<1>5. /\ Lower(s) \in [D -> Int] /\ Upper(s) \in [D -> Int] /\ f \in [D -> Int]
      /\ \A a \in D : Lower(s)[a] <= f[a] /\ f[a] <= Upper(s)[a]
  BY DEF Lower, Upper, Infinity
<1>6. PICK l \in [D -> Int] : l = Lower(s) /\ \A a \in D : l[a] <= f[a]
  BY <1>5
<1>7. PICK u \in [D -> Int] : u = Upper(s) /\ \A a \in D : f[a] <= u[a]
  BY <1>5
<1>8. Ranked(l, k) <= Ranked(f, k) /\ Ranked(l, k) \in Int
  BY <1>4, <1>5, <1>6, RankedMonotone, RankedIs
<1>9. Ranked(f, k) <= Ranked(u, k) /\ Ranked(u, k) \in Int
  BY <1>4, <1>5, <1>7, RankedMonotone, RankedIs
<1>10. PICK v \in Int : v = Ranked(f, k)
  BY <1>4, <1>5, RankedIs
<1>11. q[1].atLeast <= v /\ v <= q[1].atMost /\ q[1].atLeast \in Int /\ q[1].atMost \in Int
  BY <1>3, <1>6, <1>7, <1>8, <1>9, <1>10
<1>12. /\ Judge(q, Limits[p]) = "met" => q[1].atMost <= Limits[p]
       /\ Judge(q, Limits[p]) = "missed" => q[1].atLeast > Limits[p]
  BY <1>1, <1>11 DEF Judge
<1>13. /\ q[1].atLeast <= v /\ v <= q[1].atMost
       /\ Judge(q, Limits[p]) = "met" => v <= Limits[p]
       /\ Judge(q, Limits[p]) = "missed" => v > Limits[p]
  BY <1>1, <1>11, <1>12
<1> QED BY <1>10, <1>13 DEF k

-----------------------------------------------------------------------------
(* Requests that wait. *)

\* What is waited for at t.
Waits(rs, t) == Where(rs, LAMBDA x : x.done # Never /\ x.at <= t /\ x.done > t)

\* The maximum of finitely many numbers.
LEMMA MaxIs ==
  ASSUME NEW S \in SUBSET Int, IsFiniteSet(S), S # {}
  PROVE  Max(S) \in S /\ \A x \in S : x <= Max(S)
<1>1. PICK f \in [S -> Int] : \A x \in S : f[x] = x
  <2>1. [x \in S |-> x] \in [S -> Int]
    OBVIOUS
  <2> QED BY <2>1
<1>2. PICK m \in S : \A x \in S : f[x] <= f[m]
  BY Greatest
<1>3. \A x \in S : m >= x
  BY <1>1, <1>2
<1>4. Max(S) \in S /\ \A x \in S : Max(S) >= x
  BY <1>3 DEF Max
<1> QED BY <1>4

\* The peak is a count of requests that waited, and no moment has more.
LEMMA PeakIs ==
  ASSUME NEW rs, IsFiniteSet(DOMAIN rs)
  PROVE  /\ Peak(rs) \in Nat
         /\ \A a \in DOMAIN rs : Cardinality(Waits(rs, rs[a].at)) <= Peak(rs)
<1> DEFINE D == DOMAIN rs
           S == {Cardinality(Waits(rs, rs[a].at)) : a \in D} \cup {0}
<1>1. \A t : Waits(rs, t) \in SUBSET D
  BY DEF Waits, Where
<1>2. /\ Cardinality(D) \in Nat
      /\ \A t : Cardinality(Waits(rs, t)) \in Nat /\ Cardinality(Waits(rs, t)) <= Cardinality(D)
  BY <1>1, FS_Subset, FS_CardinalityType
<1>3. S \subseteq 0..Cardinality(D) /\ S # {}
  BY <1>2
<1>4. IsFiniteSet(0..Cardinality(D))
  BY <1>2, FS_Interval
<1>5. Peak(rs) = Max(S)
  BY DEF Peak, Waits
<1>6. \A a \in D : Cardinality(Waits(rs, rs[a].at)) \in S
  OBVIOUS
<1> HIDE DEF S
<1>7. PICK c \in Nat : S \in SUBSET (0..c) /\ IsFiniteSet(0..c)
  BY <1>2, <1>3, <1>4
<1>8. IsFiniteSet(S) /\ S \in SUBSET Int /\ S \in SUBSET Nat
  <2>1. IsFiniteSet(S)
    BY <1>7, FS_Subset
  <2> QED BY <1>7, <2>1
<1>9. Max(S) \in S /\ \A x \in S : x <= Max(S)
  BY <1>3, <1>8, MaxIs
<1>10. Max(S) \in Nat /\ \A a \in D : Cardinality(Waits(rs, rs[a].at)) <= Max(S)
  BY <1>6, <1>8, <1>9
<1> QED BY <1>5, <1>10

\* Requests that all wait for their answers when the last of them arrives are no more
\* than the peak.
LEMMA Together ==
  ASSUME NEW rs, IsFiniteSet(DOMAIN rs), \A a \in DOMAIN rs : rs[a].at \in Int,
         NEW W \in SUBSET DOMAIN rs,
         \A a \in W : rs[a].done # Never, \A a, b \in W : rs[a].at < rs[b].done
  PROVE  Cardinality(W) <= Peak(rs)
<1>1. CASE W = {}
  BY <1>1, PeakIs, FS_EmptySet
<1>2. CASE W # {}
  <2> DEFINE D == DOMAIN rs
  <2>1. PICK f \in [D -> Int] : \A a \in D : f[a] = rs[a].at
    <3>1. [a \in D |-> rs[a].at] \in [D -> Int]
      OBVIOUS
    <3> QED BY <3>1
  <2>2. PICK m \in W : \A a \in W : f[a] <= f[m]
    BY <1>2, Greatest
  <2>3. PICK t \in Int : t = rs[m].at
    BY <2>2
  <2>4. W \subseteq Waits(rs, t)
    BY <2>1, <2>2, <2>3 DEF Waits, Where
  <2>5. Waits(rs, t) \in SUBSET D
    BY DEF Waits, Where
  <2>6. IsFiniteSet(Waits(rs, t)) /\ Cardinality(Waits(rs, t)) \in Nat
    BY <2>5, FS_Subset, FS_CardinalityType
  <2>7. IsFiniteSet(W) /\ Cardinality(W) \in Nat /\ Cardinality(W) <= Cardinality(Waits(rs, t))
    BY <2>4, <2>6, FS_Subset, FS_CardinalityType
  <2>8. Cardinality(Waits(rs, t)) <= Peak(rs) /\ Peak(rs) \in Nat
    BY <2>2, <2>3, PeakIs
  <2> QED BY <2>6, <2>7, <2>8
<1> QED BY <1>1, <1>2

\* The end of a step is a time.
LEMMA ToIs == \A i \in 0..Len(Steps) : To[i] \in Int
<1> DEFINE n == Len(Steps)
           R(f, k) == \A i \in 0..k : f[i] = IF i = 0 THEN 0 ELSE f[i - 1] + Second * Steps[i].seconds
           G(k) == \E f \in [0..k -> Int] : R(f, k)
           S == {k \in 0..n : G(k)}
<1>1. n \in Nat /\ Second \in Nat
  BY ReportAssumption
<1>2. \A i \in 1..n : Steps[i].seconds \in Nat
  <2>1. Steps \in [1..n -> [rate: Nat, seconds: Nat]]
    BY ReportAssumption, LenProperties
  <2>2. \A i \in 1..n : Steps[i] \in [rate: Nat, seconds: Nat]
    BY <2>1
  <2> QED BY <2>2
<1>3. 0 \in S
  <2>1. PICK f \in [0..0 -> Int] : f[0] = 0
    <3> DEFINE z == [i \in 0..0 |-> 0]
    <3>1. z \in [0..0 -> Int] /\ z[0] = 0
      OBVIOUS
    <3> QED BY <3>1
  <2>2. R(f, 0)
    BY <2>1
  <2>3. G(0)
    BY <2>2
  <2> HIDE DEF G
  <2> QED BY <1>1, <2>3
<1>4. \A k \in 0..(n - 1) : k \in S => k + 1 \in S
  <2> SUFFICES ASSUME NEW k \in 0..(n - 1), k \in S PROVE k + 1 \in S
    OBVIOUS
  <2>1. PICK f \in [0..k -> Int] : R(f, k)
    OBVIOUS
  <2>2. PICK v \in Int : v = f[k] + Second * Steps[k + 1].seconds
    <3>1. Steps[k + 1].seconds \in Nat /\ f[k] \in Int
      BY <1>1, <1>2
    <3>2. PICK x \in Nat : x = Steps[k + 1].seconds
      BY <3>1
    <3>3. Second * x \in Int
      BY <1>1
    <3> QED BY <3>1, <3>2, <3>3
  <2>3. PICK g \in [0..(k + 1) -> Int] : g[k + 1] = v /\ \A i \in 0..k : g[i] = f[i]
    <3> DEFINE g == [i \in 0..(k + 1) |-> IF i = k + 1 THEN v ELSE f[i]]
    <3>1. g \in [0..(k + 1) -> Int] /\ g[k + 1] = v /\ \A i \in 0..k : g[i] = f[i]
      OBVIOUS
    <3> QED BY <3>1
  <2>4. ASSUME NEW i \in 0..(k + 1)
        PROVE  g[i] = IF i = 0 THEN 0 ELSE g[i - 1] + Second * Steps[i].seconds
    <3>1. CASE i \in 0..k
      <4>1. f[i] = IF i = 0 THEN 0 ELSE f[i - 1] + Second * Steps[i].seconds
        BY <2>1, <3>1
      <4>2. g[i] = f[i] /\ (i # 0 => g[i - 1] = f[i - 1])
        BY <2>3, <3>1
      <4> QED BY <4>1, <4>2
    <3>2. CASE i = k + 1
      <4>1. i # 0 /\ i - 1 = k /\ g[i - 1] = f[k] /\ g[i] = v
        BY <2>3, <3>2
      <4> QED BY <2>2, <3>2, <4>1
    <3> QED BY <3>1, <3>2
  <2>5. G(k + 1)
    BY <2>4
  <2> HIDE DEF G
  <2> QED BY <2>5
<1>5. n \in S
  <2> HIDE DEF S, R, G
  <2>1. 0..n \subseteq S
    BY <1>1, <1>3, <1>4, Induct
  <2> QED BY <1>1, <2>1
<1>6. PICK f \in [0..n -> Int] : R(f, n)
  BY <1>5
<1>7. f = [i \in 0..n |-> IF i = 0 THEN 0 ELSE f[i - 1] + Second * Steps[i].seconds]
  BY <1>6
<1>8. To = [i \in 0..n |-> IF i = 0 THEN 0 ELSE To[i - 1] + Second * Steps[i].seconds]
  BY <1>7 DEF To
<1> DEFINE T == {k \in 0..n : To[k] \in Int}
<1>9. 0 \in T
  BY <1>1, <1>8
<1>10. \A k \in 0..(n - 1) : k \in T => k + 1 \in T
  <2> SUFFICES ASSUME NEW k \in 0..(n - 1), k \in T PROVE k + 1 \in T
    OBVIOUS
  <2>1. To[k + 1] = To[k] + Second * Steps[k + 1].seconds
    BY <1>1, <1>8
  <2>2. PICK x \in Nat : x = Steps[k + 1].seconds
    BY <1>2
  <2>3. Second * x \in Int
    BY <1>1
  <2> QED BY <2>1, <2>2, <2>3
<1> HIDE DEF T
<1>11. 0..n \subseteq T
  BY <1>1, <1>9, <1>10, Induct
<1> QED BY <1>11 DEF T

\* In an earlier second is earlier.
LEMMA Earlier ==
  ASSUME NEW x \in Int, NEW y \in Int, NEW k \in Int, x \div Second <= k, y \div Second > k
  PROVE  x < y
<1>1. Second \in Nat \ {0}
  BY ReportAssumption
<1>2. PICK c \in Nat \ {0} : c = Second
  BY <1>1
<1>3. x = c * (x \div c) + (x % c) /\ x % c \in 0..(c - 1) /\ x \div c \in Int
  BY Z3
<1>4. y = c * (y \div c) + (y % c) /\ y % c \in 0..(c - 1) /\ y \div c \in Int
  BY Z3
<1>5. PICK a \in Int, b \in Int, r \in 0..(c - 1), s \in 0..(c - 1) :
        x = c * a + r /\ y = c * b + s /\ a = x \div c /\ b = y \div c
  BY <1>3, <1>4
<1>6. a <= k /\ k + 1 <= b
  BY <1>2, <1>5
<1>7. c * (a + 1) <= c * b
  BY <1>6, Z3
<1>8. c * (a + 1) = c * a + c
  BY Z3
<1> QED BY <1>5, <1>7, <1>8
-----------------------------------------------------------------------------
(* The report. *)

\* The records of the holds, as the report has them.
LEMMA HoldsAre ==
  ASSUME LoadInv
  PROVE  /\ IsFiniteSet(DOMAIN Holds(Report)) /\ DOMAIN Report = {a \in Arrivals : rec[a].code # "none"}
         /\ DOMAIN Holds(Report) = {a \in HoldArrivals : rec[a].code # "none"}
         /\ \A a \in DOMAIN Holds(Report) :
              /\ a \in HoldArrivals
              /\ Holds(Report)[a] = [hold |-> Plan[a].hold, step |-> Plan[a].step, at |-> Plan[a].at,
                                     code |-> rec[a].code, done |-> rec[a].done]
              /\ Plan[a].at \in Int
              /\ \/ rec[a].code = "shed" /\ rec[a].done = Never
                 \/ rec[a].code # "shed" /\ rec[a].done \in Nat
<1> DEFINE D == {a \in Arrivals : rec[a].code # "none"}
           H == {a \in HoldArrivals : rec[a].code # "none"}
           R(a) == [hold |-> Plan[a].hold, step |-> Plan[a].step, at |-> Plan[a].at,
                    code |-> rec[a].code, done |-> rec[a].done]
<1>1. Report = [a \in D |-> R(a)]
  BY DEF Report
<1>2. H = {a \in D : Report[a].hold}
  BY <1>1 DEF HoldArrivals
<1>3. Holds(Report) = [a \in H |-> R(a)]
  BY <1>1, <1>2 DEF Holds, Where, Restrict
<1>4. IsFiniteSet(H)
  <2>1. H \in SUBSET Arrivals
    BY DEF HoldArrivals
  <2> QED BY <2>1, LoadAssumption, FS_Subset
<1>5. ASSUME NEW a \in H
      PROVE  /\ Plan[a].at \in Int
             /\ \/ rec[a].code = "shed" /\ rec[a].done = Never
                \/ rec[a].code # "shed" /\ rec[a].done \in Nat
  BY LoadAssumption DEF LoadInv, HoldInv, HoldArrivals
<1> QED BY <1>1, <1>3, <1>4, <1>5

\* The first part: percentiles.
LEMMA PercentilesTrue ==
  ASSUME LoadInv, NEW i \in DOMAIN Steps, NEW p \in DOMAIN Limits,
         NEW s, s = Samples(OfStep(Holds(Report), i)), NEW q, q = Quantile(s, p), q # <<>>,
         NEW f \in Completions(s)
  PROVE  LET v == Ranked(f, Rank(Cardinality(DOMAIN s), p)) IN
         /\ q[1].atLeast <= v /\ v <= q[1].atMost
         /\ Judge(q, Limits[p]) = "met" => v <= Limits[p]
         /\ Judge(q, Limits[p]) = "missed" => v > Limits[p]
<1> DEFINE rs == OfStep(Holds(Report), i)
           D == Answered(rs)
<1>1. DOMAIN rs \subseteq DOMAIN Holds(Report) /\ \A a \in DOMAIN rs : rs[a] = Holds(Report)[a]
  BY DEF OfStep, Where, Restrict
<1>2. D \subseteq DOMAIN rs /\ \A a \in D : rs[a].done # Never
  BY DEF Answered, Where
<1>3. IsFiniteSet(D)
  BY <1>1, <1>2, HoldsAre, FS_Subset
<1>4. ASSUME NEW a \in D PROVE rs[a].done - rs[a].at \in Int
  <2>1. rs[a].at = Plan[a].at /\ rs[a].done = rec[a].done /\ Plan[a].at \in Int /\ rec[a].done \in Nat
    BY <1>1, <1>2, HoldsAre
  <2> QED BY <2>1
<1>5. DOMAIN s = D /\ \A a \in D : s[a].ms = rs[a].done - rs[a].at
  BY DEF Samples
<1>6. MaxClock + 2 \in Nat /\ MaxClock + 2 <= Infinity
  BY LoadAssumption
<1>7. /\ f \in [D -> 0..(MaxClock + 2)]
      /\ \A a \in D : f[a] >= s[a].ms /\ (s[a].censored \/ f[a] = s[a].ms)
  BY <1>5 DEF Completions
<1>8. \A a \in D : s[a].ms \in Int
  BY <1>4, <1>5
<1> HIDE DEF D, rs
<1> QED BY <1>3, <1>5, <1>6, <1>7, <1>8, QuantileTrue

\* The second: what waits at the end of a step, or of a second, waited at once.
LEMMA WaitingTrue ==
  ASSUME LoadInv, NEW rs, rs = Holds(Report)
  PROVE  /\ \A i \in DOMAIN Steps : Step(Report, i).backlog <= Peak(rs)
         /\ \A k \in DOMAIN Timeline(rs) : Timeline(rs)[k] <= Peak(rs)
<1>1. /\ IsFiniteSet(DOMAIN rs)
      /\ \A a \in DOMAIN rs : /\ rs[a].at \in Int
                              /\ \/ rs[a].done = Never /\ rs[a].code = "shed"
                                 \/ rs[a].done \in Nat
  BY HoldsAre
<1>2. ASSUME NEW i \in DOMAIN Steps PROVE Step(Report, i).backlog <= Peak(rs)
  <2> DEFINE W == Where(rs, LAMBDA x :
                    Cls(x) # "shed" /\ x.at < To[i] /\ (x.done = Never \/ x.done >= To[i]))
  <2>1. Step(Report, i).backlog = Cardinality(W)
    BY DEF Step
  <2>2. To[i] \in Int
    BY ToIs, ReportAssumption, LenProperties
  <2>3. /\ W \in SUBSET DOMAIN rs
        /\ \A a \in W : rs[a].at < To[i] /\ Cls(rs[a]) # "shed" /\ (rs[a].done = Never \/ rs[a].done >= To[i])
    BY DEF Where
  <2>4. \A a \in W : rs[a].done \in Nat /\ rs[a].done >= To[i]
    <3> HIDE DEF W
    <3>1. \A a \in DOMAIN rs : Cls(rs[a]) # "shed" => rs[a].code # "shed"
      BY DEF Cls, Classify
    <3>2. \A a \in DOMAIN rs : Cls(rs[a]) # "shed" => rs[a].done \in Nat
      BY <1>1, <3>1
    <3>3. \A a \in Nat : a # Never
      BY DEF Never
    <3> QED BY <2>3, <3>2, <3>3
  <2> HIDE DEF W
  <2>5. \A a, b \in W : rs[a].at < rs[b].done
    BY <1>1, <2>2, <2>3, <2>4
  <2>6. \A a \in W : rs[a].done # Never
    BY <2>4 DEF Never
  <2> QED BY <1>1, <2>1, <2>3, <2>5, <2>6, Together
<1>3. ASSUME NEW k \in DOMAIN Timeline(rs) PROVE Timeline(rs)[k] <= Peak(rs)
  <2> DEFINE W == Where(rs, LAMBDA x :
                    x.done # Never /\ x.at \div Second <= k /\ x.done \div Second > k)
  <2>1. Timeline(rs)[k] = Cardinality(W)
    BY DEF Timeline
  <2>2. k \in Int
    BY DEF Timeline
  <2>3. /\ W \in SUBSET DOMAIN rs
        /\ \A a \in W : rs[a].done # Never /\ rs[a].at \div Second <= k /\ rs[a].done \div Second > k
    BY DEF Where
  <2> HIDE DEF W
  <2>4. ASSUME NEW a \in W, NEW b \in W PROVE rs[a].at < rs[b].done
    <3>1. PICK x \in Int, y \in Int : x = rs[a].at /\ y = rs[b].done
      BY <1>1, <2>3
    <3> QED BY <2>2, <2>3, <3>1, Earlier
  <2> QED BY <1>1, <2>1, <2>3, <2>4, Together
<1> QED BY <1>2, <1>3

\* The third: a run that exits with 0.
LEMMA ExitTrue ==
  ASSUME LoadInv, ExitCode(Report, seen, planned) = 0
  PROVE  LET last == {a \in HoldPlan : Plan[a].step = Len(Steps)} IN
         /\ \A a \in HoldPlan : rec[a].code # "none" /\ Classify(rec[a].code) # "transport"
         /\ last # {}
         /\ ~Share(Cardinality({a \in last : stored[a] = "none"}), Cardinality(last))
<1> DEFINE last == {a \in HoldPlan : Plan[a].step = Len(Steps)}
           lost == {a \in last : stored[a] = "none"}
           n == Len(Steps)
           mine == OfStep(Holds(Report), n)
<1>1. Verdict(Report, seen, planned) = "met"
  BY DEF ExitCode
<1>2. Valid(Report, seen, planned) /\ Checks(Report, seen) = {"met"}
  BY <1>1 DEF Verdict
<1>3. planned = {a \in Arrivals : rec[a].code # "none"}
  BY <1>2, HoldsAre DEF Valid
<1>4. \A a \in HoldPlan : a \in HoldArrivals /\ a \in DOMAIN Holds(Report) /\ a \in DOMAIN Report
  BY <1>3, HoldsAre DEF HoldPlan, HoldArrivals
<1>5. ASSUME NEW a \in HoldPlan PROVE rec[a].code # "none" /\ Classify(rec[a].code) # "transport"
  <2>1. Cls(Report[a]) # "transport"
    BY <1>2, <1>4 DEF Valid
  <2>2. Report[a].code = rec[a].code
    BY <1>4, HoldsAre DEF Report
  <2> QED BY <1>3, <2>1, <2>2 DEF Cls, HoldPlan
<1>6. DOMAIN mine = last
  <2>1. DOMAIN mine = {a \in DOMAIN Holds(Report) : Holds(Report)[a].step = n}
    BY DEF OfStep, Where, Restrict
  <2>2. \A a \in DOMAIN Holds(Report) : Holds(Report)[a].step = Plan[a].step
    BY HoldsAre
  <2>3. DOMAIN Holds(Report) = HoldPlan
    BY <1>3, HoldsAre DEF HoldPlan, HoldArrivals
  <2> QED BY <2>1, <2>2, <2>3
<1>7. /\ mine = [a \in last |-> Holds(Report)[a]]
      /\ \A a \in last : mine[a].code = rec[a].code
  <2>1. mine = [a \in last |-> Holds(Report)[a]]
    BY <1>6 DEF OfStep, Restrict
  <2> QED BY <1>4, <2>1, HoldsAre
<1>8. IsFiniteSet(last) /\ Cardinality(last) \in Nat
  <2>1. last \subseteq DOMAIN Holds(Report)
    BY <1>4
  <2> QED BY <2>1, HoldsAre, FS_Subset, FS_CardinalityType
<1>9. /\ Step(Report, n).offered = Cardinality(last)
      /\ Step(Report, n).errors = Cardinality(Errors(mine))
  BY <1>6 DEF Step
<1>10. /\ Step(Report, n).offered # 0
       /\ ~Share(Step(Report, n).errors, Step(Report, n).offered)
  <2> DEFINE c == IF Step(Report, n).offered = 0 THEN "no_data"
                  ELSE IF Share(Step(Report, n).errors, Step(Report, n).offered) THEN "missed" ELSE "met"
  <2>1. c \in Checks(Report, seen)
    BY DEF Checks
  <2>2. c = "met"
    BY <1>2, <2>1
  <2> QED BY <2>2
<1>11. last # {}
  BY <1>9, <1>10, FS_EmptySet
<1>12. lost \subseteq Errors(mine)
  <2> SUFFICES ASSUME NEW a \in lost PROVE a \in Errors(mine)
    OBVIOUS
  <2>1. a \in last /\ rec[a].code # "ok" /\ rec[a].code # "hold_conflict"
    BY <1>4 DEF LoadInv, HoldInv
  <2>2. IsError(Cls(mine[a]))
    BY <1>7, <2>1 DEF IsError, Cls, Classify
  <2> QED BY <1>6, <2>1, <2>2 DEF Errors, Where
<1>13. /\ Cardinality(lost) \in Nat /\ Cardinality(Errors(mine)) \in Nat
       /\ Cardinality(lost) <= Cardinality(Errors(mine))
  <2>1. Errors(mine) \in SUBSET last
    BY <1>6 DEF Errors, Where
  <2>2. IsFiniteSet(Errors(mine))
    BY <1>8, <2>1, FS_Subset
  <2> QED BY <1>12, <2>2, FS_Subset, FS_CardinalityType
<1>14. ~Share(Cardinality(lost), Cardinality(last))
  <2>1. ~Share(Cardinality(Errors(mine)), Cardinality(last))
    BY <1>9, <1>10
  <2>2. PICK t \in Int : t = Tolerance * Cardinality(last)
    <3>1. \A x, y \in Int : x * y \in Int
      OBVIOUS
    <3>2. Tolerance \in Int /\ Cardinality(last) \in Int
      BY <1>8, ReportAssumption
    <3> QED BY <3>1, <3>2
  <2> HIDE DEF lost, last, mine
  <2> QED BY <1>13, <2>1, <2>2 DEF Share
<1> QED BY <1>5, <1>11, <1>14

\* The report holds of the run (load.ts, stats.ts): its bounds hold however the answers it
\* did not get would have come, and with exit code 0 the database has what the run offered.
THEOREM LoadReport == Spec => []ReportTrue
<1>1. LoadInv => ReportTrue
  <2> SUFFICES ASSUME LoadInv PROVE ReportTrue
    OBVIOUS
  <2>1. ASSUME NEW i \in DOMAIN Steps, NEW p \in DOMAIN Limits
        PROVE  LET s == Samples(OfStep(Holds(Report), i)) q == Quantile(s, p) IN
                 q # <<>> => \A f \in Completions(s) :
                   LET v == Ranked(f, Rank(Cardinality(DOMAIN s), p)) IN
                   /\ q[1].atLeast <= v /\ v <= q[1].atMost
                   /\ Judge(q, Limits[p]) = "met" => v <= Limits[p]
                   /\ Judge(q, Limits[p]) = "missed" => v > Limits[p]
    BY PercentilesTrue
  <2>2. /\ \A i \in DOMAIN Steps : Step(Report, i).backlog <= Peak(Holds(Report))
        /\ LET rows == Timeline(Holds(Report)) IN
             \A k \in DOMAIN rows : rows[k] <= Peak(Holds(Report))
    BY WaitingTrue
  <2>3. ExitCode(Report, seen, planned) = 0 =>
          LET last == {a \in HoldPlan : Plan[a].step = Len(Steps)} IN
          /\ \A a \in HoldPlan : rec[a].code # "none" /\ Classify(rec[a].code) # "transport"
          /\ last # {}
          /\ ~Share(Cardinality({a \in last : stored[a] = "none"}), Cardinality(last))
    BY ExitTrue
  <2> QED BY <2>1, <2>2, <2>3 DEF ReportTrue
<1> QED BY <1>1, LoadInductive, PTL
=============================================================================
