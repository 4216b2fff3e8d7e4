--------------------------------- MODULE Api ---------------------------------
(***************************************************************************)
(* The reference API (apps/api/src): its requests, from the network to     *)
(* their answers, and its process, from listen to exit.                    *)
(*                                                                         *)
(* A request is a chain of short calls, each with a connection of its own: *)
(* the key lookup, then the reservation's venue or its token, then one     *)
(* command of the engine.  Every call may fail or meet its deadline; past  *)
(* its deadline the statement of a command may still take effect.  What a  *)
(* command is inside is the matter of Engine, Idempotency, Lifecycle and   *)
(* Configuration; here it is one step that answers as they allow.  A       *)
(* hold's reservation has the name of its idempotency key, and a key is    *)
(* sent once: retries under a key are in Idempotency.                      *)
(***************************************************************************)
EXTENDS Status, TLC

CONSTANTS
  Requests,     \* requests at the server at a time
  Res,          \* reservations, and the idempotency keys they are held under
  Venues,
  Keys,         \* API keys
  KeyOf,        \* the scope [caps, venues] of each key, those still to be created included
  FirstKeys,    \* the keys there are
  FirstRes,     \* the reservations there are
  MaxToken,     \* bounds the confirm tokens of a reservation
  Failures,     \* the codes a call may fail with
  MaxFaults,    \* bounds failures, lost connections and crashes
  MaxIdle,      \* bounds idle
  None

ASSUME ApiAssumption ==
  /\ \A k \in Keys : KeyOf[k].venues \subseteq Venues
  /\ FirstKeys \subseteq Keys /\ DOMAIN FirstRes \subseteq Res
  /\ \A i \in DOMAIN FirstRes : FirstRes[i] \in [status: Statuses, venue: Venues, token: Nat]
  /\ Failures \cap {"ok", "hold_conflict"} = {}
  /\ MaxToken \in Nat /\ MaxFaults \in Nat /\ MaxIdle \in Nat
  /\ None \notin Keys

VARIABLES
  stage,        \* the process
  again,        \* a second signal has come
  idle,         \* once it listens no more: connections at the server that carry no request
  keys,         \* api_key
  told,         \* ghost: keys whose revocation has been answered
  res,          \* reservations
  stored,       \* the outcome under each idempotency key
  req,          \* the requests
  faults

process == <<stage, again>>
server == <<process, idle>>
database == <<keys, res, stored>>
apiVars == <<stage, again, idle, keys, told, res, stored, req, faults>>

NoRequest == [pc |-> "none", call |-> None, answer |-> None, client |-> "none",
              late |-> FALSE, orphan |-> FALSE]

ApiInit ==
  /\ stage = "starting" /\ again = FALSE /\ idle = 0
  /\ keys = [k \in Keys |-> IF k \in FirstKeys THEN "live" ELSE "absent"]
  /\ told = {}
  /\ res = [i \in Res |-> IF i \in DOMAIN FirstRes THEN FirstRes[i] ELSE NoRow]
  /\ stored = [i \in Res |-> "none"]
  /\ req = [r \in Requests |-> NoRequest]
  /\ faults = 0

Fault == faults < MaxFaults /\ faults' = faults + 1

Up == stage \in {"running", "draining", "closing"}

-----------------------------------------------------------------------------
(* Routes. *)

\* What the route's middleware asks of a key.
Capability ==
  [hold |-> "hold", listHolds |-> "read", availability |-> "read", read |-> "read",
   cancel |-> "cancel", seat |-> "seat", complete |-> "seat", mint |-> "confirm",
   confirm |-> "confirm", listKeys |-> "admin", createKey |-> "admin", revokeKey |-> "admin",
   listRows |-> "admin", writeRow |-> "admin", updateUnit |-> "admin", updateCombo |-> "admin",
   createBlackout |-> "admin", updateBlackout |-> "admin"]

\* These routes name a reservation, the others a venue.
ByReservation == {"read", "cancel", "seat", "complete", "mint", "confirm"}

ByToken(c) == c.route = "confirm" /\ c.token # 0

Absent(i) == res[i] = NoRow

\* Outside the key's venues reads as absent.
InScope(k, v) == v \in KeyOf[k].venues

\* A change of status the transition table allows.
Move(i, status, a) ==
  IF <<res[i].status, status>> \in Transitions
  THEN /\ a = "ok"
       /\ res' = [res EXCEPT ![i].status = status, ![i].token = 0]
  ELSE a = "invalid_transition" /\ res' = res

Keep == UNCHANGED <<keys, stored>>

\* POST holds: booked, refused with a stored outcome, or refused by policy.
Hold(c, a) ==
  /\ \/ /\ a = "ok"
        /\ stored' = [stored EXCEPT ![c.id] = "granted"]
        /\ res' = [res EXCEPT ![c.id] = [status |-> "held", venue |-> c.venue, token |-> 0]]
     \/ /\ a = "hold_conflict"
        /\ stored' = [stored EXCEPT ![c.id] = "refused"]
        /\ res' = res
     \/ /\ a = "too_many_live_holds"
        /\ UNCHANGED <<res, stored>>
  /\ keys' = keys

Cancel(c, a) == Move(c.id, "cancelled", a) /\ Keep
Seat(c, a) == Move(c.id, "seated", a) /\ Keep
Complete(c, a) == Move(c.id, "completed", a) /\ Keep

\* With a token, the engine compares it again under the row lock.
Confirm(c, a) ==
  /\ IF ByToken(c) /\ res[c.id].token # c.token
     THEN a = "forbidden" /\ res' = res
     ELSE Move(c.id, "confirmed", a)
  /\ Keep

\* A new token replaces the one before.
Mint(c, a) ==
  /\ IF res[c.id].status = "held"
     THEN /\ res[c.id].token < MaxToken /\ a = "ok"
          /\ res' = [res EXCEPT ![c.id].token = @ + 1]
     ELSE a = "token_requires_held" /\ res' = res
  /\ Keep

\* The routes that only read.
ListHolds(c, a) == a = "ok" /\ UNCHANGED database
Availability(c, a) == a \in {"ok", "window_too_large"} /\ UNCHANGED database
Read(c, a) == a = "ok" /\ UNCHANGED database
ListKeys(c, a) == a = "ok" /\ UNCHANGED database

\* The administrators' routes, as far as they touch the database here: the rows of the
\* configuration are in Configuration.  listRows is each of the four listings, writeRow each
\* write that strands no reservation.
ListRows(c, a) == a \in {"ok", "invalid_input"} /\ UNCHANGED database
WriteRow(c, a) ==
  a \in {"ok", "invalid_input", "assignment_mismatch", "not_found"} /\ UNCHANGED database

\* A write that may strand live reservations of the venue is refused with the code, or,
\* forced, cancels them unless one has started or they are too many.  One that was seated
\* after they had been read is cancelled too (module Engine).
Strands(c, a, code) ==
  /\ \E S \in SUBSET {i \in Res : res[i].status \in LiveStatuses /\ res[i].venue = c.venue} :
       \/ /\ a = "ok" /\ (S = {} \/ c.force)
          /\ res' = [i \in Res |-> IF i \in S
                                  THEN [res[i] EXCEPT !.status = "cancelled", !.token = 0] ELSE res[i]]
       \/ /\ S # {}
          /\ a \in IF c.force THEN {"reservation_in_progress", "force_too_large"} ELSE {code}
          /\ res' = res
  /\ Keep
Rejects(a) == a \in {"not_found", "invalid_input"} /\ UNCHANGED database

UpdateUnit(c, a) ==
  Strands(c, a, "capacity_conflict") \/ Strands(c, a, "assignment_in_use") \/ Rejects(a)
UpdateCombo(c, a) == Strands(c, a, "assignment_in_use") \/ Rejects(a)
CreateBlackout(c, a) == Strands(c, a, "blackout_conflict") \/ Rejects(a)
UpdateBlackout(c, a) == Strands(c, a, "blackout_conflict") \/ Rejects(a)

\* The keys a venue's routes see: those scoped to it alone.
VenueKey(k, v) == keys[k] # "absent" /\ KeyOf[k].venues = {v}

CreateVenueKey(c, a) ==
  /\ \E k \in Keys :
       /\ keys[k] = "absent" /\ KeyOf[k].venues = {c.venue}
       /\ keys' = [keys EXCEPT ![k] = "live"]
  /\ a = "ok" /\ UNCHANGED <<res, stored>>

\* Mutant: a revocation that updates no row is a success too.
RevokeVenueKeyAnyway(c, a) ==
  /\ keys' = IF VenueKey(c.target, c.venue) THEN [keys EXCEPT ![c.target] = "revoked"] ELSE keys
  /\ a = "ok" /\ UNCHANGED <<res, stored>>

\* The first revocation is kept; a key the routes do not see is not found.
RevokeVenueKey(c, a) ==
  /\ IF VenueKey(c.target, c.venue)
     THEN a = "ok" /\ keys' = [keys EXCEPT ![c.target] = "revoked"]
     ELSE a = "not_found" /\ keys' = keys
  /\ UNCHANGED <<res, stored>>

\* The command of a call, answering a.
Command(c, a) ==
  CASE c.route = "hold" -> Hold(c, a)
    [] c.route = "cancel" -> Cancel(c, a)
    [] c.route = "seat" -> Seat(c, a)
    [] c.route = "complete" -> Complete(c, a)
    [] c.route = "confirm" -> Confirm(c, a)
    [] c.route = "mint" -> Mint(c, a)
    [] c.route = "createKey" -> CreateVenueKey(c, a)
    [] c.route = "revokeKey" -> RevokeVenueKey(c, a)
    [] c.route = "listHolds" -> ListHolds(c, a)
    [] c.route = "availability" -> Availability(c, a)
    [] c.route = "read" -> Read(c, a)
    [] c.route = "listKeys" -> ListKeys(c, a)
    [] c.route = "listRows" -> ListRows(c, a)
    [] c.route = "writeRow" -> WriteRow(c, a)
    [] c.route = "updateUnit" -> UpdateUnit(c, a)
    [] c.route = "updateCombo" -> UpdateCombo(c, a)
    [] c.route = "createBlackout" -> CreateBlackout(c, a)
    [] c.route = "updateBlackout" -> UpdateBlackout(c, a)

Answers ==
  {"ok", "hold_conflict", "too_many_live_holds", "invalid_transition", "token_requires_held",
   "window_too_large", "capacity_conflict", "assignment_in_use", "blackout_conflict",
   "reservation_in_progress", "force_too_large", "invalid_input", "assignment_mismatch", "forbidden",
   "not_found", "unauthorized"} \cup Failures

-----------------------------------------------------------------------------
(* A request. *)

At(r, l) == Up /\ req[r].pc = l
Goto(r, l) == req' = [req EXCEPT ![r].pc = l]

\* Once nobody waits for a request and no handler works on it, all that is left of it
\* is what its statement may still do.
Settled(q) ==
  IF q.client = "waiting" \/ q.pc \notin {"none", "done", "lost"} THEN q
  ELSE IF q.orphan THEN [NoRequest EXCEPT !.call = q.call, !.late = q.late, !.orphan = TRUE]
  ELSE NoRequest
Answer(r, a) == req' = [req EXCEPT ![r] = Settled([@ EXCEPT !.pc = "done", !.answer = a])]

\* The client sends a call.  It is late when the revocation of its key has already
\* been answered.
Send(r, c) ==
  req' = [req EXCEPT ![r] = [NoRequest EXCEPT !.pc = "sent", !.call = c, !.client = "waiting",
                                              !.late = c.key \in told]]

\* A listening server takes the request on a connection of whichever kind; later one may
\* still come on a connection that is open.  Without a key only a token will do.
Accept(r) ==
  LET c == req[r].call IN
  /\ Up /\ req[r].pc = "sent"
  /\ IF stage = "running" THEN idle' = idle ELSE idle > 0 /\ idle' = idle - 1
  /\ IF c.key # None THEN Goto(r, "lookup")
     ELSE IF ByToken(c) THEN Goto(r, "scope")
     ELSE Answer(r, "unauthorized")
  /\ UNCHANGED <<process, database, told, faults>>

\* findKey, the capability, which a token replaces, and for the routes of a venue its scope.
Lookup(r) ==
  LET c == req[r].call IN
  /\ At(r, "lookup")
  /\ IF keys[c.key] # "live" THEN Answer(r, "unauthorized")
     ELSE IF ~ByToken(c) /\ Capability[c.route] \notin KeyOf[c.key].caps THEN Answer(r, "forbidden")
     ELSE IF c.route \in ByReservation THEN Goto(r, "scope")
     ELSE IF InScope(c.key, c.venue) THEN Goto(r, "command")
     ELSE Answer(r, "not_found")
  /\ UNCHANGED <<server, database, told, faults>>

\* venueInScope: the reservation's venue, which the command then declares.
Scope(r) ==
  LET c == req[r].call IN
  /\ At(r, "scope") /\ ~ByToken(c)
  /\ IF Absent(c.id) \/ ~InScope(c.key, res[c.id].venue) THEN Answer(r, "not_found")
     ELSE Goto(r, "command")
  /\ UNCHANGED <<server, database, told, faults>>

\* The token is compared before the engine is involved: an absent reservation and a
\* wrong token have one refusal.
CheckToken(r) ==
  LET c == req[r].call IN
  /\ At(r, "scope") /\ ByToken(c)
  /\ IF Absent(c.id) \/ res[c.id].token # c.token THEN Answer(r, "forbidden")
     ELSE Goto(r, "command")
  /\ UNCHANGED <<server, database, told, faults>>

Run(r) ==
  /\ At(r, "command")
  /\ \E a \in Answers : Command(req[r].call, a) /\ Answer(r, a)
  /\ UNCHANGED <<server, told, faults>>

\* No connection in time, a deadline, an error: the request is answered with the
\* failure's code.  Of a command the statement may still be running, and of a connection
\* that was lost nobody knows: it may yet take effect.
Fail(r) ==
  /\ \E l \in {"lookup", "scope", "command"} : At(r, l)
  /\ Fault
  /\ \E a \in Failures, o \in BOOLEAN :
       /\ o => At(r, "command")
       /\ req' = [req EXCEPT ![r] = Settled([@ EXCEPT !.pc = "done", !.answer = a, !.orphan = o])]
  /\ UNCHANGED <<server, database, told>>

\* A statement whose request is over takes effect; it need not.
Orphan(r) ==
  /\ req[r].orphan
  /\ \E a \in Answers : Command(req[r].call, a)
  /\ req' = [req EXCEPT ![r] = Settled([@ EXCEPT !.orphan = FALSE])]
  /\ UNCHANGED <<server, told, faults>>

\* The response has arrived at a client that still waits; its connection may be kept alive,
\* by a server that listens no more too.
Deliver(r) ==
  LET c == req[r].call IN
  /\ At(r, "done") /\ req[r].client = "waiting"
  /\ req' = [req EXCEPT ![r] = Settled([@ EXCEPT !.client = "gone"])]
  /\ told' = told \cup IF c.route = "revokeKey" /\ req[r].answer = "ok" THEN {c.target} ELSE {}
  /\ idle' \in {idle} \cup IF stage = "draining" /\ idle < MaxIdle THEN {idle + 1} ELSE {}

\* The client gives up or its connection breaks; the handler carries on.
Abandon(r) ==
  /\ req[r].client = "waiting"
  /\ req' = [req EXCEPT ![r] = Settled([@ EXCEPT !.client = "gone"])]
  /\ UNCHANGED <<told, idle>>

\* A connection without a request is ended by its client, or by the server's own timeout.
HangUp == idle > 0 /\ idle' = idle - 1 /\ UNCHANGED <<process, database, told, req, faults>>

-----------------------------------------------------------------------------
(* The process. *)

\* listen: a port that cannot be bound ends it.
Listen ==
  /\ stage = "starting"
  /\ stage' \in {"running", "exit1"}
  /\ UNCHANGED <<again, idle, database, told, req, faults>>

\* The first signal: no further connections.  server.close() ends those that are kept alive
\* and idle, not those that have carried no request yet.  Each later one runs stop again.
Signal ==
  /\ \/ stage = "running" /\ stage' = "draining" /\ again' = again /\ idle' \in 0..MaxIdle
     \/ stage \in {"draining", "closing"} /\ again' = TRUE /\ stage' = stage /\ idle' \in 0..idle
  /\ UNCHANGED <<database, told, req, faults>>

AtServer(r) == req[r].pc \in {"lookup", "scope", "command", "done"}

\* Mutant: the connections without a request are not waited for.
DrainedOfRequests == \A r \in Requests : AtServer(r) => req[r].client # "waiting"

\* server.close() calls back when no connection is left, also of those that may carry
\* another request: those of clients that have gone away have ended, whatever their
\* handlers do.
Drained == idle = 0 /\ \A r \in Requests : AtServer(r) => req[r].client # "waiting"

Close ==
  /\ stage = "draining" /\ Drained
  /\ stage' = "closing"
  /\ UNCHANGED <<again, idle, database, told, req, faults>>

\* The process ends: statements may be left at the database.
End(s, left) ==
  /\ stage' = s /\ idle' = 0
  /\ req' = [r \in Requests |->
               IF AtServer(r) THEN Settled([req[r] EXCEPT !.pc = "lost", !.orphan = @ \/ r \in left])
               ELSE req[r]]
  /\ UNCHANGED <<again, database, told>>

\* The process ends amid its commands, of which each may yet take effect.
Cut(s) == End(s, {r \in Requests : req[r].pc = "command"})

\* pool.end() resolves when every connection has been returned.
Exit == stage = "closing" /\ End("exit0", {}) /\ faults' = faults

\* A second pool.end() rejects.
ExitAgain == stage = "closing" /\ again /\ Cut("exit1") /\ faults' = faults

Crash == (Up \/ stage = "starting") /\ Fault /\ Cut("crashed")

\* The sweeper or a hold expires a held reservation.
Expire(i) ==
  /\ res[i].status = "held"
  /\ res' = [res EXCEPT ![i].status = "expired", ![i].token = 0]
  /\ UNCHANGED <<server, keys, stored, told, req, faults>>

Handler(r) == Accept(r) \/ Lookup(r) \/ Scope(r) \/ CheckToken(r) \/ Run(r) \/ Fail(r) \/ Orphan(r)
Process == Listen \/ Signal \/ HangUp \/ Close \/ Exit \/ ExitAgain \/ Crash
ApiStep ==
  \/ Process
  \/ \E r \in Requests : Handler(r)
  \/ \E i \in Res : Expire(i)

-----------------------------------------------------------------------------
(* Properties. *)

\* Once a revocation has been answered, a request that is sent with the key gets no
\* further than its lookup, whatever was going on with the key before.
RevokedRefused ==
  \A r \in Requests :
    req[r].late => /\ req[r].pc \in {"sent", "lookup", "done", "lost"} /\ ~req[r].orphan
                   /\ req[r].answer \in {None, "unauthorized"} \cup Failures

\* A process that ends by signals has answered every request it had taken from a
\* client that still waits, those included that came after the signal on a connection
\* it had kept alive.
AnsweredAtExit ==
  stage \in {"exit0", "exit1"} =>
    \A r \in Requests : req[r].pc = "lost" => req[r].client # "waiting"
=============================================================================
