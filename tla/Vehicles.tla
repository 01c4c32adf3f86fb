------------------------------- MODULE Vehicles -------------------------------
(***************************************************************************)
(* A vehicle that several people share: its lock and its checkout          *)
(* sessions.  Devices write from their own copies                          *)
(* (apps/mobile-v2/src/repos/vehicles.ts): any edit of the vehicle sends   *)
(* the whole row, lock columns included; a takeover closes a session and   *)
(* opens another.  The server authorizes each entry from the row it reads  *)
(* (apps/api-v2/src/sync/guards/vehicles.ts and vehicleCheckouts.ts) and   *)
(* writes it in a later statement (sync/apply.ts).                         *)
(*                                                                         *)
(* Tanks, gauges, jobs and notes are left out, and with open_checkout,     *)
(* which the guard treats as it does the lock, every column but the lock's *)
(* two.  A missing vehicles row reads as an unlocked one.                  *)
(***************************************************************************)
EXTENDS Naturals

CONSTANTS
  Person,         \* the users, each with a device
  NoOne,
  Manager,        \* who may manage the vehicle: owner, or by tier and team
  Tier,           \* Tier[p]: ROLE_TIER of p's role
  Lead,           \* holders of manage_teams
  Creator,        \* who may create the vehicle
  Session,
  Handler,        \* requests that may be under way at once
  MaxWrites,      \* bound: entries queued
  MaxPosts,       \* bound: requests
  MaxFaults       \* bound: failures and restarts

ASSUME VehiclesAssumption ==
  /\ NoOne \notin Person
  /\ Manager \subseteq Person /\ Lead \subseteq Person /\ Creator \subseteq Person
  /\ Tier \in [Person -> Nat]
  /\ MaxWrites \in Nat /\ MaxPosts \in Nat /\ MaxFaults \in Nat

\* No lock is without its locker; a locker without a lock may be left over.
Lock     == {l \in [on : BOOLEAN, by : Person \cup {NoOne}] : l.on => l.by # NoOne}
Unlocked == [on |-> FALSE, by |-> NoOne]
Phase    == {"none", "open", "closed"}
Entry    == [id : Nat, op : {"state"}, lock : Lock] \cup
            [id : Nat, op : {"row"}, lock : {Unlocked}] \cup
            [id : Nat, op : {"open", "close"}, session : Session]

VARIABLES
  lock,           \* checkout_locked and locked_by of the server's row
  session,        \* session[s]: its server row, as to checked_in_at
  copy,           \* copy[p]: the lock in p's local row
  known,          \* known[p][s]: the session in p's local table
  opener,         \* opener[s]: who created session s
  queue,          \* queue[p]: the entries that wait, numbered in their order
  handler,        \* handler[h]: a request and how far it is, or Rest
  writes, posts, faults,  \* counters of the bounds
  ended,          \* history: sessions that somebody checked in or took over
  reopened,       \* history: sessions open because their creation was repeated
  lost            \* history: sessions of which an end was refused without a look

counts  == <<writes, posts, faults>>
local   == <<copy, known, opener>>
server  == <<lock, session>>
history == <<ended, reopened, lost>>
vars    == <<server, local, queue, handler, counts, history>>

Rest   == [pc |-> "rest"]
Active == [pc : {"guard", "write"}, by : Person, todo : SUBSET Entry,
           decided : SUBSET Entry, saw : Lock, heard : BOOLEAN]
Busy(h) == handler[h] # Rest

Init ==
  /\ lock = Unlocked
  /\ session = [s \in Session |-> "none"]
  /\ copy = [p \in Person |-> Unlocked]
  /\ known = [p \in Person |-> [s \in Session |-> "none"]]
  /\ opener = [s \in Session |-> NoOne]
  /\ queue = [p \in Person |-> {}]
  /\ handler = [h \in Handler |-> Rest]
  /\ writes = 0 /\ posts = 0 /\ faults = 0
  /\ ended = {} /\ reopened = {} /\ lost = {}

-----------------------------------------------------------------------------
(* The devices.                                                            *)

\* canLiftVehicleLock, and canChangeVehicleLock of the server.
MayLiftUnranked(p, l) == p \in Manager   \* mutant: tiers are not compared
MayLift(p, l) ==
  p \in Manager /\ (l.by \in {NoOne, p} \/ Tier[p] >= Tier[l.by])

\* isCheckoutLockedFor
LockedOut(p) == copy[p].on /\ ~MayLift(p, copy[p])

\* The entry of a write; the n-th of a transaction is numbered n - 1 further.
StateEntry(op, l)      == [id |-> writes + 1, op |-> op, lock |-> l]
SessionEntry(n, op, s) == [id |-> writes + n, op |-> op, session |-> s]

Queue(p, es, n) ==
  /\ writes + n <= MaxWrites
  /\ writes' = writes + n
  /\ queue' = [queue EXCEPT ![p] = @ \cup es]

\* ensureVehicleRow, with the vehicle's creation.
Ensure(p) ==
  /\ p \in Creator /\ writes = 0
  /\ Queue(p, {StateEntry("row", Unlocked)}, 1)
  /\ UNCHANGED <<server, local, handler, posts, faults, history>>

\* upsertVehicleState.  The lock goes along as the local row has it ...
SaveState(p, l) ==
  /\ Queue(p, {StateEntry("state", l)}, 1)
  /\ copy' = [copy EXCEPT ![p] = l]
  /\ UNCHANGED <<server, known, opener, handler, posts, faults, history>>

Edit(p) == SaveState(p, copy[p])

\* ... unless it is what is edited (resolveLockStamp).
LockOn(p)  == /\ p \in Manager /\ ~copy[p].on
              /\ SaveState(p, [on |-> TRUE, by |-> p])
LockOff(p) == /\ copy[p].on /\ MayLift(p, copy[p])
              /\ SaveState(p, Unlocked)

Fresh(s)   == opener[s] = NoOne
Others(p)  == {s \in Session : known[p][s] = "open" /\ opener[s] # p}
Mine(p)    == {s \in Session : known[p][s] = "open" /\ opener[s] = p}

\* checkOutVehicle.  The sheet may be older than a pull that brought a session.
CheckOut(p, s) ==
  /\ Fresh(s) /\ ~LockedOut(p) /\ Mine(p) = {}
  /\ Queue(p, {SessionEntry(1, "open", s)}, 1)
  /\ known' = [known EXCEPT ![p][s] = "open"]
  /\ opener' = [opener EXCEPT ![s] = p]
  /\ UNCHANGED <<server, copy, handler, posts, faults, history>>

\* checkInVehicle of the own session.
CheckIn(p, s) ==
  /\ s \in Mine(p)
  /\ Queue(p, {SessionEntry(1, "close", s)}, 1)
  /\ known' = [known EXCEPT ![p][s] = "closed"]
  /\ ended' = ended \cup {s}
  /\ UNCHANGED <<server, copy, opener, handler, posts, faults, reopened, lost>>

\* takeOverVehicle: the other's session is closed and a new one is opened.
TakeOver(p, t, s) ==
  /\ Fresh(s) /\ ~LockedOut(p) /\ t \in Others(p)
  /\ Queue(p, {SessionEntry(1, "close", t), SessionEntry(2, "open", s)}, 2)
  /\ known' = [known EXCEPT ![p][t] = "closed", ![p][s] = "open"]
  /\ opener' = [opener EXCEPT ![s] = p]
  /\ ended' = ended \cup {t}
  /\ UNCHANGED <<server, copy, handler, posts, faults, reopened, lost>>

-----------------------------------------------------------------------------
(* Requests.                                                               *)

Fault == faults < MaxFaults /\ faults' = faults + 1

Goto(h, s) == handler' = [handler EXCEPT ![h] = s]

\* A batch leaves.  If an earlier one is under way, the device has stopped
\* waiting for it, and its handler goes on.
Given(p, g) ==
  IF Busy(g) /\ handler[g].by = p
  THEN [handler[g] EXCEPT !.heard = FALSE, !.decided = {}] ELSE handler[g]
Post(p, h) ==
  /\ ~Busy(h) /\ queue[p] # {} /\ posts < MaxPosts
  /\ handler' = [g \in Handler |->
       IF g = h THEN [pc |-> "guard", by |-> p, todo |-> queue[p], decided |-> {},
                      saw |-> Unlocked, heard |-> TRUE]
                ELSE Given(p, g)]
  /\ posts' = posts + 1
  /\ UNCHANGED <<server, local, queue, writes, faults, history>>

\* The API restarts, or the answer is lost: no more comes of the request.
Dies(h) ==
  /\ Busy(h)
  /\ Goto(h, Rest)
  /\ Fault
  /\ UNCHANGED <<server, local, queue, writes, posts, history>>

\* Applied and refused entries leave the queue, the others stay.
Answer(h) ==
  /\ Busy(h) /\ handler[h].todo = {}
  /\ queue' = [queue EXCEPT ![handler[h].by] = @ \ handler[h].decided]
  /\ Goto(h, Rest)
  /\ UNCHANGED <<server, local, counts, history>>

\* A pull, which comes after the push: rows that changed since the last one
\* replace the device's.
Waits(p) == \E h \in Handler : Busy(h) /\ handler[h].by = p /\ handler[h].heard

Pull(p) ==
  /\ ~Waits(p)
  /\ copy' \in {copy, [copy EXCEPT ![p] = lock]}
  /\ \E new \in SUBSET {s \in Session : session[s] # "none"} :
       known' = [known EXCEPT ![p] =
                   [s \in Session |-> IF s \in new THEN session[s] ELSE known[p][s]]]
  /\ UNCHANGED <<server, opener, queue, handler, counts, history>>

-----------------------------------------------------------------------------
(* The server: entry after entry, first its guard and then its statement.  *)

Comes(h, e) ==
  /\ Busy(h) /\ e \in handler[h].todo
  /\ \A x \in handler[h].todo : e.id <= x.id

\* The entry is decided, applied or refused for good, and the answer says so.
Decide(h, e) ==
  Goto(h, [handler[h] EXCEPT !.pc = "guard", !.saw = Unlocked, !.todo = @ \ {e},
                             !.decided = @ \cup {x \in {e} : handler[h].heard}])
Proceed(h, l) == Goto(h, [handler[h] EXCEPT !.pc = "write", !.saw = l])

\* vehiclesGuard: a change of the lock, compared with the row as it is read.
GuardState(h, e) ==
  /\ Comes(h, e) /\ handler[h].pc = "guard" /\ e.op \in {"state", "row"}
  /\ IF e.lock.on # lock.on /\ ~MayLift(handler[h].by, lock)
     THEN Decide(h, e)
     ELSE Proceed(h, lock)
  /\ UNCHANGED <<server, local, queue, counts, history>>

\* vehicleCheckoutsGuard: the own row, a team lead, or the end of an open one.
MayEndOwn(p, s) == opener[s] = p \/ p \in Lead   \* mutant: no takeover
MayEnd(p, s) == opener[s] = p \/ p \in Lead \/ session[s] = "open"

GuardClose(h, e) ==
  /\ Comes(h, e) /\ handler[h].pc = "guard" /\ e.op = "close"
  /\ IF session[e.session] # "none" /\ MayEnd(handler[h].by, e.session)
     THEN Proceed(h, Unlocked) /\ UNCHANGED lost
     ELSE /\ Decide(h, e)
          /\ lost' = IF session[e.session] = "none" THEN lost \cup {e.session}
                                                    ELSE lost
  /\ UNCHANGED <<server, local, queue, counts, ended, reopened>>

\* The guard's query fails: the row counts as missing, and that is final.
GuardFails(h, e) ==
  /\ Comes(h, e) /\ handler[h].pc = "guard" /\ e.op # "open"
  /\ Decide(h, e)
  /\ lost' = IF e.op = "close" THEN lost \cup {e.session} ELSE lost
  /\ Fault
  /\ UNCHANGED <<server, local, queue, writes, posts, ended, reopened>>

\* The locker that is written: a new lock's is the caller, and without a
\* change of the lock it is the one that was read.  An entry of
\* ensureVehicleRow that places no lock does not name the column.
KeptLocker(h, e) == handler[h].saw.by  \* mutant: a new lock is not stamped
Locker(h, e) ==
  CASE e.lock.on /\ ~handler[h].saw.on     -> handler[h].by
    [] e.lock.on = handler[h].saw.on /\ e.op = "state" -> handler[h].saw.by
    [] e.op = "row"                        -> lock.by
    [] OTHER                               -> e.lock.by

WriteState(h, e) ==
  /\ Comes(h, e) /\ handler[h].pc = "write" /\ e.op \in {"state", "row"}
  /\ lock' = [on |-> e.lock.on, by |-> Locker(h, e)]
  /\ Decide(h, e)
  /\ UNCHANGED <<session, local, queue, counts, history>>

\* The creation of a session is an upsert: checked_in_at is NULL again.
WriteOpen(h, e) ==
  /\ Comes(h, e) /\ e.op = "open"
  /\ session' = [session EXCEPT ![e.session] = "open"]
  /\ reopened' = IF session[e.session] = "closed" THEN reopened \cup {e.session}
                                                  ELSE reopened
  /\ Decide(h, e)
  /\ UNCHANGED <<lock, local, queue, counts, ended, lost>>

WriteClose(h, e) ==
  /\ Comes(h, e) /\ handler[h].pc = "write" /\ e.op = "close"
  /\ session' = [session EXCEPT ![e.session] = "closed"]
  /\ reopened' = reopened \ {e.session}
  /\ Decide(h, e)
  /\ UNCHANGED <<lock, local, queue, counts, ended, lost>>

\* The statement fails (CONFLICT): the entry will be sent again.
WriteFails(h, e) ==
  /\ Comes(h, e) /\ (handler[h].pc = "write" \/ e.op = "open")
  /\ Goto(h, [handler[h] EXCEPT !.pc = "guard", !.saw = Unlocked, !.todo = @ \ {e}])
  /\ Fault
  /\ UNCHANGED <<server, local, queue, writes, posts, history>>

-----------------------------------------------------------------------------
User(p) ==
  \/ Ensure(p) \/ Edit(p) \/ LockOn(p) \/ LockOff(p)
  \/ \E s \in Session : \/ CheckOut(p, s) \/ CheckIn(p, s)
                        \/ \E t \in Session : TakeOver(p, t, s)

Serve(h, e) ==
  \/ GuardState(h, e) \/ GuardClose(h, e) \/ GuardFails(h, e)
  \/ WriteState(h, e) \/ WriteOpen(h, e) \/ WriteClose(h, e) \/ WriteFails(h, e)

Next ==
  \/ \E p \in Person : User(p) \/ Pull(p) \/ \E h \in Handler : Post(p, h)
  \/ \E h \in Handler : Dies(h) \/ Answer(h)
  \/ \E h \in Handler : Busy(h) /\ \E e \in handler[h].todo : Serve(h, e)

Spec == Init /\ [][Next]_vars

-----------------------------------------------------------------------------
(* Properties.                                                             *)

\* Whatever copies are old and whatever is repeated: each value is of its type,
\* which for a lock, on the server, in a copy or in a queue, says whose it is.
TypeOK ==
  /\ lock \in Lock
  /\ session \in [Session -> Phase]
  /\ copy \in [Person -> Lock]
  /\ known \in [Person -> [Session -> Phase]]
  /\ opener \in [Session -> Person \cup {NoOne}]
  /\ queue \in [Person -> SUBSET Entry]
  /\ handler \in [Handler -> {Rest} \cup Active]
  /\ writes \in 0..MaxWrites /\ posts \in 0..MaxPosts /\ faults \in 0..MaxFaults
  /\ ended \subseteq Session /\ reopened \subseteq Session /\ lost \subseteq Session

\* Who may place or lift a lock: a manager, and to lift it one of at least the
\* locker's tier or the locker himself.
Entitled(p) ==
  p \in Manager /\ (lock.on => lock.by \in {NoOne, p} \/ Tier[p] >= Tier[lock.by])

\* However old the copy an edit was made from, and however late or often it is
\* carried out: it changes the lock, or whose lock it is, only in the name of
\* somebody entitled to, unless another write came between check and statement.
LockIsGuarded ==
  [][lock' # lock =>
       \E h \in Handler :
         /\ Busy(h) /\ handler'[h] # handler[h]
         /\ handler[h].saw # lock \/ Entitled(handler[h].by)]_vars

\* Once all is delivered, a session that somebody checked in or took over is
\* closed, but for two cases: its creation was repeated after its end, or an end
\* was refused because the guard did not find (or failed to read) the session.
EndedSessionsClose ==
  (\A p \in Person : queue[p] = {}) /\ (\A h \in Handler : ~Busy(h)) =>
    \A s \in ended : session[s] = "open" => s \in reopened \cup lost
===============================================================================
