------------------------------- MODULE Notices --------------------------------
(***************************************************************************)
(* Notices and approvals of the API: the dedup table that makes one of     *)
(* several handlers the sender (apps/api-v2/src/lib/notifications.ts), the *)
(* handlers that use it after a push (sync/apply.ts, sync/batch.ts), on a  *)
(* timer (lib/notificationTimer.ts, lib/errorCanary.ts) and on a heartbeat *)
(* (notifySyncStuck), and the decision of an approval request.             *)
(*                                                                         *)
(* A task is one run of such a handler for one event key; every await ends *)
(* a step.  Tasks are fire-and-forget: nobody waits for one, an error ends *)
(* it silently, and a restart of the API ends them all.  The tables stay,  *)
(* except that every start prunes the dedup table by age: a key lives until *)
(* it is released or pruned, and may then be claimed once more.            *)
(***************************************************************************)
EXTENDS Naturals

CONSTANTS
  Level,          \* levels watched: an item's stock, a user's failed outbox
  Assign,         \* a repair given to somebody
  Watch,          \* found by a timer: an idle checkout, an hour of errors
  Record,         \* a new row that is announced: a request, a coverage
  Large,          \* stock movements over the approval threshold
  Request,        \* approval requests that get decided
  Person,         \* who can receive notices and decide
  Lead,           \* callers with manage_teams
  Requester,      \* who filed the requests
  NoKey,
  Task,           \* tasks that may be under way at once
  MaxTasks,       \* bound: tasks started
  MaxMoves,       \* bound: changes of staff, and recounts
  MaxFaults       \* bound: failed statements and restarts

Verdict  == {"approved", "rejected"}
Decision == Request \X Verdict
Once     == Assign \cup Watch \cup Record \cup Large \cup Decision
Key      == Level \cup Once

ASSUME NoticesAssumption ==
  /\ Lead \subseteq Person /\ Requester \in Person /\ NoKey \notin Key
  /\ MaxTasks \in Nat /\ MaxMoves \in Nat /\ MaxFaults \in Nat

\* Event keys of different kinds never collide (dedupKeys).
ASSUME KindAssumption ==
  /\ Level \cap Once = {}
  /\ Assign \cap (Watch \cup Record \cup Large \cup Decision) = {}
  /\ Watch \cap (Record \cup Large \cup Decision) = {}
  /\ Record \cap (Large \cup Decision) = {}
  /\ Large \cap Decision = {}

VARIABLES
  low,            \* low[i]: the level is at or below its alert
  status,         \* approval_requests.status
  filed,          \* filed[m]: requests filed for the batch of movements m
  staff,          \* recipients of the channels now: active, routed
  dedup,          \* notification_dedup
  told,           \* told[k][p]: inbox rows of p about k; of a level, since
                  \*             it last fell
  task,           \* task[t]: the handler's place, or Free
  started, moves, faults,   \* counters of the bounds
  begun,          \* history: the events that have happened
  moved,          \* history: levels that changed under or without a check
  died,           \* history: keys a failure or a restart left unserved
  unheard,        \* history: keys whose recipients came out empty
  toldBefore,     \* history: told[k][p] when k was last pruned
  filedBefore     \* history: filed[m] when m was last pruned

db      == <<low, status, filed, dedup, told>>
past    == <<toldBefore, filedBefore>>
history == <<begun, moved, died, unheard, past>>
vars    == <<db, staff, task, started, moves, faults, history>>

NoOne == "nobody"
Free  == [key |-> NoKey, pc |-> "free", by |-> NoOne, to |-> {}, open |-> FALSE]
Place == {"free", "read", "release", "preread", "guard", "write",
          "claim", "resolve", "file", "deliver"}
TaskState == [key : Key \cup {NoKey}, pc : Place, open : BOOLEAN,
              by : Person \cup {NoOne}, to : SUBSET Person]

Init ==
  /\ low = [i \in Level |-> FALSE]
  /\ status = [r \in Request |-> "open"]
  /\ filed = [m \in Large |-> 0]
  /\ staff \in SUBSET Person
  /\ dedup = {}
  /\ told = [k \in Key |-> [p \in Person |-> 0]]
  /\ task = [t \in Task |-> Free]
  /\ started = 0 /\ moves = 0 /\ faults = 0
  /\ begun = {} /\ moved = {} /\ died = {} /\ unheard = {}
  /\ toldBefore = told /\ filedBefore = filed

\* Nobody has been told of k since its key was last pruned.
Fresh(k) == \A p \in Person : told[k][p] = toldBefore[k][p]

-----------------------------------------------------------------------------
(* The order of a handler's steps, by kind of event.                       *)

\* Timers resolve the recipients before they claim; the others claim first.
First(k) == CASE k \in Level    -> "read"
              [] k \in Watch    -> "resolve"
              [] k \in Decision -> "preread"
              [] OTHER          -> "claim"

AfterClaim(k) == CASE k \in Large -> "file"
                   [] k \in Watch \cup Decision -> "deliver"
                   [] OTHER -> "resolve"

AfterResolve(k) == IF k \in Watch THEN "claim" ELSE "deliver"

Begin(k, c) ==
  [key |-> k, pc |-> First(k), by |-> c, to |-> {}, open |-> FALSE]
Goto(t, p)  == task' = [task EXCEPT ![t].pc = p]
End(t)      == task' = [task EXCEPT ![t] = Free]
Working(k)  == {t \in Task : task[t].key = k}

-----------------------------------------------------------------------------
(* Events.                                                                 *)

Start(t, k, c) ==
  /\ task[t] = Free /\ started < MaxTasks
  /\ task' = [task EXCEPT ![t] = Begin(k, c)]
  /\ started' = started + 1
  /\ begun' = begun \cup {k}
  /\ UNCHANGED <<status, filed, staff, dedup, moves, faults, died, filedBefore>>

\* Level i becomes l.  With a fall the count of its notices starts anew.
Become(i, l) ==
  /\ low' = [low EXCEPT ![i] = l]
  /\ IF l /\ ~low[i]
     THEN /\ told' = [told EXCEPT ![i] = [p \in Person |-> 0]]
          /\ toldBefore' = [toldBefore EXCEPT ![i] = [p \in Person |-> 0]]
          /\ unheard' = unheard \ {i}
     ELSE UNCHANGED <<told, toldBefore, unheard>>

\* A check that starts alone puts right what earlier changes left: it finds
\* the level above its alert, or low and its key as free as its notice is due.
Settles(i, l) ==
  Working(i) = {} /\ (l => i \notin dedup /\ (low[i] => Fresh(i)))

\* A batch with an ADJUST of the item, or a heartbeat: the level moves or
\* stays, and is checked afterwards.
Touch(t, i) ==
  /\ Start(t, i, NoOne)
  /\ \E l \in BOOLEAN :
       /\ Become(i, l)
       /\ moved' = IF Settles(i, l) THEN moved \ {i}
                   ELSE IF l # low[i] /\ Working(i) # {} THEN moved \cup {i} ELSE moved

\* A recount writes the item's quantity itself, or its alert is edited: the
\* push lists no movement of it, and no check follows.
Recount(i) ==
  /\ moves < MaxMoves
  /\ Become(i, ~low[i])
  /\ moved' = moved \cup {i} /\ moves' = moves + 1
  /\ UNCHANGED <<status, filed, staff, dedup, task, started, faults, begun, died,
                 filedBefore>>

\* An event that is due once happens, or its handler runs again: the push is
\* retried, the timer finds the session in its next window too.
Occur(t, k) ==
  /\ k \in Once \ Decision
  /\ Start(t, k, NoOne)
  /\ UNCHANGED <<low, told, toldBefore, unheard, moved>>

\* An approver, whose list may be stale, decides a request.
Decide(t, d, c) ==
  /\ Start(t, d, c)
  /\ UNCHANGED <<low, told, toldBefore, unheard, moved>>

\* People join, leave, and are routed notices or not.
Restaff(S) ==
  /\ S # staff /\ moves < MaxMoves
  /\ staff' = S /\ moves' = moves + 1
  /\ UNCHANGED <<db, task, started, faults, history>>

-----------------------------------------------------------------------------
(* The steps of a task.                                                    *)

\* notifyLowStock, notifySyncStuck: the level decides between claim and
\* release.
Read(t) ==
  /\ task[t].pc = "read"
  /\ Goto(t, IF low[task[t].key] THEN "claim" ELSE "release")
  /\ UNCHANGED <<db, staff, started, moves, faults, history>>

\* releaseEvent.
Forget(t) ==                          \* mutant: nothing is re-armed
  /\ task[t].pc = "release" /\ End(t)
  /\ UNCHANGED <<db, staff, started, moves, faults, history>>
Release(t) ==
  /\ task[t].pc = "release"
  /\ dedup' = dedup \ {task[t].key}
  /\ End(t)
  /\ UNCHANGED <<low, status, filed, told, staff, started, moves, faults, history>>

\* claimEvent: the row is inserted by one of the contenders.
AllWin(k) == TRUE                     \* mutant: the answer's rows are not counted
Wins(k) == k \notin dedup

ClaimEvent(t) ==
  /\ task[t].pc = "claim"
  /\ LET k == task[t].key IN
     IF Wins(k) THEN dedup' = dedup \cup {k} /\ Goto(t, AfterClaim(k))
                ELSE UNCHANGED dedup /\ End(t)
  /\ UNCHANGED <<low, status, filed, told, staff, started, moves, faults, history>>

\* What a handler that finds no recipients does with the key it has claimed.
KeepKey(t, k)   == End(t)              \* mutant: the key is never given back
SendAnyway(t, k) == Goto(t, "deliver") \* mutant: the list is not looked at
NobodyHome(t, k) ==
  IF k \in Assign THEN Goto(t, "release") ELSE End(t)

\* resolveRecipients.
Resolve(t) ==
  /\ task[t].pc = "resolve"
  /\ LET k == task[t].key IN
     IF staff # {}
     THEN /\ task' = [task EXCEPT ![t].pc = AfterResolve(k), ![t].to = staff]
          /\ UNCHANGED unheard
     ELSE NobodyHome(t, k) /\ unheard' = unheard \cup {k}
  /\ UNCHANGED <<db, staff, started, moves, faults, begun, moved, died, past>>

\* The threshold auto-flag files the review request.  The new request's own
\* key is fresh and always won.
FileRequest(t) ==
  /\ task[t].pc = "file"
  /\ filed' = [filed EXCEPT ![task[t].key] = @ + 1]
  /\ Goto(t, "resolve")
  /\ UNCHANGED <<low, status, dedup, told, staff, started, moves, faults, history>>

\* deliver: one inbox row after the other.
DeliverAndFree(t) ==                  \* mutant: the key is freed when all is sent
  /\ task[t].pc = "deliver"
  /\ \E p \in task[t].to :
       /\ told' = [told EXCEPT ![task[t].key][p] = @ + 1]
       /\ IF task[t].to = {p} THEN Goto(t, "release")
          ELSE task' = [task EXCEPT ![t].to = @ \ {p}]
  /\ UNCHANGED <<low, status, filed, dedup, staff, started, moves, faults, history>>
Deliver(t) ==
  /\ task[t].pc = "deliver"
  /\ \E p \in task[t].to :
       /\ told' = [told EXCEPT ![task[t].key][p] = @ + 1]
       /\ IF task[t].to = {p} THEN End(t)
          ELSE task' = [task EXCEPT ![t].to = @ \ {p}]
  /\ UNCHANGED <<low, status, filed, dedup, staff, started, moves, faults, history>>

\* The decision of a request (applyEntry, UPDATE of approval_requests): the
\* status before the write is read ...
Preread(t) ==
  /\ task[t].pc = "preread"
  /\ task' = [task EXCEPT ![t].pc = "guard",
                          ![t].open = status[task[t].key[1]] = "open"]
  /\ UNCHANGED <<db, staff, started, moves, faults, history>>

\* ... only an approver may go on ...
Guard(t) ==
  /\ task[t].pc = "guard"
  /\ IF task[t].by \in staff \cup Lead THEN Goto(t, "write") ELSE End(t)
  /\ UNCHANGED <<db, staff, started, moves, faults, history>>

\* shouldNotifyDecision.
TellsApproved(t) ==                   \* mutant: only an approval is told
  task[t].open /\ task[t].key[2] = "approved"
Tells(t) == task[t].open

\* ... and after the write the requester is told of a first decision.
Write(t) ==
  /\ task[t].pc = "write"
  /\ status' = [status EXCEPT ![task[t].key[1]] = task[t].key[2]]
  /\ IF Tells(t)
     THEN task' = [task EXCEPT ![t].pc = "claim", ![t].to = {Requester}]
     ELSE End(t)
  /\ UNCHANGED <<low, filed, dedup, told, staff, started, moves, faults, history>>

-----------------------------------------------------------------------------
(* Faults.                                                                 *)

\* A statement fails: the task's catch swallows it.  Only the read of the
\* status before a decision is not needed for the write that follows.
Fails(t) ==
  /\ task[t] # Free /\ faults < MaxFaults
  /\ IF task[t].pc = "preread" THEN Goto(t, "write") ELSE End(t)
  /\ faults' = faults + 1
  /\ died' = died \cup {task[t].key}
  /\ UNCHANGED <<db, staff, started, moves, begun, moved, unheard, past>>

\* A task that has not come past its claim can be taken up from the start.
Early(t) ==
  LET k == task[t].key IN
  \/ task[t].pc \in {"free", "read", "preread", "guard", "write"}
  \/ task[t].pc = "claim" /\ k \notin Decision
  \/ task[t].pc = "resolve" /\ k \in Watch

\* A start of the API prunes the keys that are more than thirty days old.
Prune(old) ==
  /\ dedup' = dedup \ old
  /\ toldBefore' = [k \in Key |-> IF k \in old THEN told[k] ELSE toldBefore[k]]
  /\ filedBefore' = [m \in Large |-> IF m \in old THEN filed[m] ELSE filedBefore[m]]

\* The API restarts.  A device that has no answer yet sends its push again.
Restart ==
  /\ faults < MaxFaults
  /\ \E old \in SUBSET dedup : Prune(old)
  /\ \E again \in SUBSET {t \in Task : task[t] # Free} :
       /\ task' = [t \in Task |-> IF t \in again
                                  THEN Begin(task[t].key, task[t].by) ELSE Free]
       /\ died' = died \cup {task[t].key : t \in {s \in Task :
                    task[s] # Free /\ ~(s \in again /\ Early(s))}}
  /\ faults' = faults + 1
  /\ UNCHANGED <<low, status, filed, told, staff, started, moves, begun, moved, unheard>>

-----------------------------------------------------------------------------
Step(t) == \/ Read(t) \/ Release(t) \/ ClaimEvent(t) \/ Resolve(t)
           \/ FileRequest(t) \/ Deliver(t)
           \/ Preread(t) \/ Guard(t) \/ Write(t)

Next ==
  \/ \E t \in Task : \/ Step(t) \/ Fails(t)
                     \/ \E i \in Level : Touch(t, i)
                     \/ \E k \in Once \ Decision : Occur(t, k)
                     \/ \E d \in Decision, c \in Person : Decide(t, d, c)
  \/ \E S \in SUBSET Person : Restaff(S)
  \/ \E i \in Level : Recount(i)
  \/ Restart

Spec == Init /\ [][Next]_vars

-----------------------------------------------------------------------------
(* Properties.                                                             *)

TypeOK ==
  /\ low \in [Level -> BOOLEAN]
  /\ status \in [Request -> {"open"} \cup Verdict]
  /\ filed \in [Large -> Nat]
  /\ staff \subseteq Person
  /\ dedup \subseteq Key /\ begun \subseteq Key /\ moved \subseteq Level
  /\ died \subseteq Key /\ unheard \subseteq Key
  /\ told \in [Key -> [Person -> Nat]] /\ toldBefore \in [Key -> [Person -> Nat]]
  /\ filedBefore \in [Large -> Nat]
  /\ task \in [Task -> TaskState]
  /\ \A t \in Task : task[t].pc = "deliver" => task[t].to # {}
  /\ started \in 0..MaxTasks /\ moves \in 0..MaxMoves /\ faults \in 0..MaxFaults

NobodyTold(k) == \A p \in Person : told[k][p] = 0
Quiet(k)      == Working(k) = {}

\* For the events that are due once, the table makes one task the teller: as
\* long as its key is not pruned nobody is told twice of the same event by
\* retries, late handlers, timers and restarts in any order, and a key is only
\* given back before anybody was told.
Teller == INSTANCE OneTeller WITH
            Notice <- Once, held <- dedup \cap Once,
            heard <- [k \in Once |-> [p \in Person |-> told[k][p] - toldBefore[k][p]]]
TellsOnce == Teller!TellerSpec

\* No key is left claimed with nothing sent unless a failure cut its task
\* short: an assignment gives its key back, the timers claim only when there
\* is somebody to tell.  Where the code claims first, nobody was there.
NoBurnedKey ==
  \A k \in dedup \cap (Once \ Decision) :
    Quiet(k) /\ Fresh(k) =>
      k \in died \/ (k \in Record \cup Large /\ k \in unheard)

\* Every large movement gets its review request, unless a failure cut the
\* handler short, and however often its push is retried it gets no second one
\* before its key is pruned.
MovementFlagged ==
  \A m \in Large :
    /\ filed[m] <= filedBefore[m] + 1
    /\ m \in begun /\ Quiet(m) /\ m \notin died => filed[m] > 0

\* While an item's stock is low and no check of it is under way, somebody has
\* been told since it fell (or nobody was there to tell), unless the level
\* changed between a check's read and its claim or release, or without a
\* check, and no check has put that right.
LowStockTold ==
  \A i \in Level \ moved :
    low[i] /\ Quiet(i) /\ i \notin died /\ i \notin unheard => ~NobodyTold(i)

\* Nobody is told twice of the same low level, however often it is checked,
\* before its key is pruned.
OneNoticePerFall ==
  \A i \in Level \ moved, p \in Person :
    low[i] => told[i][p] <= toldBefore[i][p] + 1

\* The requester has been told of d.
Heard(d) == d \in died \/ ~NobodyTold(d)

Decided(r) == /\ status[r] # "open"
              /\ \A v \in Verdict : Quiet(<<r, v>>)

\* A request on which the approvers agree: its requester has been told of the
\* decision, however many of them sent it.
RequesterKnows ==
  \A r \in Request :
    Decided(r) /\ {d \in begun \cap Decision : d[1] = r} = {<<r, status[r]>>}
      => Heard(<<r, status[r]>>)
===============================================================================
