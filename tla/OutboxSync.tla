------------------------------ MODULE OutboxSync ------------------------------
(***************************************************************************)
(* The write path of one device: the SQLite outbox table                   *)
(* (packages/core/src/sync/outbox.ts), the pushers of the sync engine that *)
(* drain it over HTTP (packages/core/src/sync/engine.ts), and the server's *)
(* POST /sync/push with the two idempotent writers it applies entries      *)
(* with: the signed stock delta deduplicated through processed_outbox and  *)
(* the append-only activity_log (apps/api-v2/src/sync/apply.ts).           *)
(*                                                                         *)
(* Every await is a point where another actor runs.  The network loses     *)
(* requests and responses, a request the device stopped waiting for may    *)
(* still be carried out, the app and the API may die at any point.         *)
(***************************************************************************)
EXTENDS Integers, FiniteSets

CONSTANTS
  NumEntries,        \* bound: how many writes the device queues
  LogEntry,          \* the entries of table activity_log; the rest are ADJUSTs
  Delta,             \* Delta[e]: signed quantity of an ADJUST
  Stock0,            \* quantity of the one (item, location) cell at the start
  MaxAttempts,       \* MAX_OUTBOX_ATTEMPTS
  BatchLimit,        \* the LIMIT of getPendingOutbox
  Drainer,           \* concurrent sync cycles (60s tick, reconnect, syncNow)
  LogPusher,         \* the pushPendingLogs caller
  Slot,              \* bound: requests in flight at once
  NoSlot,            \* a pusher that waits for no request
  RetryWindowHolds   \* TRUE: nothing the device may still send is pruned

\* An entry is named by its rank in created_at order.
Entry  == 1..NumEntries
Pusher == Drainer \cup {LogPusher}

ASSUME SizesAssumption ==
  /\ NumEntries \in Nat
  /\ MaxAttempts \in Nat \ {0}
  /\ BatchLimit \in Nat \ {0}
  /\ Stock0 \in Nat
ASSUME EntriesAssumption ==
  /\ LogEntry \subseteq Entry
  /\ Delta \in [Entry -> Int]
ASSUME ActorsAssumption ==
  /\ LogPusher \notin Drainer
  /\ NoSlot \notin Slot
  /\ RetryWindowHolds \in BOOLEAN

VARIABLES
  \* the device's SQLite file
  issued,            \* how many entries were appended so far
  outbox,            \* the rows present
  attempts,          \* attempts[e]
  synced,            \* the rows with synced_at set
  denied,            \* the rows with denied = 1
  \* the app's memory
  running,           \* the engine's drain lock
  pc,                \* pc[p]: where pusher p stands
  batch,             \* batch[p]: the rows p posted
  slot,              \* slot[p]: the request p waits for
  \* the API process: requests in flight
  live,              \* the slots in use
  todo,              \* todo[s]: entries not yet decided
  okd,               \* okd[s]: entries answered ok
  perm,              \* perm[s]: conflicts the device will read as permanent
  trans,             \* trans[s]: conflicts it will read as transient
  \* Postgres
  processed,         \* processed_outbox
  logRows,           \* ids in activity_log
  stock,             \* quantity of the cell
  applied,           \* history: how often e changed data
  forgiven           \* history: the shortfalls the clamp at zero has swallowed

deviceDb  == <<issued, outbox, attempts, synced, denied>>
appMemory == <<running, pc, batch, slot>>
requests  == <<live, todo, okd, perm, trans>>
postgres  == <<processed, logRows, stock, applied, forgiven>>
vars      == <<deviceDb, appMemory, requests, postgres>>

DeviceTyped ==
  /\ issued \in 0..NumEntries
  /\ outbox \subseteq 1..issued
  /\ attempts \in [Entry -> Nat]
  /\ synced \subseteq outbox
  /\ denied \subseteq outbox

MemoryTyped ==
  /\ running \in BOOLEAN
  /\ pc \in [Pusher -> {"idle", "auth", "select", "sent"}]
  /\ batch \in [Pusher -> SUBSET Entry]
  /\ slot \in [Pusher -> Slot \cup {NoSlot}]

RequestsTyped ==
  /\ live \subseteq Slot
  /\ todo \in [Slot -> SUBSET Entry]
  /\ okd \in [Slot -> SUBSET Entry]
  /\ perm \in [Slot -> SUBSET Entry]
  /\ trans \in [Slot -> SUBSET Entry]

PostgresTyped ==
  /\ processed \subseteq Entry
  /\ logRows \subseteq Entry
  /\ stock \in Nat
  /\ applied \in [Entry -> Nat]
  /\ forgiven \in Nat

TypeOK == DeviceTyped /\ MemoryTyped /\ RequestsTyped /\ PostgresTyped

Init ==
  /\ issued = 0
  /\ outbox = {} /\ synced = {} /\ denied = {}
  /\ attempts = [e \in Entry |-> 0]
  /\ running = FALSE
  /\ pc = [p \in Pusher |-> "idle"]
  /\ batch = [p \in Pusher |-> {}]
  /\ slot = [p \in Pusher |-> NoSlot]
  /\ live = {}
  /\ todo = [s \in Slot |-> {}]
  /\ okd = [s \in Slot |-> {}]
  /\ perm = [s \in Slot |-> {}]
  /\ trans = [s \in Slot |-> {}]
  /\ processed = {} /\ logRows = {}
  /\ stock = Stock0
  /\ applied = [e \in Entry |-> 0]
  /\ forgiven = 0

-------------------------------------------------------------------------------
(* Queries of the outbox table. *)

\* synced_at IS NULL AND denied = 0
Pending == outbox \ (synced \cup denied)

\* The failed bucket: still pending, retries exhausted.
Failed == {e \in Pending : attempts[e] >= MaxAttempts}
Active == {e \in Pending : attempts[e] < MaxAttempts}

\* ORDER BY created_at ASC LIMIT n
Oldest(S, n) == {e \in S : Cardinality({x \in S : x < e}) < n}

\* What pusher p posts: the LIMIT is applied by the query, the attempts
\* filter afterwards in the engine.
BatchOf(p) ==
  LET rows == IF p = LogPusher THEN Pending \cap LogEntry ELSE Pending
  IN  {e \in Oldest(rows, BatchLimit) : attempts[e] < MaxAttempts}

-------------------------------------------------------------------------------
(* Local writes and the user's operations on the outbox. *)

AppendOutbox ==
  /\ issued < NumEntries
  /\ issued' = issued + 1
  /\ outbox' = outbox \cup {issued + 1}
  /\ UNCHANGED <<attempts, synced, denied, appMemory, requests, postgres>>

\* attempts back to 0 for the failed rows of S; the other columns keep.
Rearmed(S) == [e \in Entry |-> IF e \in Failed \cap S THEN 0 ELSE attempts[e]]

RetryResurrects ==                   \* mutant: denied rows are re-armed too
  /\ Failed # {}
  /\ attempts' = Rearmed(Entry)
  /\ denied' = {}
  /\ UNCHANGED <<issued, outbox, synced, appMemory, requests, postgres>>
RetryFailedOutbox ==
  /\ Failed # {}
  /\ attempts' = Rearmed(Entry)
  /\ UNCHANGED <<issued, outbox, synced, denied, appMemory, requests, postgres>>

\* DELETE FROM outbox for the rows of D.
DropRows(D) ==
  /\ outbox' = outbox \ D
  /\ synced' = synced \ D
  /\ denied' = denied \ D
  /\ UNCHANGED <<issued, attempts, appMemory, requests, postgres>>

DiscardDeniedEntry(e) ==
  /\ e \in denied
  /\ DropRows({e})

DiscardFailedOutbox ==
  /\ Failed # {}
  /\ DropRows({e \in outbox \ synced : attempts[e] >= MaxAttempts})

\* Its caller has pushed the audit trail first (the stated precondition).
DiscardPendingOutbox ==
  /\ Pending # {}
  /\ Pending \cap LogEntry = {}
  /\ DropRows(outbox \ synced)

-------------------------------------------------------------------------------
(* The engine's pushers. *)

\* if (running) return: tested and taken before the first await.
LockIgnored == running \in BOOLEAN    \* mutant: no lock
LockFree == ~running

StartDrain(p) ==
  /\ p \in Drainer
  /\ pc[p] = "idle"
  /\ LockFree
  /\ running' = TRUE
  /\ pc' = [pc EXCEPT ![p] = "auth"]
  /\ UNCHANGED <<deviceDb, batch, slot, requests, postgres>>

\* pushPendingLogs: re-arms the dead log rows and takes no lock.
StartLogPush ==
  /\ pc[LogPusher] = "idle"
  /\ attempts' = Rearmed(LogEntry)
  /\ pc' = [pc EXCEPT ![LogPusher] = "auth"]
  /\ UNCHANGED <<issued, outbox, synced, denied, running, batch, slot,
                 requests, postgres>>

\* The pusher returns; a drain releases the lock in its finally block.
ReturnLocked(p, next) ==              \* mutant: no finally block
  /\ pc' = [pc EXCEPT ![p] = next]
  /\ batch' = [batch EXCEPT ![p] = {}]
  /\ slot' = [slot EXCEPT ![p] = NoSlot]
  /\ UNCHANGED running
Return(p, next) ==
  /\ pc' = [pc EXCEPT ![p] = next]
  /\ batch' = [batch EXCEPT ![p] = {}]
  /\ slot' = [slot EXCEPT ![p] = NoSlot]
  /\ running' = IF p \in Drainer THEN FALSE ELSE running

\* getValidJwt found no session.
NoSession(p) ==
  /\ pc[p] = "auth"
  /\ Return(p, "idle")
  /\ UNCHANGED <<deviceDb, requests, postgres>>

NothingToPush(p) ==
  /\ pc[p] \in {"auth", "select"}
  /\ BatchOf(p) = {}
  /\ Return(p, "idle")
  /\ UNCHANGED <<deviceDb, requests, postgres>>

\* The rows are read and the request leaves in one synchronous stretch.
PostBatch(p, s) ==
  /\ pc[p] \in {"auth", "select"}
  /\ BatchOf(p) # {}
  /\ s \in Slot \ live
  /\ pc' = [pc EXCEPT ![p] = "sent"]
  /\ batch' = [batch EXCEPT ![p] = BatchOf(p)]
  /\ slot' = [slot EXCEPT ![p] = s]
  /\ live' = live \cup {s}
  /\ todo' = [todo EXCEPT ![s] = BatchOf(p)]
  /\ okd' = [okd EXCEPT ![s] = {}]
  /\ perm' = [perm EXCEPT ![s] = {}]
  /\ trans' = [trans EXCEPT ![s] = {}]
  /\ UNCHANGED <<deviceDb, running, postgres>>

\* Request s is over: nothing of it is left.
Free(s) ==
  /\ live' = live \ {s}
  /\ todo' = [todo EXCEPT ![s] = {}]
  /\ okd' = [okd EXCEPT ![s] = {}]
  /\ perm' = [perm EXCEPT ![s] = {}]
  /\ trans' = [trans EXCEPT ![s] = {}]

\* One attempt more for the rows of S that are still there.
Attempted(S) == [e \in Entry |-> IF e \in S \cap outbox THEN attempts[e] + 1
                                 ELSE attempts[e]]

\* The rows the answer reports ok.
WholeBatch(p) == batch[p]             \* mutant: a 200 accepts every row
Accepted(p) == okd[slot[p]]

\* The whole answer is in: ok rows are marked, permanent conflicts denied,
\* transient ones counted.  A log push goes on while rows are accepted.
ApplyVerdict(p) ==
  LET s == slot[p] IN
  /\ pc[p] = "sent"
  /\ s \in live
  /\ todo[s] = {}
  /\ synced' = synced \cup (Accepted(p) \cap outbox)
  /\ denied' = denied \cup (perm[s] \cap outbox)
  /\ attempts' = Attempted(trans[s])
  /\ Return(p, IF p = LogPusher /\ Accepted(p) # {} THEN "select" ELSE "idle")
  /\ Free(s)
  /\ UNCHANGED <<issued, outbox, postgres>>

\* A non-2xx answer: one attempt for every row posted.  The handler behind a
\* proxy that timed out may still be at work.
HttpError(p) ==
  /\ pc[p] = "sent"
  /\ attempts' = Attempted(batch[p])
  /\ Return(p, "idle")
  /\ UNCHANGED <<issued, outbox, synced, denied, requests, postgres>>

\* fetch throws, or its body does not parse: nothing is counted.
ResponseLost(p) ==
  /\ pc[p] = "sent"
  /\ slot[p] # NoSlot
  /\ Return(p, "idle")
  /\ UNCHANGED <<deviceDb, requests, postgres>>

\* fetch throws because the API went away with the request.
RequestDied(p) ==
  /\ pc[p] = "sent"
  /\ slot[p] = NoSlot
  /\ Return(p, "idle")
  /\ UNCHANGED <<deviceDb, requests, postgres>>

ClearMemory ==
  /\ running' = FALSE
  /\ pc' = [p \in Pusher |-> "idle"]
  /\ batch' = [p \in Pusher |-> {}]
  /\ slot' = [p \in Pusher |-> NoSlot]

\* The OS kills the app.
AppKilled ==
  /\ ClearMemory
  /\ UNCHANGED <<deviceDb, requests, postgres>>

\* The app dies while a verdict is written row by row: markOutboxSynced is
\* one statement, the conflicts follow in order up to, not including, k.
AppKilledInVerdict(p, k) ==
  LET s == slot[p] IN
  /\ pc[p] = "sent"
  /\ s \in live
  /\ todo[s] = {}
  /\ synced' = synced \cup (Accepted(p) \cap outbox)
  /\ denied' = denied \cup {e \in perm[s] \cap outbox : e < k}
  /\ attempts' = Attempted({e \in trans[s] : e < k})
  /\ ClearMemory
  /\ Free(s)
  /\ UNCHANGED <<issued, outbox, postgres>>

-------------------------------------------------------------------------------
(* The server: POST /sync/push decides the entries of a request in order, *)
(* one statement each; other requests run in between.                     *)

\* e is the next entry of request s.
NextOf(s, e) ==
  /\ s \in live
  /\ e \in todo[s]
  /\ \A x \in todo[s] : e <= x

\* GREATEST(0, quantity + delta)
Unclamped(n) == n                     \* mutant: the sum alone
AtLeastZero(n) == IF n < 0 THEN 0 ELSE n

\* How far n is below zero.
Shortfall(n) == IF n < 0 THEN -n ELSE 0

\* The server has not recorded e: the dedup CTE of the ADJUST inserts its id,
\* the log INSERT runs WHERE NOT EXISTS on the row id.
NoDedup(e) == e \in LogEntry => e \notin logRows   \* mutant: ADJUST always counts
LogTwice(e) == e \notin processed     \* mutant: the log row is always inserted
Unseen(e) == IF e \in LogEntry THEN e \notin logRows ELSE e \notin processed

ApplyAdjust(s, e) ==
  /\ NextOf(s, e)
  /\ e \notin LogEntry
  /\ processed' = processed \cup {e}
  /\ IF Unseen(e)
     THEN /\ stock' = AtLeastZero(stock + Delta[e])
          /\ applied' = [applied EXCEPT ![e] = @ + 1]
          /\ forgiven' = forgiven + Shortfall(stock + Delta[e])
     ELSE UNCHANGED <<stock, applied, forgiven>>
  /\ todo' = [todo EXCEPT ![s] = @ \ {e}]
  /\ okd' = [okd EXCEPT ![s] = @ \cup {e}]
  /\ UNCHANGED <<deviceDb, appMemory, live, perm, trans, logRows>>

ApplyLog(s, e) ==
  /\ NextOf(s, e)
  /\ e \in LogEntry
  /\ logRows' = logRows \cup {e}
  /\ applied' = [applied EXCEPT ![e] = IF Unseen(e) THEN @ + 1 ELSE @]
  /\ todo' = [todo EXCEPT ![s] = @ \ {e}]
  /\ okd' = [okd EXCEPT ![s] = @ \cup {e}]
  /\ UNCHANGED <<deviceDb, appMemory, live, perm, trans, processed, stock, forgiven>>

\* Refused for good: FORBIDDEN, NOT_ALLOWED or VALIDATION.
RejectPermanently(s, e) ==
  /\ NextOf(s, e)
  /\ todo' = [todo EXCEPT ![s] = @ \ {e}]
  /\ perm' = [perm EXCEPT ![s] = @ \cup {e}]
  /\ UNCHANGED <<deviceDb, appMemory, live, okd, trans, postgres>>

\* Refused for now: MAINTENANCE or CONFLICT.
RejectForNow(s, e) ==
  /\ NextOf(s, e)
  /\ todo' = [todo EXCEPT ![s] = @ \ {e}]
  /\ trans' = [trans EXCEPT ![s] = @ \cup {e}]
  /\ UNCHANGED <<deviceDb, appMemory, live, okd, perm, postgres>>

\* A request nobody waits for any more ends.
OrphanEnds(s) ==
  /\ s \in live
  /\ todo[s] = {}
  /\ \A p \in Pusher : slot[p] # s
  /\ Free(s)
  /\ UNCHANGED <<deviceDb, appMemory, postgres>>

\* The rows the device may still send: pending ones, however old.
Resendable == Pending

\* The API restarts: its requests die with it, and its boot drops the
\* processed_outbox rows older than seven days.
ApiRestart(old) ==
  /\ old \subseteq processed
  /\ RetryWindowHolds => old \cap Resendable = {}
  /\ processed' = processed \ old
  /\ live' = {}
  /\ todo' = [s \in Slot |-> {}]
  /\ okd' = [s \in Slot |-> {}]
  /\ perm' = [s \in Slot |-> {}]
  /\ trans' = [s \in Slot |-> {}]
  /\ slot' = [p \in Pusher |-> NoSlot]
  /\ UNCHANGED <<deviceDb, running, pc, batch, logRows, stock, applied, forgiven>>

-------------------------------------------------------------------------------
(* The whole system. *)

Device ==
  \/ AppendOutbox
  \/ RetryFailedOutbox
  \/ \E e \in Entry : DiscardDeniedEntry(e)
  \/ DiscardFailedOutbox
  \/ DiscardPendingOutbox

Push(p) ==
  \/ StartDrain(p)
  \/ NoSession(p)
  \/ NothingToPush(p)
  \/ \E s \in Slot : PostBatch(p, s)
  \/ ApplyVerdict(p)
  \/ HttpError(p)
  \/ ResponseLost(p)
  \/ RequestDied(p)
  \/ \E k \in Entry : AppKilledInVerdict(p, k)

Server(s) ==
  \/ \E e \in Entry :
       \/ ApplyAdjust(s, e)
       \/ ApplyLog(s, e)
       \/ RejectPermanently(s, e)
       \/ RejectForNow(s, e)
  \/ OrphanEnds(s)

Next ==
  \/ Device
  \/ StartLogPush
  \/ \E p \in Pusher : Push(p)
  \/ AppKilled
  \/ \E s \in Slot : Server(s)
  \/ \E old \in SUBSET Entry : ApiRestart(old)

Spec == Init /\ [][Next]_vars

(***************************************************************************)
(* The 60 second interval starts a drain whenever none runs, the event     *)
(* loop goes on with whatever it awaits once that is there, the API works  *)
(* through a request it has, and a fetch whose request died fails.  No     *)
(* fairness for the user, for the log pusher or for the faults.            *)
(***************************************************************************)
Fairness ==
  /\ WF_vars(\E p \in Drainer : StartDrain(p))
  /\ \A p \in Pusher :
       /\ WF_vars(NothingToPush(p) \/ \E s \in Slot : PostBatch(p, s))
       /\ WF_vars(ApplyVerdict(p))
       /\ WF_vars(RequestDied(p))
  /\ \A s \in Slot :
       /\ WF_vars(\E e \in Entry : \/ ApplyAdjust(s, e)
                                   \/ ApplyLog(s, e)
                                   \/ RejectPermanently(s, e))
       /\ WF_vars(OrphanEnds(s))

FairSpec == Spec /\ Fairness

-------------------------------------------------------------------------------
(* Safety. *)

\* A write changes the server's data at most once, however often lost
\* responses, app deaths and overlapping pushers make the device send it
\* (apply.ts: "the delta is applied exactly once").
AppliedAtMostOnce == \A e \in Entry : applied[e] <= 1

\* A row leaves the queue as delivered only if its effect is in Postgres: the
\* device never believes a write saved that a lost, failed or refused request
\* carried.
SyncedWasApplied == \A e \in synced : applied[e] >= 1

\* The drain lock keeps two sync cycles from having the same rows in flight,
\* so no ADJUST is charged two attempts for one outage: the retry budget is
\* exact.  pushPendingLogs takes no lock, and a log row can overrun it by one.
RetryBudget ==
  \A e \in Entry :
    attempts[e] <= IF e \in LogEntry THEN MaxAttempts + 1 ELSE MaxAttempts

SumOfDeltas[n \in Nat] ==
  IF n = 0 THEN 0
  ELSE SumOfDeltas[n - 1] + IF n \in LogEntry THEN 0 ELSE Delta[n]

\* The stock that moves out is the stock that comes back: once every movement
\* is marked delivered the server's cell is off by exactly the sum of the
\* deltas, whatever was retried and reordered on the way, and by the shortfalls
\* that the clamp at zero swallowed.  In the wrong order a movement can fall
\* short that would not have in the order in which the movements were made.
NetStockWhenDrained ==
  (issued = NumEntries /\ synced = Entry)
    => stock = Stock0 + SumOfDeltas[NumEntries] + forgiven

(* Action properties. *)

\* Between two verdicts nothing un-delivers a row: a retry, a second pusher or
\* a restart never puts a delivered or denied row back in the queue.
NeverRequeued ==
  [][\A e \in outbox : e \notin Pending => e \notin Pending']_vars

(* Liveness, from the moment the faults end: no lost response, no error
   status, no transient rejection, no kill and no restart.             *)

Benign ==
  \/ Device
  \/ StartLogPush
  \/ \E p \in Pusher :
       \/ StartDrain(p)
       \/ NothingToPush(p)
       \/ \E s \in Slot : PostBatch(p, s)
       \/ ApplyVerdict(p)
       \/ RequestDied(p)
  \/ \E s \in Slot :
       \/ \E e \in Entry : \/ ApplyAdjust(s, e)
                            \/ ApplyLog(s, e)
                            \/ RejectPermanently(s, e)
       \/ OrphanEnds(s)

FaultsEnd == <>[][Benign]_vars

\* Rows behind a whole page of exhausted ones, which the query returns and the
\* engine drops: they are never posted.
BehindExhausted == {e \in Active : Cardinality({x \in Failed : x < e}) >= BatchLimit}

\* Every row the indicator counts as pending leaves that count for good:
\* delivered, denied or thrown away ("Pending items push automatically"); all
\* but the rows behind a page of exhausted ones.
ActiveIsDelivered == FaultsEnd => <>[](Active \subseteq BehindExhausted)

-------------------------------------------------------------------------------
(* What the device says about an entry, for the abstract specification. *)

StageOf(e) ==
  IF e > issued THEN "new"
  ELSE IF e \notin outbox THEN "discarded"
  ELSE IF e \in synced THEN "acked"
  ELSE IF e \in denied THEN "refused"
  ELSE "queued"

Ledger == INSTANCE DeliveryLedger
            WITH stage <- [e \in Entry |-> StageOf(e)], effect <- applied

ImplementsLedger == Ledger!LedgerSpec

===============================================================================
