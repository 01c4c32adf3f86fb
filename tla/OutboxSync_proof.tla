---------------------------- MODULE OutboxSync_proof ---------------------------
(***************************************************************************)
(* What is proved of OutboxSync for every value of its constants: its      *)
(* types, that a write is applied at most once while the retry window      *)
(* holds, that a row is marked delivered only after its write is applied,  *)
(* that a decided row never comes back to the queue, that the retry budget *)
(* is kept, that the whole path implements DeliveryLedger, and that the    *)
(* stock nets out.                                                         *)
(***************************************************************************)
EXTENDS OutboxSync, WellFoundedInduction, TLAPS

-------------------------------------------------------------------------------
(* What the helpers return. *)

\* Counting an attempt keeps the column a number.
LEMMA AttemptedTyped ==
  ASSUME DeviceTyped, NEW S
  PROVE  Attempted(S) \in [Entry -> Nat]
BY DEF DeviceTyped, Attempted

\* Re-arming keeps the column a number.
LEMMA RearmedTyped ==
  ASSUME DeviceTyped, NEW S
  PROVE  Rearmed(S) \in [Entry -> Nat]
BY DEF DeviceTyped, Rearmed

\* A pusher posts only pending rows whose retries are not exhausted.
LEMMA BatchIsPending ==
  ASSUME NEW p
  PROVE  /\ BatchOf(p) \subseteq Pending
         /\ \A e \in BatchOf(p) : attempts[e] < MaxAttempts
BY DEF BatchOf, Oldest

\* The log pusher posts only log rows.
LEMMA LogBatchIsLog == BatchOf(LogPusher) \subseteq LogEntry
BY DEF BatchOf, Oldest

\* Every row of the outbox is an entry.
LEMMA OutboxIsEntries ==
  ASSUME DeviceTyped
  PROVE  /\ outbox \subseteq Entry
         /\ Pending \subseteq Entry
         /\ outbox \subseteq 1..issued
BY SizesAssumption DEF SizesAssumption, DeviceTyped, Pending, Entry

-------------------------------------------------------------------------------
(* Types. *)

LEMMA TypesAtInit == Init => TypeOK
<1> SUFFICES ASSUME Init PROVE TypeOK
  OBVIOUS
<1>1. DeviceTyped
  BY SizesAssumption DEF SizesAssumption, Init, DeviceTyped
<1>2. MemoryTyped
  BY DEF Init, MemoryTyped
<1>3. RequestsTyped
  BY DEF Init, RequestsTyped
<1>4. PostgresTyped
  BY SizesAssumption DEF SizesAssumption, Init, PostgresTyped
<1>5. QED
  BY <1>1, <1>2, <1>3, <1>4 DEF TypeOK

\* The user's operations touch the outbox only.
LEMMA TypesByDevice == TypeOK /\ Device => TypeOK'
<1> SUFFICES ASSUME TypeOK, Device PROVE TypeOK'
  OBVIOUS
<1>1. UNCHANGED <<appMemory, requests, postgres>>
  BY DEF Device, AppendOutbox, RetryFailedOutbox, DiscardDeniedEntry,
         DiscardFailedOutbox, DiscardPendingOutbox, DropRows
<1>2. MemoryTyped' /\ RequestsTyped' /\ PostgresTyped'
  BY <1>1 DEF TypeOK, MemoryTyped, RequestsTyped, PostgresTyped,
              appMemory, requests, postgres
<1>3. CASE AppendOutbox
  <2>1. DeviceTyped'
    BY <1>3, SizesAssumption
       DEF SizesAssumption, AppendOutbox, TypeOK, DeviceTyped
  <2>2. QED
    BY <2>1, <1>2 DEF TypeOK
<1>4. CASE RetryFailedOutbox
  <2>1. DeviceTyped'
    BY <1>4, RearmedTyped DEF RetryFailedOutbox, TypeOK, DeviceTyped
  <2>2. QED
    BY <2>1, <1>2 DEF TypeOK
<1>5. ASSUME NEW D, DropRows(D) PROVE TypeOK'
  <2>1. DeviceTyped'
    BY <1>5 DEF DropRows, TypeOK, DeviceTyped
  <2>2. QED
    BY <2>1, <1>2 DEF TypeOK
<1>6. QED
  BY <1>3, <1>4, <1>5
     DEF Device, DiscardDeniedEntry, DiscardFailedOutbox, DiscardPendingOutbox

\* What a pusher does, one step per await.
LEMMA TypesByPush ==
  ASSUME TypeOK, NEW p \in Pusher, Push(p) PROVE TypeOK'
<1> USE DEF TypeOK
<1>1. CASE StartDrain(p)
  BY <1>1 DEF StartDrain, DeviceTyped, MemoryTyped, RequestsTyped,
              PostgresTyped, deviceDb, requests, postgres
<1>2. CASE \/ NoSession(p) \/ NothingToPush(p) \/ ResponseLost(p)
           \/ RequestDied(p)
  <2>1. Return(p, "idle") /\ UNCHANGED <<deviceDb, requests, postgres>>
    BY <1>2 DEF NoSession, NothingToPush, ResponseLost, RequestDied
  <2>2. MemoryTyped'
    BY <2>1 DEF Return, MemoryTyped
  <2>3. DeviceTyped' /\ RequestsTyped' /\ PostgresTyped'
    BY <2>1 DEF DeviceTyped, RequestsTyped, PostgresTyped,
                deviceDb, requests, postgres
  <2>4. QED
    BY <2>2, <2>3
<1>3. ASSUME NEW s \in Slot, PostBatch(p, s) PROVE TypeOK'
  <2>1. BatchOf(p) \subseteq Entry
    BY BatchIsPending, OutboxIsEntries
  <2>2. MemoryTyped'
    BY <1>3, <2>1 DEF PostBatch, MemoryTyped
  <2>3. RequestsTyped'
    BY <1>3, <2>1 DEF PostBatch, RequestsTyped
  <2>4. DeviceTyped' /\ PostgresTyped'
    BY <1>3 DEF PostBatch, DeviceTyped, PostgresTyped, deviceDb, postgres
  <2>5. QED
    BY <2>2, <2>3, <2>4
<1>4. CASE ApplyVerdict(p)
  <2>1. attempts' \in [Entry -> Nat]
    BY <1>4, AttemptedTyped DEF ApplyVerdict
  <2>2. synced' \subseteq outbox' /\ denied' \subseteq outbox'
    BY <1>4 DEF ApplyVerdict, DeviceTyped
  <2>3. DeviceTyped'
    BY <1>4, <2>1, <2>2 DEF ApplyVerdict, DeviceTyped
  <2>4. MemoryTyped'
    BY <1>4 DEF ApplyVerdict, Return, MemoryTyped
  <2>5. RequestsTyped'
    BY <1>4 DEF ApplyVerdict, Free, RequestsTyped
  <2>6. PostgresTyped'
    BY <1>4 DEF ApplyVerdict, PostgresTyped, postgres
  <2>7. QED
    BY <2>3, <2>4, <2>5, <2>6
<1>5. CASE HttpError(p)
  <2>1. DeviceTyped'
    BY <1>5, AttemptedTyped DEF HttpError, DeviceTyped
  <2>2. MemoryTyped'
    BY <1>5 DEF HttpError, Return, MemoryTyped
  <2>3. RequestsTyped' /\ PostgresTyped'
    BY <1>5 DEF HttpError, RequestsTyped, PostgresTyped, requests, postgres
  <2>4. QED
    BY <2>1, <2>2, <2>3
<1>6. ASSUME NEW k \in Entry, AppKilledInVerdict(p, k) PROVE TypeOK'
  <2>1. attempts' \in [Entry -> Nat]
    BY <1>6, AttemptedTyped DEF AppKilledInVerdict
  <2>2. synced' \subseteq outbox' /\ denied' \subseteq outbox'
    BY <1>6 DEF AppKilledInVerdict, DeviceTyped
  <2>3. DeviceTyped'
    BY <1>6, <2>1, <2>2 DEF AppKilledInVerdict, DeviceTyped
  <2>4. MemoryTyped'
    BY <1>6 DEF AppKilledInVerdict, ClearMemory, MemoryTyped
  <2>5. RequestsTyped'
    BY <1>6 DEF AppKilledInVerdict, Free, RequestsTyped
  <2>6. PostgresTyped'
    BY <1>6 DEF AppKilledInVerdict, PostgresTyped, postgres
  <2>7. QED
    BY <2>3, <2>4, <2>5, <2>6
<1>7. QED
  BY <1>1, <1>2, <1>3, <1>4, <1>5, <1>6 DEF Push

\* The server touches its requests and Postgres only.
LEMMA TypesByServer ==
  ASSUME TypeOK, NEW s \in Slot, Server(s) PROVE TypeOK'
<1> USE DEF TypeOK, DeviceTyped, MemoryTyped, RequestsTyped, PostgresTyped,
            deviceDb, appMemory, requests, postgres
<1>1. ASSUME NEW e \in Entry, ApplyAdjust(s, e) PROVE TypeOK'
  <2>1. \A n \in Int : AtLeastZero(n) \in Nat /\ Shortfall(n) \in Nat
    BY DEF AtLeastZero, Shortfall
  <2>2. stock + Delta[e] \in Int
    BY EntriesAssumption DEF EntriesAssumption
  <2>3. stock' \in Nat /\ forgiven' \in Nat
    BY <1>1, <2>1, <2>2 DEF ApplyAdjust
  <2> QED BY <1>1, <2>3 DEF ApplyAdjust
<1>2. ASSUME NEW e \in Entry, ApplyLog(s, e) PROVE TypeOK'
  BY <1>2 DEF ApplyLog
<1>3. ASSUME NEW e \in Entry, RejectPermanently(s, e) PROVE TypeOK'
  BY <1>3 DEF RejectPermanently
<1>4. ASSUME NEW e \in Entry, RejectForNow(s, e) PROVE TypeOK'
  BY <1>4 DEF RejectForNow
<1>5. CASE OrphanEnds(s)
  BY <1>5 DEF OrphanEnds, Free
<1>6. QED
  BY <1>1, <1>2, <1>3, <1>4, <1>5 DEF Server

LEMMA TypesByNext == TypeOK /\ [Next]_vars => TypeOK'
<1> SUFFICES ASSUME TypeOK, [Next]_vars PROVE TypeOK'
  OBVIOUS
<1>1. CASE StartLogPush
  <2>1. DeviceTyped'
    BY <1>1, RearmedTyped DEF StartLogPush, TypeOK, DeviceTyped
  <2>2. MemoryTyped' /\ RequestsTyped' /\ PostgresTyped'
    BY <1>1 DEF StartLogPush, TypeOK, MemoryTyped, RequestsTyped,
                PostgresTyped, requests, postgres, Pusher
  <2>3. QED
    BY <2>1, <2>2 DEF TypeOK
<1>2. CASE AppKilled
  <2>1. MemoryTyped'
    BY <1>2 DEF AppKilled, ClearMemory, TypeOK, MemoryTyped
  <2>2. DeviceTyped' /\ RequestsTyped' /\ PostgresTyped'
    BY <1>2 DEF AppKilled, TypeOK, DeviceTyped, RequestsTyped, PostgresTyped,
                deviceDb, requests, postgres
  <2>3. QED
    BY <2>1, <2>2 DEF TypeOK
<1>3. ASSUME NEW old \in SUBSET Entry, ApiRestart(old) PROVE TypeOK'
  <2>1. RequestsTyped'
    BY <1>3 DEF ApiRestart, RequestsTyped
  <2>2. MemoryTyped'
    BY <1>3 DEF ApiRestart, TypeOK, MemoryTyped
  <2>3. DeviceTyped' /\ PostgresTyped'
    BY <1>3 DEF ApiRestart, TypeOK, DeviceTyped, PostgresTyped, deviceDb
  <2>4. QED
    BY <2>1, <2>2, <2>3 DEF TypeOK
<1>4. CASE UNCHANGED vars
  BY <1>4 DEF vars, deviceDb, appMemory, requests, postgres, TypeOK,
              DeviceTyped, MemoryTyped, RequestsTyped, PostgresTyped
<1>5. QED
  BY <1>1, <1>2, <1>3, <1>4, TypesByDevice, TypesByPush, TypesByServer
     DEF Next

\* The outbox, the engine's memory, the requests and Postgres keep their types
\* through every step: a stock that would go negative is clamped, and marks
\* are set only on rows that are there.
THEOREM TypeCorrect == Spec => []TypeOK
BY TypesAtInit, TypesByNext, PTL DEF Spec

-------------------------------------------------------------------------------
(* How one step moves the rows: into the queue, into a request, to an ok. *)

\* Only a local write adds to the pending rows, and only its own new entry.
LEMMA PendingSteps ==
  ASSUME TypeOK, [Next]_vars
  PROVE  /\ issued' \in {issued, issued + 1}
         /\ Pending' \subseteq Pending \cup {e \in Entry : issued < e /\ e <= issued'}
<1> DEFINE Fresh == {e \in Entry : issued < e /\ e <= issued'}
<1> USE DEF TypeOK, DeviceTyped, Pending
<1>0. issued \in Nat
  BY SizesAssumption DEF SizesAssumption
<1>1. CASE AppendOutbox
  <2>1. issued + 1 \in Entry
    BY <1>0, <1>1, SizesAssumption DEF SizesAssumption, AppendOutbox, Entry
  <2>2. QED
    BY <1>0, <1>1, <2>1 DEF AppendOutbox
<1>2. ASSUME NEW D, DropRows(D)
      PROVE  issued' = issued /\ Pending' \subseteq Pending
  BY <1>2 DEF DropRows
<1>3. ASSUME NEW p \in Pusher, Push(p)
      PROVE  issued' = issued /\ Pending' \subseteq Pending
  BY <1>3 DEF Push, StartDrain, NoSession, NothingToPush, PostBatch,
              ApplyVerdict, HttpError, ResponseLost, RequestDied,
              AppKilledInVerdict, deviceDb
<1>4. ASSUME NEW s \in Slot, Server(s)
      PROVE  issued' = issued /\ Pending' \subseteq Pending
  BY <1>4 DEF Server, ApplyAdjust, ApplyLog, RejectPermanently, RejectForNow,
              OrphanEnds, deviceDb
<1>5. CASE \/ RetryFailedOutbox \/ StartLogPush \/ AppKilled
           \/ \E old \in SUBSET Entry : ApiRestart(old)
           \/ UNCHANGED vars
  BY <1>5 DEF RetryFailedOutbox, StartLogPush, AppKilled, ApiRestart, vars,
              deviceDb
<1>6. QED
  BY <1>1, <1>2, <1>3, <1>4, <1>5
     DEF Next, Device, DiscardDeniedEntry, DiscardFailedOutbox,
         DiscardPendingOutbox

\* A request is only ever given pending rows.
LEMMA TodoSteps ==
  ASSUME TypeOK, [Next]_vars, NEW s \in Slot
  PROVE  todo'[s] \subseteq todo[s] \cup Pending
<1> USE DEF TypeOK, RequestsTyped, requests
<1>1. CASE \/ Device \/ StartLogPush \/ AppKilled \/ UNCHANGED vars
  BY <1>1 DEF Device, AppendOutbox, RetryFailedOutbox, DiscardDeniedEntry,
              DiscardFailedOutbox, DiscardPendingOutbox, DropRows,
              StartLogPush, AppKilled, vars
<1>2. ASSUME NEW p \in Pusher, NEW t \in Slot, PostBatch(p, t)
      PROVE  todo'[s] \subseteq todo[s] \cup Pending
  BY <1>2, BatchIsPending DEF PostBatch
<1>3. ASSUME NEW p \in Pusher, Push(p)
      PROVE  todo'[s] \subseteq todo[s] \cup Pending
  <2>1. CASE StartDrain(p) \/ NoSession(p) \/ NothingToPush(p) \/ HttpError(p)
             \/ ResponseLost(p) \/ RequestDied(p)
    BY <2>1 DEF StartDrain, NoSession, NothingToPush, HttpError, ResponseLost,
                RequestDied
  <2>2. CASE ApplyVerdict(p) \/ \E k \in Entry : AppKilledInVerdict(p, k)
    BY <2>2 DEF ApplyVerdict, AppKilledInVerdict, Free
  <2>3. QED
    BY <1>2, <1>3, <2>1, <2>2 DEF Push
<1>4. ASSUME NEW t \in Slot, Server(t)
      PROVE  todo'[s] \subseteq todo[s] \cup Pending
  BY <1>4 DEF Server, ApplyAdjust, ApplyLog, RejectPermanently, RejectForNow,
              OrphanEnds, Free
<1>5. ASSUME NEW old \in SUBSET Entry, ApiRestart(old)
      PROVE  todo'[s] \subseteq todo[s] \cup Pending
  BY <1>5 DEF ApiRestart
<1>6. QED
  BY <1>1, <1>3, <1>4, <1>5 DEF Next

\* The server's data changes only where the server applies an entry, and its
\* dedup record shrinks only where the API restarts.
LEMMA PostgresSteps ==
  ASSUME [Next]_vars
  PROVE  \/ UNCHANGED postgres
         \/ \E s \in Slot, e \in Entry : ApplyAdjust(s, e) \/ ApplyLog(s, e)
         \/ \E old \in SUBSET Entry : ApiRestart(old)
<1>1. CASE Device \/ StartLogPush \/ AppKilled \/ UNCHANGED vars
  BY <1>1 DEF Device, AppendOutbox, RetryFailedOutbox, DiscardDeniedEntry,
              DiscardFailedOutbox, DiscardPendingOutbox, DropRows,
              StartLogPush, AppKilled, vars
<1>2. ASSUME NEW p \in Pusher, Push(p) PROVE UNCHANGED postgres
  BY <1>2 DEF Push, StartDrain, NoSession, NothingToPush, PostBatch,
              ApplyVerdict, HttpError, ResponseLost, RequestDied,
              AppKilledInVerdict
<1>3. ASSUME NEW s \in Slot, Server(s)
      PROVE  \/ UNCHANGED postgres
             \/ \E e \in Entry : ApplyAdjust(s, e) \/ ApplyLog(s, e)
  BY <1>3 DEF Server, RejectPermanently, RejectForNow, OrphanEnds
<1>4. QED
  BY <1>1, <1>2, <1>3 DEF Next

-------------------------------------------------------------------------------
(* At most once. *)

\* The inductive invariant: an entry the server holds no record of, and which
\* nevertheless changed the data, was pruned, and then nothing on the device
\* or in flight can send it again.
AtMostOnceInv ==
  /\ TypeOK
  /\ AppliedAtMostOnce
  /\ \A e \in Entry : Unseen(e) /\ applied[e] # 0 =>
       /\ e \notin LogEntry
       /\ e \notin Pending
       /\ \A s \in Slot : e \notin todo[s]
  /\ \A e \in Entry : e > issued => applied[e] = 0
  /\ \A s \in Slot : todo[s] \subseteq 1..issued

LEMMA AtMostOnceAtInit == Init => AtMostOnceInv
BY TypesAtInit DEF Init, AtMostOnceInv, AppliedAtMostOnce, Entry

LEMMA AtMostOnceByNext ==
  ASSUME RetryWindowHolds, AtMostOnceInv, [Next]_vars
  PROVE  AtMostOnceInv'
<1> USE DEF AtMostOnceInv
<1>1. TypeOK /\ TypeOK'
  BY TypesByNext
<1>2. /\ issued \in Nat /\ issued' \in {issued, issued + 1}
      /\ applied \in [Entry -> Nat]
      /\ Entry \subseteq Nat
  <2>1. issued \in Nat /\ Entry \subseteq Nat
    BY <1>1, SizesAssumption DEF SizesAssumption, TypeOK, DeviceTyped, Entry
  <2>2. issued' \in {issued, issued + 1}
    BY <1>1, PendingSteps
  <2>3. QED
    BY <1>1, <2>1, <2>2 DEF TypeOK, PostgresTyped
<1>3. Pending \subseteq 1..issued
  BY <1>1, OutboxIsEntries DEF TypeOK, Pending
<1>4. \A s \in Slot : todo'[s] \subseteq 1..issued'
  <2>1. 1..issued \subseteq 1..issued'
    BY <1>2
  <2>2. \A s \in Slot : todo'[s] \subseteq todo[s] \cup Pending
    BY <1>1, TodoSteps
  <2>3. \A s \in Slot : todo[s] \subseteq 1..issued
    OBVIOUS
  <2>4. QED
    BY <1>3, <2>1, <2>2, <2>3
\* An entry that was not sendable and is one now is a new entry.
<1>5. ASSUME NEW e \in Entry, applied[e] # 0, e \notin Pending,
             \A s \in Slot : e \notin todo[s]
      PROVE  e \notin Pending' /\ \A s \in Slot : e \notin todo'[s]
  <2>1. ~(e > issued)
    BY <1>5
  <2>2. e \notin Pending'
    BY <1>1, <1>2, <1>5, <2>1, PendingSteps
  <2>3. \A s \in Slot : e \notin todo'[s]
    BY <1>1, <1>5, TodoSteps
  <2>4. QED
    BY <2>2, <2>3
<1>6. CASE UNCHANGED postgres
  <2>1. \A e \in Entry : Unseen(e)' = Unseen(e) /\ applied'[e] = applied[e]
    BY <1>6 DEF postgres, Unseen
  <2>2. AppliedAtMostOnce'
    BY <1>6 DEF postgres, AppliedAtMostOnce
  <2>3. \A e \in Entry : e > issued' => applied'[e] = 0
    BY <1>2, <2>1
  <2>4. \A e \in Entry : Unseen(e)' /\ applied'[e] # 0 =>
          /\ e \notin LogEntry
          /\ e \notin Pending'
          /\ \A s \in Slot : e \notin todo'[s]
    BY <2>1, <1>5
  <2>5. QED
    BY <1>1, <1>4, <2>2, <2>3, <2>4
<1>7. ASSUME NEW s \in Slot, NEW e \in Entry,
             ApplyAdjust(s, e) \/ ApplyLog(s, e)
      PROVE  AtMostOnceInv'
  <2>1. e \in todo[s] /\ e \in 1..issued /\ UNCHANGED issued
    BY <1>7 DEF ApplyAdjust, ApplyLog, NextOf, deviceDb
  <2>2. Unseen(e) => applied[e] = 0
    BY <2>1
  <2>3. applied' = [applied EXCEPT ![e] = IF Unseen(e) THEN @ + 1 ELSE @]
    BY <1>2, <1>7 DEF ApplyAdjust, ApplyLog
  <2>4. ~Unseen(e)' /\ \A x \in Entry \ {e} : Unseen(x)' = Unseen(x)
    BY <1>7 DEF ApplyAdjust, ApplyLog, Unseen
  <2>5. AppliedAtMostOnce'
    BY <1>2, <2>2, <2>3 DEF AppliedAtMostOnce
  <2>6. \A x \in Entry : x > issued' => applied'[x] = 0
    BY <1>2, <2>1, <2>3
  <2>7. \A x \in Entry : Unseen(x)' /\ applied'[x] # 0 =>
          /\ x \notin LogEntry
          /\ x \notin Pending'
          /\ \A t \in Slot : x \notin todo'[t]
    BY <1>2, <1>5, <2>3, <2>4
  <2>8. QED
    BY <1>1, <1>4, <2>5, <2>6, <2>7
<1>8. ASSUME NEW old \in SUBSET Entry, ApiRestart(old)
      PROVE  AtMostOnceInv'
  <2>1. UNCHANGED <<issued, outbox, synced, denied, logRows, applied>>
    BY <1>8 DEF ApiRestart, deviceDb
  <2>2. \A t \in Slot : todo'[t] = {}
    BY <1>8 DEF ApiRestart
  <2>3. old \cap Pending = {} /\ processed' = processed \ old
    BY <1>8 DEF ApiRestart, Resendable
  <2>4. \A x \in Entry : Unseen(x)' /\ applied'[x] # 0 =>
          /\ x \notin LogEntry
          /\ x \notin Pending'
          /\ \A t \in Slot : x \notin todo'[t]
    BY <2>1, <2>2, <2>3 DEF Unseen, Pending
  <2>5. QED
    BY <1>1, <1>4, <2>1, <2>4 DEF AppliedAtMostOnce
<1>9. QED
  BY <1>6, <1>7, <1>8, PostgresSteps

\* While the device delivers or gives up an entry before its dedup record is
\* seven days old, no entry changes the server's data twice, through any
\* interleaving of lost responses, orphaned requests, app deaths, overlapping
\* pushers and API restarts.
THEOREM AtMostOnce ==
  ASSUME RetryWindowHolds
  PROVE  Spec => []AppliedAtMostOnce
<1>1. AtMostOnceInv /\ [Next]_vars => AtMostOnceInv'
  BY AtMostOnceByNext
<1>2. AtMostOnceInv => AppliedAtMostOnce
  BY DEF AtMostOnceInv
<1>3. QED
  BY <1>1, <1>2, AtMostOnceAtInit, PTL DEF Spec

-------------------------------------------------------------------------------
(* Delivered means applied. *)

\* The inductive invariant: an ok in flight, like the server's own record,
\* stands for an effect that is there.
DeliveredInv ==
  /\ TypeOK
  /\ SyncedWasApplied
  /\ \A s \in Slot : \A e \in okd[s] : applied[e] >= 1
  /\ \A e \in Entry : ~Unseen(e) => applied[e] >= 1

LEMMA DeliveredAtInit == Init => DeliveredInv
BY TypesAtInit DEF Init, DeliveredInv, SyncedWasApplied, Unseen

\* A row is marked delivered only by an answer that lists it, and an entry is
\* listed only by the step that applies it.
LEMMA OkSteps ==
  ASSUME TypeOK, [Next]_vars
  PROVE  /\ \A e \in synced' : e \in synced \/ \E s \in Slot : e \in okd[s]
         /\ \/ \A s \in Slot : okd'[s] \subseteq okd[s]
            \/ \E t \in Slot, x \in Entry :
                 /\ ApplyAdjust(t, x) \/ ApplyLog(t, x)
                 /\ \A s \in Slot : okd'[s] \subseteq okd[s] \cup {x}
<1> USE DEF TypeOK, RequestsTyped, requests, deviceDb
<1>1. CASE \/ Device \/ StartLogPush \/ AppKilled \/ UNCHANGED vars
           \/ \E old \in SUBSET Entry : ApiRestart(old)
  BY <1>1 DEF Device, AppendOutbox, RetryFailedOutbox, DiscardDeniedEntry,
              DiscardFailedOutbox, DiscardPendingOutbox, DropRows,
              StartLogPush, AppKilled, ApiRestart, vars
<1>2. ASSUME NEW p \in Pusher, Push(p)
      PROVE  /\ \A e \in synced' : e \in synced \/ \E s \in Slot : e \in okd[s]
             /\ \A s \in Slot : okd'[s] \subseteq okd[s]
  <2>1. CASE StartDrain(p) \/ NoSession(p) \/ NothingToPush(p) \/ HttpError(p)
             \/ ResponseLost(p) \/ RequestDied(p)
    BY <2>1 DEF StartDrain, NoSession, NothingToPush, HttpError, ResponseLost,
                RequestDied
  <2>2. CASE \E s \in Slot : PostBatch(p, s)
    BY <2>2 DEF PostBatch
  <2>3. CASE ApplyVerdict(p) \/ \E k \in Entry : AppKilledInVerdict(p, k)
    BY <2>3 DEF ApplyVerdict, AppKilledInVerdict, Accepted, Free
  <2>4. QED
    BY <1>2, <2>1, <2>2, <2>3 DEF Push
<1>3. ASSUME NEW t \in Slot, NEW x \in Entry, ApplyAdjust(t, x) \/ ApplyLog(t, x)
      PROVE  /\ synced' = synced
             /\ \A s \in Slot : okd'[s] \subseteq okd[s] \cup {x}
  BY <1>3 DEF ApplyAdjust, ApplyLog
<1>4. ASSUME NEW t \in Slot, Server(t)
      PROVE  \/ \E x \in Entry : ApplyAdjust(t, x) \/ ApplyLog(t, x)
             \/ /\ synced' = synced
                /\ \A s \in Slot : okd'[s] \subseteq okd[s]
  BY <1>4 DEF Server, RejectPermanently, RejectForNow, OrphanEnds, Free
<1>5. QED
  BY <1>1, <1>2, <1>3, <1>4 DEF Next

LEMMA DeliveredByNext == DeliveredInv /\ [Next]_vars => DeliveredInv'
<1> SUFFICES ASSUME DeliveredInv, [Next]_vars PROVE DeliveredInv'
  OBVIOUS
<1> USE DEF DeliveredInv
<1>1. TypeOK /\ TypeOK' /\ applied \in [Entry -> Nat]
  BY TypesByNext DEF TypeOK, PostgresTyped
<1>2. /\ synced \subseteq Entry /\ synced' \subseteq Entry
      /\ \A s \in Slot : okd[s] \subseteq Entry /\ okd'[s] \subseteq Entry
  BY <1>1, SizesAssumption
     DEF SizesAssumption, TypeOK, DeviceTyped, RequestsTyped, Entry
\* Effects accumulate, and a record is made together with its effect.
<1>3. \A e \in Entry : applied'[e] >= applied[e]
  BY <1>1, PostgresSteps DEF postgres, ApplyAdjust, ApplyLog, ApiRestart
<1>4. \A e \in Entry : ~Unseen(e)' => applied'[e] >= 1
  BY <1>1, PostgresSteps
     DEF postgres, ApplyAdjust, ApplyLog, ApiRestart, Unseen
<1>5. SyncedWasApplied'
  <2> SUFFICES ASSUME NEW e \in synced' PROVE applied'[e] >= 1
    BY DEF SyncedWasApplied
  <2>1. e \in synced \/ \E s \in Slot : e \in okd[s]
    BY <1>1, OkSteps
  <2>2. applied[e] >= 1
    BY <2>1 DEF SyncedWasApplied
  <2>3. applied[e] \in Nat /\ applied'[e] \in Nat /\ applied'[e] >= applied[e]
    BY <1>1, <1>2, <1>3 DEF TypeOK, PostgresTyped
  <2>4. QED
    BY <2>2, <2>3
<1>6. \A t \in Slot, x \in Entry :
        ApplyAdjust(t, x) \/ ApplyLog(t, x) => applied'[x] >= 1
  BY <1>1 DEF ApplyAdjust, ApplyLog
<1>7. ASSUME NEW s \in Slot, NEW e \in okd'[s] PROVE applied'[e] >= 1
  <2>1. \/ e \in okd[s]
        \/ \E t \in Slot : ApplyAdjust(t, e) \/ ApplyLog(t, e)
    BY <1>1, OkSteps
  <2>2. CASE e \in okd[s]
    <3>1. applied[e] >= 1
      BY <2>2
    <3>2. applied[e] \in Nat /\ applied'[e] \in Nat /\ applied'[e] >= applied[e]
      BY <1>1, <1>2, <1>3 DEF TypeOK, PostgresTyped
    <3>3. QED
      BY <3>1, <3>2
  <2>3. QED
    BY <1>2, <1>6, <2>1, <2>2
<1>8. QED
  BY <1>1, <1>4, <1>5, <1>7

\* No row is marked delivered whose write is not in Postgres, with no
\* assumption on the retry window.
THEOREM DeliveredWasApplied == Spec => []SyncedWasApplied
<1>1. DeliveredInv => SyncedWasApplied
  BY DEF DeliveredInv
<1>2. QED
  BY <1>1, DeliveredAtInit, DeliveredByNext, PTL DEF Spec

-------------------------------------------------------------------------------
(* Decided rows stay decided. *)

\* No retry, second pusher, kill or restart puts a delivered or denied row back
\* among the pending ones.
THEOREM DecidedStaysDecided == Spec => NeverRequeued
<1>1. TypeOK /\ [Next]_vars
        => [\A e \in outbox : e \notin Pending => e \notin Pending']_vars
  <2> SUFFICES ASSUME TypeOK, [Next]_vars, NEW e \in outbox, e \notin Pending
               PROVE  e \notin Pending'
    OBVIOUS
  <2>1. issued \in Nat /\ e \in 1..issued
    BY SizesAssumption DEF SizesAssumption, TypeOK, DeviceTyped
  <2>2. QED
    BY <2>1, PendingSteps
<1>2. QED
  BY <1>1, TypeCorrect, PTL DEF Spec, NeverRequeued

-------------------------------------------------------------------------------
(* The retry budget. *)

\* The drain lock: at most one drainer is past its lock test, and a pusher
\* holds rows only while it waits for an answer.  The log pusher takes no lock
\* and holds log rows only.
LockInv ==
  /\ \A p \in Drainer : pc[p] # "idle" => running
  /\ \A p, q \in Drainer : pc[p] # "idle" /\ pc[q] # "idle" => p = q
  /\ \A p \in Pusher : pc[p] # "sent" => batch[p] = {}
  /\ batch[LogPusher] \subseteq LogEntry

\* Whose request is whose: a pusher waits for a live request, no two pushers
\* for the same one, and what is left to decide there, or was refused for now,
\* are rows it posted.
SlotInv ==
  \A p \in Pusher : slot[p] # NoSlot =>
    /\ slot[p] \in live
    /\ todo[slot[p]] \subseteq batch[p]
    /\ trans[slot[p]] \subseteq batch[p]
    /\ \A q \in Pusher : slot[q] = slot[p] => q = p

\* A row somebody holds has an attempt left for each holder, the one overrun
\* of a log row included.
HeldRowsInv ==
  \A e \in Entry :
    /\ \A p \in Pusher : e \in batch[p] =>
         attempts[e] < IF e \in LogEntry THEN MaxAttempts + 1 ELSE MaxAttempts
    /\ \A p, q \in Pusher : e \in batch[p] /\ e \in batch[q] /\ p # q =>
         attempts[e] < MaxAttempts

BudgetInv == TypeOK /\ LockInv /\ SlotInv /\ HeldRowsInv /\ RetryBudget

LEMMA BudgetAtInit == Init => BudgetInv
<1> SUFFICES ASSUME Init PROVE BudgetInv
  OBVIOUS
<1>1. TypeOK
  BY TypesAtInit
<1>2. LockInv
  BY DEF Init, LockInv, Pusher
<1>3. SlotInv
  BY DEF Init, SlotInv
<1>4. HeldRowsInv
  BY DEF Init, HeldRowsInv
<1>5. RetryBudget
  BY SizesAssumption DEF SizesAssumption, Init, RetryBudget
<1>6. QED
  BY <1>1, <1>2, <1>3, <1>4, <1>5 DEF BudgetInv

\* The ways the engine's memory changes.
LEMMA MemorySteps ==
  ASSUME [Next]_vars
  PROVE  \/ UNCHANGED <<running, pc, batch>>
         \/ \E p \in Pusher : StartDrain(p)
         \/ StartLogPush
         \/ \E p \in Pusher, s \in Slot : PostBatch(p, s)
         \/ \E p \in Pusher, n \in {"idle", "select"} :
              Return(p, n) /\ (p \in Drainer => n = "idle") /\ pc[p] # "idle"
         \/ ClearMemory
<1>1. CASE \/ Device \/ StartLogPush \/ AppKilled \/ UNCHANGED vars
           \/ \E old \in SUBSET Entry : ApiRestart(old)
  BY <1>1 DEF Device, AppendOutbox, RetryFailedOutbox, DiscardDeniedEntry,
              DiscardFailedOutbox, DiscardPendingOutbox, DropRows,
              AppKilled, ApiRestart, vars, appMemory
<1>2. ASSUME NEW p \in Pusher, Push(p)
      PROVE  \/ StartDrain(p)
             \/ \E s \in Slot : PostBatch(p, s)
             \/ \E n \in {"idle", "select"} :
                  Return(p, n) /\ (p \in Drainer => n = "idle") /\ pc[p] # "idle"
             \/ ClearMemory
  BY <1>2, ActorsAssumption
     DEF ActorsAssumption, Push, NoSession, NothingToPush, ApplyVerdict,
         HttpError, ResponseLost, RequestDied, AppKilledInVerdict
<1>3. ASSUME NEW s \in Slot, Server(s) PROVE UNCHANGED <<running, pc, batch>>
  BY <1>3 DEF Server, ApplyAdjust, ApplyLog, RejectPermanently, RejectForNow,
              OrphanEnds, appMemory
<1>4. QED
  BY <1>1, <1>2, <1>3 DEF Next

LEMMA LockByNext ==
  ASSUME TypeOK, LockInv, [Next]_vars
  PROVE  LockInv'
<1> USE DEF LockInv, TypeOK, MemoryTyped
<1>0. LogPusher \notin Drainer /\ Pusher = Drainer \cup {LogPusher}
  BY ActorsAssumption DEF ActorsAssumption, Pusher
<1>1. CASE UNCHANGED <<running, pc, batch>>
  BY <1>1
<1>2. ASSUME NEW p \in Pusher, StartDrain(p) PROVE LockInv'
  BY <1>2, <1>0 DEF StartDrain, LockFree
<1>3. CASE StartLogPush
  BY <1>3, <1>0 DEF StartLogPush
<1>4. ASSUME NEW p \in Pusher, NEW s \in Slot, PostBatch(p, s) PROVE LockInv'
  <2>1. BatchOf(LogPusher) \subseteq LogEntry
    BY LogBatchIsLog
  <2>2. batch'[LogPusher] \subseteq LogEntry
    BY <1>4, <1>0, <2>1 DEF PostBatch
  <2>3. \A q \in Pusher : (pc'[q] # "idle" => pc[q] # "idle")
                          /\ (pc'[q] # "sent" => pc[q] # "sent" /\ batch'[q] = batch[q])
    BY <1>4 DEF PostBatch
  <2>4. running' = running
    BY <1>4 DEF PostBatch
  <2>5. QED
    BY <1>0, <2>2, <2>3, <2>4
<1>5. ASSUME NEW p \in Pusher, NEW n \in {"idle", "select"}, Return(p, n),
             p \in Drainer => n = "idle", pc[p] # "idle"
      PROVE  LockInv'
  <2>1. \A q \in Pusher : /\ batch'[q] \subseteq batch[q]
                          /\ pc'[q] # "sent" => batch'[q] = {}
                          /\ q # p => pc'[q] = pc[q]
    BY <1>5 DEF Return
  <2>2. pc'[p] = n /\ running' = IF p \in Drainer THEN FALSE ELSE running
    BY <1>5 DEF Return
  <2>3. \A q \in Drainer : pc'[q] # "idle" => pc[q] # "idle" /\ q # p
    BY <1>0, <1>5, <2>1, <2>2
  <2>4. \A q \in Drainer : pc'[q] # "idle" => running'
    BY <1>5, <2>2, <2>3
  <2>5. QED
    BY <1>0, <2>1, <2>3, <2>4
<1>6. CASE ClearMemory
  BY <1>6, <1>0 DEF ClearMemory
<1>7. QED
  BY <1>1, <1>2, <1>3, <1>4, <1>5, <1>6, MemorySteps

LEMMA SlotByNext ==
  ASSUME TypeOK, LockInv, SlotInv, [Next]_vars
  PROVE  SlotInv'
<1> USE DEF SlotInv, TypeOK, MemoryTyped, RequestsTyped
<1>0. NoSlot \notin Slot
  BY ActorsAssumption DEF ActorsAssumption
<1>1. CASE \/ Device \/ StartLogPush \/ UNCHANGED vars
  <2>1. UNCHANGED <<slot, batch, requests>>
    BY <1>1 DEF Device, AppendOutbox, RetryFailedOutbox, DiscardDeniedEntry,
                DiscardFailedOutbox, DiscardPendingOutbox, DropRows,
                StartLogPush, vars, appMemory
  <2>2. QED
    BY <2>1 DEF requests
<1>2. CASE AppKilled \/ \E old \in SUBSET Entry : ApiRestart(old)
  BY <1>2 DEF AppKilled, ClearMemory, ApiRestart
<1>3. ASSUME NEW p \in Pusher, Push(p) PROVE SlotInv'
  <2>1. CASE StartDrain(p)
    BY <2>1 DEF StartDrain, requests
  <2>2. CASE NoSession(p) \/ NothingToPush(p) \/ HttpError(p)
             \/ ResponseLost(p) \/ RequestDied(p)
    <3>1. Return(p, "idle") /\ UNCHANGED requests
      BY <2>2 DEF NoSession, NothingToPush, HttpError, ResponseLost, RequestDied
    <3>2. \A q \in Pusher : slot'[q] # NoSlot =>
            q # p /\ slot'[q] = slot[q] /\ batch'[q] = batch[q]
      BY <3>1 DEF Return
    <3>3. QED
      BY <3>1, <3>2 DEF requests
  <2>3. ASSUME NEW s \in Slot, PostBatch(p, s) PROVE SlotInv'
    <3>1. \A q \in Pusher \ {p} : slot'[q] = slot[q] /\ batch'[q] = batch[q]
      BY <2>3 DEF PostBatch
    <3>2. slot'[p] = s /\ batch'[p] = BatchOf(p) /\ s \notin live
      BY <2>3 DEF PostBatch
    <3>3. BatchOf(p) \subseteq Entry
      BY BatchIsPending, OutboxIsEntries
    <3>4. todo'[s] = BatchOf(p) /\ trans'[s] = {} /\ live' = live \cup {s}
      BY <2>3, <3>3 DEF PostBatch
    <3>5. \A t \in live : todo'[t] = todo[t] /\ trans'[t] = trans[t]
      BY <2>3 DEF PostBatch
    <3>6. QED
      BY <1>0, <3>1, <3>2, <3>4, <3>5
  <2>4. CASE ApplyVerdict(p)
    <3>1. PICK n \in {"idle", "select"} : Return(p, n) /\ Free(slot[p])
      BY <2>4 DEF ApplyVerdict
    <3>2. slot[p] \in live /\ slot[p] # NoSlot
      BY <1>0, <2>4 DEF ApplyVerdict
    <3>3. \A q \in Pusher : slot'[q] # NoSlot =>
            q # p /\ slot'[q] = slot[q] /\ batch'[q] = batch[q] /\ slot[q] # slot[p]
      BY <3>1, <3>2 DEF Return
    <3>4. \A t \in live : t # slot[p] => /\ t \in live'
                                         /\ todo'[t] = todo[t]
                                         /\ trans'[t] = trans[t]
      BY <3>1 DEF Free
    <3>5. QED
      BY <3>3, <3>4
  <2>5. ASSUME NEW k \in Entry, AppKilledInVerdict(p, k) PROVE SlotInv'
    BY <2>5 DEF AppKilledInVerdict, ClearMemory
  <2>6. QED
    BY <1>3, <2>1, <2>2, <2>3, <2>4, <2>5 DEF Push
<1>4. ASSUME NEW s \in Slot, Server(s) PROVE SlotInv'
  <2>1. UNCHANGED <<slot, batch>>
    BY <1>4 DEF Server, ApplyAdjust, ApplyLog, RejectPermanently,
                RejectForNow, OrphanEnds, appMemory
  <2>2. CASE OrphanEnds(s)
    <3>1. \A q \in Pusher : slot[q] # s
      BY <2>2 DEF OrphanEnds
    <3>2. \A t \in live : t # s => /\ t \in live'
                                   /\ todo'[t] = todo[t]
                                   /\ trans'[t] = trans[t]
      BY <2>2 DEF OrphanEnds, Free
    <3>3. QED
      BY <2>1, <3>1, <3>2
  <2>3. ASSUME NEW e \in Entry,
               \/ ApplyAdjust(s, e) \/ ApplyLog(s, e)
               \/ RejectPermanently(s, e) \/ RejectForNow(s, e)
        PROVE  SlotInv'
    <3>1. live' = live /\ e \in todo[s]
      BY <2>3 DEF ApplyAdjust, ApplyLog, RejectPermanently, RejectForNow, NextOf
    <3>2. \A t \in Slot : /\ todo'[t] \subseteq todo[t]
                          /\ trans'[t] \subseteq trans[t] \cup todo[t]
      BY <2>3, <3>1 DEF ApplyAdjust, ApplyLog, RejectPermanently, RejectForNow
    <3>3. QED
      BY <2>1, <3>1, <3>2
  <2>4. QED
    BY <1>4, <2>2, <2>3 DEF Server
<1>5. QED
  BY <1>1, <1>2, <1>3, <1>4 DEF Next

\* How one step moves the attempts: they go up by one, for rows a pusher holds
\* and lets go in the same step; only a post hands rows out.
LEMMA AttemptSteps ==
  ASSUME TypeOK, LockInv, SlotInv, [Next]_vars
  PROVE  \/ \E p \in Pusher, s \in Slot : PostBatch(p, s)
         \/ /\ \A q \in Pusher : batch'[q] \subseteq batch[q]
            /\ \A e \in Entry :
                 \/ attempts'[e] <= attempts[e]
                 \/ \E p \in Pusher : /\ e \in batch[p]
                                      /\ batch'[p] = {}
                                      /\ attempts'[e] = attempts[e] + 1
<1> USE DEF TypeOK, MemoryTyped, DeviceTyped
<1>1. CASE Device \/ StartLogPush \/ AppKilled \/ UNCHANGED vars
           \/ \E old \in SUBSET Entry : ApiRestart(old)
  <2>1. \A q \in Pusher : batch'[q] \subseteq batch[q]
    BY <1>1 DEF Device, AppendOutbox, RetryFailedOutbox, DiscardDeniedEntry,
                DiscardFailedOutbox, DiscardPendingOutbox, DropRows,
                StartLogPush, AppKilled, ClearMemory, ApiRestart, vars, appMemory
  <2>2. \A S : \A e \in Entry : Rearmed(S)[e] <= attempts[e]
    BY DEF Rearmed
  <2>3. \A e \in Entry : attempts'[e] <= attempts[e]
    BY <1>1, <2>2
       DEF Device, AppendOutbox, RetryFailedOutbox, DiscardDeniedEntry,
           DiscardFailedOutbox, DiscardPendingOutbox, DropRows, StartLogPush,
           AppKilled, ApiRestart, vars, deviceDb
  <2>4. QED
    BY <2>1, <2>3
<1>2. ASSUME NEW s \in Slot, Server(s)
      PROVE  UNCHANGED <<batch, attempts>>
  BY <1>2 DEF Server, ApplyAdjust, ApplyLog, RejectPermanently,
              RejectForNow, OrphanEnds, appMemory, deviceDb
<1>3. ASSUME NEW p \in Pusher, Push(p), ~ \E s \in Slot : PostBatch(p, s)
      PROVE  /\ \A q \in Pusher : batch'[q] \subseteq batch[q]
             /\ \A e \in Entry :
                  \/ attempts'[e] <= attempts[e]
                  \/ /\ e \in batch[p]
                     /\ batch'[p] = {}
                     /\ attempts'[e] = attempts[e] + 1
  <2>1. CASE StartDrain(p) \/ NoSession(p) \/ NothingToPush(p)
             \/ ResponseLost(p) \/ RequestDied(p)
    <3>1. attempts' = attempts
      BY <2>1 DEF StartDrain, NoSession, NothingToPush, ResponseLost,
                  RequestDied, deviceDb
    <3>2. batch' = batch \/ batch' = [batch EXCEPT ![p] = {}]
      BY <2>1 DEF StartDrain, NoSession, NothingToPush, ResponseLost,
                  RequestDied, Return
    <3>3. \A q \in Pusher : batch'[q] \subseteq batch[q]
      BY <3>2
    <3>4. \A e \in Entry : attempts'[e] <= attempts[e]
      BY <3>1
    <3>5. QED
      BY <3>3, <3>4
  <2>2. CASE \/ ApplyVerdict(p) \/ HttpError(p)
             \/ \E k \in Entry : AppKilledInVerdict(p, k)
    <3>1. \A q \in Pusher : batch'[q] \subseteq batch[q]
      BY <2>2 DEF ApplyVerdict, HttpError, AppKilledInVerdict, Return, ClearMemory
    <3>2. batch'[p] = {}
      BY <2>2 DEF ApplyVerdict, HttpError, AppKilledInVerdict, Return, ClearMemory
    <3>3. ~HttpError(p) => trans[slot[p]] \subseteq batch[p]
      BY <2>2, ActorsAssumption
         DEF ActorsAssumption, ApplyVerdict, AppKilledInVerdict, SlotInv,
             RequestsTyped
    <3>4. \E S : S \subseteq batch[p] /\ attempts' = Attempted(S)
      <4>1. CASE HttpError(p)
        BY <4>1 DEF HttpError
      <4>2. CASE ApplyVerdict(p) /\ ~HttpError(p)
        BY <3>3, <4>2 DEF ApplyVerdict
      <4>3. ASSUME NEW k \in Entry, AppKilledInVerdict(p, k), ~HttpError(p)
            PROVE  \E S : S \subseteq batch[p] /\ attempts' = Attempted(S)
        <5>1. {e \in trans[slot[p]] : e < k} \subseteq batch[p]
          BY <3>3, <4>3
        <5>2. QED
          BY <4>3, <5>1 DEF AppKilledInVerdict
      <4>4. QED
        BY <2>2, <4>1, <4>2, <4>3
    <3>5. QED
      BY <3>1, <3>2, <3>4 DEF Attempted
  <2>3. QED
    BY <1>3, <2>1, <2>2 DEF Push
<1>4. QED
  BY <1>1, <1>2, <1>3 DEF Next

LEMMA BudgetByNext == BudgetInv /\ [Next]_vars => BudgetInv'
<1> SUFFICES ASSUME BudgetInv, [Next]_vars PROVE BudgetInv'
  OBVIOUS
<1>1. TypeOK' /\ LockInv' /\ SlotInv'
  BY TypesByNext, LockByNext, SlotByNext DEF BudgetInv
<1>2. TypeOK /\ LockInv /\ SlotInv /\ HeldRowsInv /\ RetryBudget
  BY DEF BudgetInv
<1>3. /\ attempts \in [Entry -> Nat] /\ attempts' \in [Entry -> Nat]
      /\ MaxAttempts \in Nat /\ batch \in [Pusher -> SUBSET Entry]
  BY <1>1, <1>2, SizesAssumption
     DEF SizesAssumption, TypeOK, DeviceTyped, MemoryTyped
<1> DEFINE Budget(e) == IF e \in LogEntry THEN MaxAttempts + 1 ELSE MaxAttempts
<1>4. ASSUME NEW p \in Pusher, NEW s \in Slot, PostBatch(p, s)
      PROVE  HeldRowsInv' /\ RetryBudget'
  <2>1. attempts' = attempts
    BY <1>4 DEF PostBatch, deviceDb
  <2>2. \A q \in Pusher : batch'[q] = IF q = p THEN BatchOf(p) ELSE batch[q]
    BY <1>2, <1>4 DEF PostBatch, TypeOK, MemoryTyped
  <2>3. \A e \in BatchOf(p) : attempts[e] < MaxAttempts
    BY BatchIsPending
  <2>4. HeldRowsInv'
    BY <1>2, <1>3, <2>1, <2>2, <2>3 DEF HeldRowsInv
  <2>5. QED
    BY <1>2, <2>1, <2>4 DEF RetryBudget
\* Of two pushers that hold the same row one is the log pusher, and no third
\* pusher holds it.
<1>5. ASSUME NEW e \in Entry, NEW p \in Pusher, NEW q \in Pusher, p # q,
             e \in batch[p], e \in batch[q]
      PROVE  /\ e \in LogEntry
             /\ \A r \in Pusher : e \in batch[r] => r = p \/ r = q
  <2>1. \A r \in Pusher : e \in batch[r] => pc[r] # "idle"
    BY <1>2 DEF LockInv
  <2>2. QED
    BY <1>2, <1>5, <2>1 DEF LockInv, Pusher
<1>6. ASSUME \A q \in Pusher : batch'[q] \subseteq batch[q],
             NEW e \in Entry,
             \/ attempts'[e] <= attempts[e]
             \/ \E p \in Pusher : /\ e \in batch[p]
                                  /\ batch'[p] = {}
                                  /\ attempts'[e] = attempts[e] + 1
      PROVE  /\ \A q \in Pusher : e \in batch'[q] => attempts'[e] < Budget(e)
             /\ \A q, r \in Pusher : e \in batch'[q] /\ e \in batch'[r] /\ q # r
                                       => attempts'[e] < MaxAttempts
             /\ attempts'[e] <= Budget(e)
  <2>1. /\ \A q \in Pusher : e \in batch[q] => attempts[e] < Budget(e)
        /\ \A q, r \in Pusher : e \in batch[q] /\ e \in batch[r] /\ q # r
                                  => attempts[e] < MaxAttempts
        /\ attempts[e] <= Budget(e)
    BY <1>2 DEF HeldRowsInv, RetryBudget
  <2>2. CASE attempts'[e] <= attempts[e]
    BY <1>3, <1>6, <2>1, <2>2
  <2>3. ASSUME NEW p \in Pusher, e \in batch[p], batch'[p] = {},
               attempts'[e] = attempts[e] + 1
        PROVE  /\ \A q \in Pusher : e \in batch'[q] => attempts'[e] < Budget(e)
               /\ \A q, r \in Pusher : ~(e \in batch'[q] /\ e \in batch'[r] /\ q # r)
               /\ attempts'[e] <= Budget(e)
    <3>1. \A q \in Pusher : e \in batch'[q] => q # p /\ e \in batch[q]
      BY <1>6, <2>3
    <3>2. \A q \in Pusher : e \in batch'[q] =>
            e \in LogEntry /\ attempts[e] < MaxAttempts
      BY <1>5, <2>1, <2>3, <3>1
    <3>3. \A q \in Pusher : e \in batch'[q] => attempts'[e] < Budget(e)
      BY <1>3, <2>3, <3>2
    <3>4. \A q, r \in Pusher : ~(e \in batch'[q] /\ e \in batch'[r] /\ q # r)
      BY <1>5, <2>3, <3>1
    <3>5. attempts'[e] <= Budget(e)
      BY <1>3, <2>1, <2>3
    <3>6. QED
      BY <3>3, <3>4, <3>5
  <2>4. QED
    BY <1>6, <2>2, <2>3
<1>7. HeldRowsInv' /\ RetryBudget'
  <2>1. CASE \E p \in Pusher, s \in Slot : PostBatch(p, s)
    BY <1>4, <2>1
  <2>2. CASE ~ \E p \in Pusher, s \in Slot : PostBatch(p, s)
    BY <1>2, <1>6, <2>2, AttemptSteps DEF HeldRowsInv, RetryBudget
  <2>3. QED
    BY <2>1, <2>2
<1>8. QED
  BY <1>1, <1>7 DEF BudgetInv

\* Through any interleaving of drains, log pushes, lost answers, kills and
\* restarts, no stock movement is charged more attempts than the budget, and a
\* log row, which the unlocked log pusher can hold next to a drain, at most one
\* more.
THEOREM RetryBudgetKept == Spec => []RetryBudget
<1>1. BudgetInv => RetryBudget
  BY DEF BudgetInv
<1>2. QED
  BY <1>1, BudgetAtInit, BudgetByNext, PTL DEF Spec

-------------------------------------------------------------------------------
(* The refinement of the ledger. *)

\* The ways the rows of the outbox change: a local write, rows thrown away, or
\* an answer that marks rows it lists.
LEMMA OutboxSteps ==
  ASSUME TypeOK, [Next]_vars
  PROVE  \/ UNCHANGED <<issued, outbox, synced, denied>>
         \/ AppendOutbox
         \/ \E D \in SUBSET outbox : DropRows(D)
         \/ \E A, R \in SUBSET outbox :
              /\ \E s \in Slot : A \subseteq okd[s]
              /\ synced' = synced \cup A
              /\ denied' = denied \cup R
              /\ UNCHANGED <<issued, outbox, postgres>>
<1> DEFINE Marked ==
      \E A, R \in SUBSET outbox :
        /\ \E s \in Slot : A \subseteq okd[s]
        /\ synced' = synced \cup A
        /\ denied' = denied \cup R
        /\ UNCHANGED <<issued, outbox, postgres>>
<1>1. CASE Device
  <2>1. ASSUME NEW e \in Entry, DiscardDeniedEntry(e)
        PROVE  \E D \in SUBSET outbox : DropRows(D)
    <3>1. {e} \subseteq outbox
      BY <2>1 DEF DiscardDeniedEntry, TypeOK, DeviceTyped
    <3>2. QED
      BY <2>1, <3>1 DEF DiscardDeniedEntry
  <2>2. CASE DiscardFailedOutbox \/ DiscardPendingOutbox
    <3>1. /\ {e \in outbox \ synced : attempts[e] >= MaxAttempts} \in SUBSET outbox
          /\ outbox \ synced \in SUBSET outbox
      OBVIOUS
    <3>2. QED
      BY <2>2, <3>1 DEF DiscardFailedOutbox, DiscardPendingOutbox
  <2>3. QED
    BY <1>1, <2>1, <2>2 DEF Device, RetryFailedOutbox
<1>2. CASE \/ StartLogPush \/ AppKilled \/ UNCHANGED vars
           \/ \E old \in SUBSET Entry : ApiRestart(old)
  BY <1>2 DEF StartLogPush, AppKilled, ApiRestart, vars, deviceDb
<1>3. ASSUME NEW s \in Slot, Server(s)
      PROVE  UNCHANGED <<issued, outbox, synced, denied>>
  BY <1>3 DEF Server, ApplyAdjust, ApplyLog, RejectPermanently, RejectForNow,
              OrphanEnds, deviceDb
<1>4. ASSUME NEW p \in Pusher, Push(p)
      PROVE  UNCHANGED <<issued, outbox, synced, denied>> \/ Marked
  <2>1. ASSUME NEW R, R \subseteq perm[slot[p]] \cap outbox, slot[p] \in live,
               synced' = synced \cup (Accepted(p) \cap outbox),
               denied' = denied \cup R, UNCHANGED <<issued, outbox, postgres>>
        PROVE  Marked
    <3>1. slot[p] \in Slot
      BY <2>1 DEF TypeOK, RequestsTyped
    <3>2. Accepted(p) \cap outbox \subseteq okd[slot[p]]
      BY DEF Accepted
    <3>3. Accepted(p) \cap outbox \in SUBSET outbox /\ R \in SUBSET outbox
      BY <2>1
    <3>4. QED
      BY <2>1, <3>1, <3>2, <3>3
  <2>2. CASE ApplyVerdict(p)
    BY <2>1, <2>2 DEF ApplyVerdict
  <2>3. ASSUME NEW k \in Entry, AppKilledInVerdict(p, k) PROVE Marked
    <3>1. {e \in perm[slot[p]] \cap outbox : e < k} \subseteq perm[slot[p]] \cap outbox
      OBVIOUS
    <3>2. QED
      BY <2>1, <2>3, <3>1 DEF AppKilledInVerdict
  <2>4. QED
    BY <1>4, <2>2, <2>3
       DEF Push, StartDrain, NoSession, NothingToPush, PostBatch, HttpError,
           ResponseLost, RequestDied, deviceDb
<1>5. QED
  BY <1>1, <1>2, <1>3, <1>4 DEF Next

\* What a stage says of the row behind it.
LEMMA StageMeans ==
  ASSUME TypeOK, NEW e \in Entry
  PROVE  /\ StageOf(e) = "new" <=> e > issued
         /\ e \in outbox => StageOf(e) \in {"queued", "acked", "refused"}
         /\ e \in outbox => (StageOf(e) = "acked" <=> e \in synced)
<1>1. issued \in Nat /\ (e \in outbox => ~(e > issued))
  BY SizesAssumption DEF SizesAssumption, TypeOK, DeviceTyped, Entry
<1>2. QED
  BY <1>1 DEF StageOf

\* Every step is a step of the ledger, or one it does not see.
LEMMA LedgerStep ==
  ASSUME AtMostOnceInv, DeliveredInv, [Next]_vars
  PROVE  [Ledger!LedgerNext]_(Ledger!ledgerVars)
<1> DEFINE Map == [e \in Entry |-> StageOf(e)]
<1>1. TypeOK /\ TypeOK' /\ applied \in [Entry -> Nat]
  BY TypesByNext DEF AtMostOnceInv, TypeOK, PostgresTyped
<1>2. /\ issued \in Nat /\ NumEntries \in Nat /\ outbox \subseteq 1..issued
      /\ synced \subseteq outbox /\ denied \subseteq outbox
      /\ outbox \subseteq Entry /\ Entry = 1..NumEntries
  BY <1>1, OutboxIsEntries, SizesAssumption
     DEF SizesAssumption, TypeOK, DeviceTyped, Entry
<1>3. CASE AppendOutbox
  <2>1. PICK new \in Entry : new = issued + 1 /\ StageOf(new) = "new"
    <3>1. issued + 1 \in Entry /\ StageOf(issued + 1) = "new"
      BY <1>2, <1>3 DEF AppendOutbox, StageOf
    <3>2. QED
      BY <3>1
  <2>2. StageOf(new)' = "queued"
    BY <1>2, <1>3, <2>1 DEF AppendOutbox, StageOf
  <2>3. \A e \in Entry : e # new => StageOf(e)' = StageOf(e)
    BY <1>2, <1>3, <2>1 DEF AppendOutbox, StageOf
  <2>4. Map' = [Map EXCEPT ![new] = "queued"]
    BY <2>1, <2>2, <2>3
  <2>5. applied' = applied
    BY <1>3 DEF AppendOutbox, postgres
  <2>6. Ledger!Queue(new)
    BY <2>1, <2>4, <2>5 DEF Ledger!Queue
  <2>7. QED
    BY <2>1, <2>6 DEF Ledger!LedgerNext
<1>4. ASSUME NEW D \in SUBSET outbox, DropRows(D)
      PROVE  Ledger!LedgerNext
  <2>1. D \in SUBSET Entry /\ \A e \in D : StageOf(e) # "new"
    BY <1>1, <1>2, StageMeans
  <2>2. \A e \in Entry : StageOf(e)' = IF e \in D THEN "discarded" ELSE StageOf(e)
    BY <1>2, <1>4 DEF DropRows, StageOf
  <2>3. applied' = applied
    BY <1>4 DEF DropRows, postgres
  <2>4. Ledger!Discard(D)
    BY <2>1, <2>2, <2>3 DEF Ledger!Discard
  <2>5. QED
    BY <2>1, <2>4 DEF Ledger!LedgerNext
<1>5. ASSUME NEW A \in SUBSET outbox, NEW R \in SUBSET outbox,
             \E s \in Slot : A \subseteq okd[s],
             synced' = synced \cup A, denied' = denied \cup R,
             UNCHANGED <<issued, outbox, postgres>>
      PROVE  Ledger!LedgerNext
  <2> DEFINE Refused == R \ (synced \cup A)
  <2>1. A \in SUBSET Entry /\ Refused \in SUBSET Entry
    BY <1>2
  <2>2. \A e \in A : applied[e] = 1
    <3>1. \A e \in A : e \in Entry /\ applied[e] >= 1 /\ applied[e] <= 1
      BY <1>5, <2>1 DEF AtMostOnceInv, AppliedAtMostOnce, DeliveredInv
    <3>2. QED
      BY <1>1, <3>1
  <2>3. \A e \in A : StageOf(e) \in {"queued", "refused", "acked"}
    BY <1>1, <2>1, StageMeans
  <2>4. \A e \in Refused : StageOf(e) \in {"queued", "refused"}
    BY <1>1, <2>1, StageMeans
  <2>5. \A e \in Entry : StageOf(e)' = IF e \in A THEN "acked"
                                       ELSE IF e \in Refused THEN "refused"
                                       ELSE StageOf(e)
    BY <1>2, <1>5 DEF StageOf
  <2>6. applied' = applied
    BY <1>5 DEF postgres
  <2> HIDE DEF Refused
  <2>7. Ledger!Settle(A, Refused)
    BY <2>1, <2>2, <2>3, <2>4, <2>5, <2>6 DEF Ledger!Settle
  <2>8. QED
    BY <2>1, <2>7 DEF Ledger!LedgerNext
<1>6. CASE UNCHANGED <<issued, outbox, synced, denied>>
  <2>1. Map' = Map
    BY <1>6 DEF StageOf
  <2>2. CASE applied' = applied
    BY <2>1, <2>2 DEF Ledger!ledgerVars
  <2>3. ASSUME NEW s \in Slot, NEW e \in Entry,
               ApplyAdjust(s, e) \/ ApplyLog(s, e), applied' # applied
        PROVE  Ledger!LedgerNext
    <3>1. e \in 1..issued
      BY <2>3 DEF AtMostOnceInv, ApplyAdjust, ApplyLog, NextOf
    <3>2. StageOf(e) # "new"
      BY <1>1, <1>2, <3>1, StageMeans
    <3>3. Unseen(e)
      BY <1>1, <2>3 DEF ApplyAdjust, ApplyLog
    <3>4. applied[e] = 0
      BY <2>3, <3>3 DEF AtMostOnceInv, ApplyAdjust, ApplyLog, NextOf
    <3>5. applied' = [applied EXCEPT ![e] = 1]
      BY <1>1, <2>3, <3>3, <3>4 DEF ApplyAdjust, ApplyLog
    <3>6. Ledger!Land(e)
      BY <2>1, <3>2, <3>4, <3>5 DEF Ledger!Land
    <3>7. QED
      BY <3>6 DEF Ledger!LedgerNext
  <2>4. QED
    BY <2>2, <2>3, PostgresSteps DEF postgres, ApiRestart
<1>7. QED
  BY <1>1, <1>3, <1>4, <1>5, <1>6, OutboxSteps

\* The write path implements the ledger for any number of writes, pushers and
\* requests: every row's story, told from the device's columns and the server's
\* data, is one the ledger allows, while nothing resendable is pruned.
THEOREM ImplementsTheLedger ==
  ASSUME RetryWindowHolds
  PROVE  Spec => ImplementsLedger
<1>1. Init => Ledger!LedgerInit
  <2> SUFFICES ASSUME Init PROVE Ledger!LedgerInit
    OBVIOUS
  <2>1. \A e \in Entry : StageOf(e) = "new"
    BY SizesAssumption DEF SizesAssumption, Init, StageOf, Entry
  <2>2. QED
    BY <2>1 DEF Init, Ledger!LedgerInit
<1>2. AtMostOnceInv /\ [Next]_vars => AtMostOnceInv'
  BY AtMostOnceByNext
<1>3. AtMostOnceInv /\ DeliveredInv /\ [Next]_vars
        => [Ledger!LedgerNext]_(Ledger!ledgerVars)
  BY LedgerStep
<1>4. QED
  BY <1>1, <1>2, <1>3, AtMostOnceAtInit, DeliveredAtInit, DeliveredByNext, PTL
     DEF Spec, ImplementsLedger, Ledger!LedgerSpec

-------------------------------------------------------------------------------
(* The stock when everything has been delivered. *)

\* Sums by their running totals: f[n] is the stock once those of the first n
\* entries that are in A have moved it.
Movement == Entry \ LogEntry
Totals(A, f) ==
  /\ f \in [0..NumEntries -> Int]
  /\ f[0] = Stock0
  /\ \A n \in Entry : f[n] = f[n - 1] + IF n \in A THEN Delta[n] ELSE 0

\* There is enough of the item: no movements together take more than there is.
StockSuffices ==
  \A A \in SUBSET Movement : \A f : Totals(A, f) => f[NumEntries] >= 0

\* The inductive invariant: the cell is off by the movements that landed and by
\* what the clamp swallowed.
Landed     == {e \in Movement : applied[e] >= 1}
BalanceInv == \E f : Totals(Landed, f) /\ stock = f[NumEntries] + forgiven

\* One movement more shifts the totals from its place on.
LEMMA TotalsWithOneMore ==
  ASSUME NEW A, NEW e \in Movement \ A, NEW f, Totals(A, f)
  PROVE  \E g : Totals(A \cup {e}, g) /\ g[NumEntries] = f[NumEntries] + Delta[e]
<1> DEFINE g == [n \in 0..NumEntries |-> IF n < e THEN f[n] ELSE f[n] + Delta[e]]
<1>1. /\ NumEntries \in Nat /\ e \in 1..NumEntries /\ Delta[e] \in Int
      /\ Delta \in [1..NumEntries -> Int]
  BY SizesAssumption, EntriesAssumption
     DEF SizesAssumption, EntriesAssumption, Entry, Movement
<1>2. g \in [0..NumEntries -> Int] /\ g[0] = Stock0
      /\ g[NumEntries] = f[NumEntries] + Delta[e]
  BY <1>1 DEF Totals
<1>3. ASSUME NEW n \in 1..NumEntries
      PROVE  g[n] = g[n - 1] + IF n \in A \cup {e} THEN Delta[n] ELSE 0
  <2>1. /\ n \in 0..NumEntries /\ n - 1 \in 0..NumEntries
        /\ f[n] \in Int /\ f[n - 1] \in Int /\ Delta[n] \in Int
        /\ f[n] = f[n - 1] + IF n \in A THEN Delta[n] ELSE 0
    BY <1>1 DEF Totals, Entry
  <2>2. /\ g[n] = IF n < e THEN f[n] ELSE f[n] + Delta[e]
        /\ g[n - 1] = IF n - 1 < e THEN f[n - 1] ELSE f[n - 1] + Delta[e]
    BY <2>1
  <2> HIDE DEF g
  <2>3. CASE n < e
    BY <1>1, <2>1, <2>2, <2>3
  <2>4. CASE n = e
    BY <1>1, <2>1, <2>2, <2>4
  <2>5. CASE n > e
    BY <1>1, <2>1, <2>2, <2>5
  <2> QED BY <1>1, <2>3, <2>4, <2>5
<1> QED BY <1>2, <1>3 DEF Totals, Entry

LEMMA BalanceAtInit == Init => BalanceInv
<1> SUFFICES ASSUME Init PROVE BalanceInv
  OBVIOUS
<1> DEFINE f == [n \in 0..NumEntries |-> Stock0]
<1>1. NumEntries \in Nat /\ Stock0 \in Nat /\ Entry = 1..NumEntries
  BY SizesAssumption DEF SizesAssumption, Entry
<1>2. Landed = {}
  BY DEF Init, Landed, Movement
<1>3. Totals({}, f) /\ f[NumEntries] = Stock0
  BY <1>1 DEF Totals
<1> QED BY <1>1, <1>2, <1>3 DEF BalanceInv, Init

\* Only an ADJUST the server has no record of moves stock, and that one has not
\* landed before.
LEMMA BalanceByNext ==
  ASSUME AtMostOnceInv, BalanceInv, [Next]_vars
  PROVE  /\ BalanceInv'
         /\ StockSuffices /\ forgiven = 0 => forgiven' = 0
<1>1. /\ TypeOK /\ applied \in [Entry -> Nat] /\ stock \in Nat /\ forgiven \in Nat
      /\ Delta \in [Entry -> Int] /\ NumEntries \in 0..NumEntries
  BY SizesAssumption, EntriesAssumption
     DEF SizesAssumption, EntriesAssumption, AtMostOnceInv, TypeOK, PostgresTyped
<1>2. PICK f : Totals(Landed, f) /\ stock = f[NumEntries] + forgiven
  BY DEF BalanceInv
<1>3. ASSUME UNCHANGED <<stock, forgiven, Landed>>
      PROVE  BalanceInv' /\ (StockSuffices /\ forgiven = 0 => forgiven' = 0)
  BY <1>2, <1>3 DEF BalanceInv
<1>4. ASSUME NEW s \in Slot, NEW e \in Entry, ApplyAdjust(s, e)
      PROVE  BalanceInv' /\ (StockSuffices /\ forgiven = 0 => forgiven' = 0)
  <2>1. CASE Unseen(e)
    <3>1. e \in todo[s] /\ e \in Movement /\ applied[e] = 0
      BY <1>4, <2>1 DEF AtMostOnceInv, ApplyAdjust, NextOf, Movement
    <3>2. /\ applied' = [applied EXCEPT ![e] = @ + 1]
          /\ stock' = AtLeastZero(stock + Delta[e])
          /\ forgiven' = forgiven + Shortfall(stock + Delta[e])
      BY <1>4, <2>1 DEF ApplyAdjust
    <3>3. Landed' = Landed \cup {e} /\ e \notin Landed
      BY <1>1, <3>1, <3>2 DEF Landed, Movement
    <3>4. PICK g : Totals(Landed \cup {e}, g) /\ g[NumEntries] = f[NumEntries] + Delta[e]
      BY <1>2, <3>1, <3>3, TotalsWithOneMore
    <3>5. g[NumEntries] \in Int /\ f[NumEntries] \in Int
      BY <1>1, <1>2, <3>4 DEF Totals
    <3>6. stock' = g[NumEntries] + forgiven'
      BY <1>1, <1>2, <3>2, <3>4, <3>5 DEF AtLeastZero, Shortfall
    <3>7. Totals(Landed', g)
      BY <3>3, <3>4
    <3>8. ASSUME StockSuffices, forgiven = 0 PROVE forgiven' = 0
      <4>1. Landed \cup {e} \in SUBSET Movement
        BY <3>1 DEF Landed
      <4>2. g[NumEntries] >= 0
        BY <3>4, <3>8, <4>1 DEF StockSuffices
      <4> QED BY <1>1, <1>2, <3>2, <3>4, <3>5, <3>8, <4>2 DEF Shortfall
    <3>9. BalanceInv'
      BY <3>6, <3>7 DEF BalanceInv, Totals
    <3> QED BY <3>8, <3>9
  <2>2. CASE ~Unseen(e)
    BY <1>3, <1>4, <2>2 DEF ApplyAdjust, Landed
  <2> QED BY <2>1, <2>2
<1>5. ASSUME NEW s \in Slot, NEW e \in Entry, ApplyLog(s, e)
      PROVE  BalanceInv' /\ (StockSuffices /\ forgiven = 0 => forgiven' = 0)
  <2>1. Landed' = Landed
    BY <1>1, <1>5 DEF ApplyLog, Landed, Movement
  <2> QED BY <1>3, <1>5, <2>1 DEF ApplyLog
<1>6. CASE UNCHANGED postgres \/ \E old \in SUBSET Entry : ApiRestart(old)
  BY <1>3, <1>6 DEF postgres, ApiRestart, Landed
<1> QED BY <1>4, <1>5, <1>6, PostgresSteps

\* Every set of numbers has a least member.
LEMMA LeastNumber ==
  ASSUME NEW T \in SUBSET Nat, T # {}
  PROVE  \E m \in T : \A k \in T : m <= k
<1> DEFINE Less == {ss \in Nat \X Nat : ss[1] < ss[2]}
<1>1. IsWellFoundedOn(Less, Nat)
  BY NatLessThanWellFounded DEF OpToRel
<1>2. \A k, m \in Nat : <<k, m>> \in Less <=> k < m
  OBVIOUS
<1> HIDE DEF Less
<1>3. PICK m \in T : \A k \in T : ~(<<k, m>> \in Less)
  BY <1>1, WFMin
<1>4. \A k \in T : m <= k
  <2> SUFFICES ASSUME NEW k \in T PROVE m <= k
    OBVIOUS
  <2>1. ~(k < m)
    BY <1>2, <1>3
  <2> QED BY <2>1
<1> QED BY <1>4

\* What entry n adds to the sum.
Adds(n) == IF n \in LogEntry THEN 0 ELSE Delta[n]

\* g has the partial sums up to n.
Partial(n, g) == g[0] = 0 /\ \A k \in 1..n : g[k] = g[k - 1] + Adds(k)

LEMMA PartialsExist == \A n \in Nat : \E g : Partial(n, g)
<1> DEFINE T == {n \in Nat : ~ \E g : Partial(n, g)}
<1> SUFFICES ASSUME T # {} PROVE FALSE
  OBVIOUS
<1>1. PICK m \in T : \A k \in T : m <= k
  BY LeastNumber
<1>2. m # 0
  <2>1. Partial(0, [k \in {0} |-> 0])
    BY DEF Partial
  <2> QED BY <2>1
<1>3. PICK g : Partial(m - 1, g)
  <2>1. m - 1 \in Nat /\ m - 1 \notin T
    BY <1>1, <1>2
  <2> QED BY <2>1
<1> DEFINE h == [k \in 0..m |-> IF k = m THEN g[m - 1] + Adds(m) ELSE g[k]]
<1>4. h[0] = 0
  BY <1>2, <1>3 DEF Partial
<1>5. ASSUME NEW k \in 1..m PROVE h[k] = h[k - 1] + Adds(k)
  <2>1. /\ h[k] = IF k = m THEN g[m - 1] + Adds(m) ELSE g[k]
        /\ h[k - 1] = g[k - 1]
    OBVIOUS
  <2>2. k # m => k \in 1..(m - 1) /\ g[k] = g[k - 1] + Adds(k)
    BY <1>3 DEF Partial
  <2> HIDE DEF h
  <2> QED BY <2>1, <2>2
<1>6. Partial(m, h)
  BY <1>4, <1>5 DEF Partial
<1> QED BY <1>6

LEMMA PartialsAgree ==
  ASSUME NEW n \in Nat, NEW g, NEW h, Partial(n, g), Partial(n, h)
  PROVE  \A k \in 0..n : g[k] = h[k]
<1> DEFINE T == {k \in 0..n : g[k] # h[k]}
<1> SUFFICES ASSUME T # {} PROVE FALSE
  OBVIOUS
<1>1. PICK m \in T : \A k \in T : m <= k
  <2>1. T \in SUBSET Nat
    OBVIOUS
  <2> QED BY <2>1, LeastNumber
<1>2. m \in 1..n
  BY <1>1 DEF Partial
<1>3. g[m - 1] = h[m - 1]
  <2>1. m - 1 \in 0..n /\ m - 1 \notin T
    BY <1>1, <1>2
  <2> QED BY <2>1
<1>4. g[m] = g[m - 1] + Adds(m) /\ h[m] = h[m - 1] + Adds(m)
  BY <1>2 DEF Partial
<1>5. g[m] # h[m]
  BY <1>1
<1> QED BY <1>3, <1>4, <1>5

\* The recursive definition defines what it says.
LEMMA SumOfDeltasIsTheSum ==
  \A n \in Nat : SumOfDeltas[n] = IF n = 0 THEN 0 ELSE SumOfDeltas[n - 1] + Adds(n)
<1> DEFINE part(n) == CHOOSE g : Partial(n, g)
           sum     == [n \in Nat |-> part(n)[n]]
<1>1. \A n \in Nat : Partial(n, part(n))
  BY PartialsExist
<1>2. ASSUME NEW n \in Nat \ {0} PROVE sum[n] = sum[n - 1] + Adds(n)
  <2>1. n - 1 \in Nat /\ n \in 1..n /\ n - 1 \in 0..(n - 1)
    OBVIOUS
  <2>2. Partial(n, part(n)) /\ Partial(n - 1, part(n - 1))
    BY <1>1, <2>1
  <2>3. Partial(n - 1, part(n))
    BY <2>2 DEF Partial
  <2> HIDE DEF part
  <2>4. part(n)[n - 1] = part(n - 1)[n - 1]
    BY <2>1, <2>2, <2>3, PartialsAgree
  <2>5. part(n)[n] = part(n)[n - 1] + Adds(n)
    BY <2>1, <2>2 DEF Partial
  <2> QED BY <2>1, <2>4, <2>5
<1>3. sum[0] = 0
  BY <1>1 DEF Partial
<1> HIDE DEF sum
<1>4. sum = [n \in Nat |->
               IF n = 0 THEN 0
               ELSE sum[n - 1] + IF n \in LogEntry THEN 0 ELSE Delta[n]]
  <2>1. \A n \in Nat : sum[n] = IF n = 0 THEN 0
               ELSE sum[n - 1] + IF n \in LogEntry THEN 0 ELSE Delta[n]
    BY <1>2, <1>3 DEF Adds
  <2>2. sum = [n \in Nat |-> sum[n]]
    BY DEF sum
  <2> QED BY <2>1, <2>2
<1>5. SumOfDeltas = [n \in Nat |->
               IF n = 0 THEN 0
               ELSE SumOfDeltas[n - 1] + IF n \in LogEntry THEN 0 ELSE Delta[n]]
  BY <1>4 DEF SumOfDeltas
<1> QED BY <1>5 DEF Adds

\* The totals of all movements end at the sum of the deltas.
LEMMA TotalsOfAll ==
  ASSUME NEW f, Totals(Movement, f)
  PROVE  f[NumEntries] = Stock0 + SumOfDeltas[NumEntries]
<1> DEFINE T == {n \in 0..NumEntries : ~(SumOfDeltas[n] \in Int /\ f[n] = Stock0 + SumOfDeltas[n])}
<1>1. NumEntries \in Nat /\ Stock0 \in Nat /\ Delta \in [1..NumEntries -> Int]
  BY SizesAssumption, EntriesAssumption DEF SizesAssumption, EntriesAssumption, Entry
<1>2. SUFFICES ASSUME T # {} PROVE FALSE
  BY <1>1
<1>3. PICK m \in T : \A k \in T : m <= k
  <2>1. T \in SUBSET Nat
    BY <1>1
  <2> QED BY <1>2, <2>1, LeastNumber
<1>4. m # 0
  <2>1. SumOfDeltas[0] = 0
    BY SumOfDeltasIsTheSum
  <2> QED BY <1>1, <2>1, <1>3 DEF Totals
<1>5. m \in 1..NumEntries /\ m - 1 \in 0..NumEntries /\ m - 1 \notin T
  BY <1>1, <1>3, <1>4
<1>6. SumOfDeltas[m - 1] \in Int /\ f[m - 1] = Stock0 + SumOfDeltas[m - 1]
  BY <1>5
<1>7. SumOfDeltas[m] = SumOfDeltas[m - 1] + Adds(m)
  BY <1>1, <1>5, SumOfDeltasIsTheSum
<1>8. f[m] = f[m - 1] + Adds(m)
  BY <1>5 DEF Totals, Movement, Entry, Adds
<1>9. Adds(m) \in Int
  BY <1>1, <1>5 DEF Adds
<1> QED BY <1>1, <1>3, <1>6, <1>7, <1>8, <1>9

\* For any number of movements, pushers and requests, whatever is retried,
\* repeated and reordered: once all are marked delivered, the server's cell is
\* off by exactly their sum and what the clamp at zero swallowed, while nothing
\* resendable is pruned.
THEOREM StockNetsOut ==
  ASSUME RetryWindowHolds
  PROVE  Spec => []NetStockWhenDrained
<1>1. AtMostOnceInv /\ BalanceInv /\ [Next]_vars => BalanceInv'
  BY BalanceByNext
<1>2. AtMostOnceInv /\ [Next]_vars => AtMostOnceInv'
  BY AtMostOnceByNext
<1>3. TypeOK /\ SyncedWasApplied /\ BalanceInv => NetStockWhenDrained
  <2> SUFFICES ASSUME SyncedWasApplied, BalanceInv, synced = Entry
               PROVE  stock = Stock0 + SumOfDeltas[NumEntries] + forgiven
    BY DEF NetStockWhenDrained
  <2>1. Landed = Movement
    BY DEF SyncedWasApplied, Landed, Movement
  <2> QED BY <2>1, TotalsOfAll DEF BalanceInv
<1> QED
  BY <1>1, <1>2, <1>3, AtMostOnceAtInit, BalanceAtInit, TypeCorrect, DeliveredWasApplied, PTL
     DEF Spec

\* The clamp swallows nothing, in whatever order the movements arrive, as long
\* as no set of them takes more than there is at the start.
NothingSwallowed == forgiven = 0

THEOREM ClampRests ==
  ASSUME RetryWindowHolds, StockSuffices
  PROVE  Spec => []NothingSwallowed
<1>1. AtMostOnceInv /\ BalanceInv /\ NothingSwallowed /\ [Next]_vars
        => NothingSwallowed'
  BY BalanceByNext DEF NothingSwallowed
<1>2. AtMostOnceInv /\ BalanceInv /\ [Next]_vars => BalanceInv'
  BY BalanceByNext
<1>3. AtMostOnceInv /\ [Next]_vars => AtMostOnceInv'
  BY AtMostOnceByNext
<1>4. Init => NothingSwallowed
  BY DEF Init, NothingSwallowed
<1> QED
  BY <1>1, <1>2, <1>3, <1>4, AtMostOnceAtInit, BalanceAtInit, PTL DEF Spec

===============================================================================
