---------------------------- MODULE RowWrites_proof -----------------------------
(* Proofs about RowWrites, for any number of devices, rows and writes. *)
EXTENDS RowWrites, FiniteSetTheorems, TLAPS

\* An abbreviation that every step may look through.
USE DEF Queued

\* What the statement of an accepted entry leaves in the tables is typed, and
\* no row is without its parent.
LEMMA CarryTyped ==
  ASSUME TypeOK, NEW w \in Queued, HasParent(w), Carry(w), UNCHANGED <<queue, disturbed>>
  PROVE  PostgresTyped' /\ References'
<1> DEFINE r == queue[w].row
<1>1. /\ queue[w] \in Entry /\ r \in Row /\ queue[w].op \in Op
      /\ Len(queue) \in Nat /\ w \in 0..Len(queue) /\ w # 0
  <2>1. queue \in Seq(Entry) /\ Len(queue) \in Nat
    BY DEF TypeOK, QueueTyped
  <2>2. queue[w] \in Entry
    BY <2>1
  <2> QED BY <2>1, <2>2 DEF Entry
<1>2. content \in [Row -> 0..Len(queue)]
  BY DEF TypeOK, PostgresTyped
<1>3. Parent \in [Row -> Row \cup {NoRow}] /\ NoRow \notin Row
      /\ \A q \in Row : Parent[q] # NoRow => Parent[Parent[q]] = NoRow
  BY RowsAssumption DEF RowsAssumption
<1>4. content' \in [Row -> 0..Len(queue)]
  BY <1>1, <1>2 DEF Carry, Written, Op
<1>5. \A q \in Row : content'[q] # 0 => content'[q] = content[q] \/ (q = r /\ content'[q] = w)
  BY <1>1, <1>2 DEF Carry, Written, Op
<1>6. PostgresTyped'
  BY <1>4, <1>5, <1>1, <1>2 DEF TypeOK, PostgresTyped, Carry
<1>7. References'
  <2> SUFFICES ASSUME NEW q \in Row, content'[q] # 0, Parent[q] # NoRow
               PROVE  content'[Parent[q]] # 0
    BY DEF References
  <2>1. Parent[q] \in Row
    BY <1>3
  <2>2. content[q] # 0 => content[Parent[q]] # 0
    BY DEF TypeOK, References
  <2>3. CASE queue[w].op = "INSERT"
    <3>1. \A p \in Row : content[p] # 0 => content'[p] # 0
      BY <1>1, <1>2, <2>3 DEF Carry, Written
    <3>2. CASE q = r
      BY <3>1, <3>2, <2>1, <2>3 DEF HasParent
    <3>3. CASE q # r
      BY <3>1, <3>3, <2>1, <2>2, <2>3, <1>1, <1>2 DEF Carry, Written
    <3> QED BY <3>2, <3>3
  <2>4. CASE queue[w].op = "UPDATE"
    BY <1>1, <1>2, <2>1, <2>2, <2>4 DEF Carry, Written
  <2>5. CASE queue[w].op = "DELETE"
    <3>1. content' = [p \in Row |-> IF p \in {r} \cup Children(r) THEN 0 ELSE content[p]]
      BY <2>5 DEF Carry, Written
    <3>2. q \notin {r} \cup Children(r) /\ content[q] # 0
      BY <3>1
    <3>3. Parent[q] # r
      BY <3>2 DEF Children
    <3>4. Parent[q] \notin Children(r)
      BY <1>1, <1>3 DEF Children
    <3> QED BY <3>1, <3>2, <3>3, <3>4, <2>1, <2>2
  <2> QED BY <1>1, <2>3, <2>4, <2>5 DEF Op
<1> QED BY <1>6, <1>7


\* Queueing a write keeps the types: the earlier entries stay as they are.
LEMMA AppendTyped ==
  ASSUME TypeOK, NEW d \in Device, NEW o \in Op, NEW r \in Row,
         NEW rows \in SUBSET Row, Append1(d, o, r, rows)
  PROVE  TypeOK'
<1> DEFINE e == [by |-> d, op |-> o, row |-> r]
<1>1. queue \in Seq(Entry) /\ Len(queue) \in Nat /\ Len(queue) < NumWrites
  BY DEF TypeOK, QueueTyped, Append1
<1>2. e \in Entry /\ queue' = Append(queue, e)
  BY DEF Entry, Append1
<1>3. /\ queue' \in Seq(Entry) /\ Len(queue') = Len(queue) + 1
      /\ \A w \in Queued : queue'[w] = queue[w]
  BY <1>1, <1>2
<1>4. NumWrites \in Nat /\ Len(queue) + 1 \in Write
  BY <1>1, BoundsAssumption DEF BoundsAssumption, Write
<1>5. QueueTyped'
  <2>1. /\ status \in [Write -> {"none", "pending", "synced", "forbidden", "missing", "unread"}]
        /\ status' = [status EXCEPT ![Len(queue) + 1] = "pending"]
        /\ \A w \in Write : status[w] = "none" <=> w \notin Queued
    BY DEF TypeOK, QueueTyped, Append1
  <2>2. \A w \in Write : status'[w] = "none" <=> w \notin Queued'
    BY <2>1, <1>1, <1>3, <1>4 DEF Write
  <2>3. local' \in [Device -> SUBSET Row] /\ attempts' \in [Write -> 0..MaxAttempts]
    BY DEF TypeOK, QueueTyped, Append1
  <2>4. Len(queue') <= NumWrites
    BY <1>1, <1>3, <1>4
  <2>5. status' \in [Write -> {"none", "pending", "synced", "forbidden", "missing", "unread"}]
    BY <2>1
  <2> QED BY <2>2, <2>3, <2>4, <2>5, <1>3, Zenon DEF QueueTyped
<1>6. UNCHANGED <<attempts, verdict, freeze, late, lateFreeze, frozen, content, disturbed>>
  BY DEF Append1, requests, lates, postgres
<1>7. Queued \subseteq Queued'
  BY <1>1, <1>3
<1>8. RequestsTyped'
  <2>1. \A c \in Device : \A w \in Write : verdict'[c][w] # "out" =>
          w \in Queued' /\ queue'[w].by = c /\ attempts'[w] < MaxAttempts
    BY <1>3, <1>6, <1>7 DEF TypeOK, RequestsTyped
  <2>2. /\ verdict' \in [Device ->
             [Write -> {"out", "todo", "ok", "forbidden", "missing", "unread", "retry"}]]
        /\ freeze' \in [Device -> BOOLEAN] /\ lateFreeze' \in [Device -> BOOLEAN]
    BY <1>6, Zenon DEF TypeOK, RequestsTyped
  <2>3. late' \in [Device -> SUBSET Queued']
    <3>1. late \in [Device -> SUBSET Queued] /\ late' = late
      BY <1>6 DEF TypeOK, RequestsTyped
    <3> QED BY <3>1, <1>7
  <2> QED BY <2>1, <2>2, <2>3 DEF RequestsTyped
<1>9. PostgresTyped'
  <2>1. content \in [Row -> 0..Len(queue)] /\ disturbed \subseteq Device /\ frozen \in BOOLEAN
        /\ \A q \in Row : content[q] # 0 => queue[content[q]].row = q
    BY DEF TypeOK, PostgresTyped
  <2>2. \A q \in Row : content[q] # 0 => queue'[content[q]].row = q
    BY <1>1, <1>3, <2>1
  <2> QED BY <1>1, <1>3, <1>6, <2>1, <2>2 DEF PostgresTyped
<1>10. References'
  BY <1>6 DEF TypeOK, References
<1> QED BY <1>5, <1>8, <1>9, <1>10 DEF TypeOK

\* The server's tables and the queue stay, and so does what is said of them.
LEMMA TablesKept ==
  ASSUME TypeOK, UNCHANGED <<queue, postgres>>, disturbed' \subseteq Device
  PROVE  PostgresTyped' /\ References'
BY DEF TypeOK, PostgresTyped, References, postgres

LEMMA DeviceKept ==
  ASSUME TypeOK, UNCHANGED <<queue, status, attempts, local>>
  PROVE  QueueTyped'
BY DEF TypeOK, QueueTyped

LEMMA RequestsKept ==
  ASSUME TypeOK, UNCHANGED <<queue, attempts, requests, lates>>
  PROVE  RequestsTyped'
BY DEF TypeOK, RequestsTyped, requests, lates

\* A request that is over leaves no verdict behind.
LEMMA CloseTyped ==
  ASSUME TypeOK, NEW d \in Device, Close(d), UNCHANGED <<queue, lates>>,
         \A c \in Device \ {d} : \A w \in Write :
           verdict[c][w] # "out" => attempts'[w] = attempts[w]
  PROVE  RequestsTyped'
<1>1. /\ verdict' = [verdict EXCEPT ![d] = NoVerdict]
      /\ freeze' = [freeze EXCEPT ![d] = FALSE]
  BY DEF Close
<1>2. /\ verdict \in [Device ->
           [Write -> {"out", "todo", "ok", "forbidden", "missing", "unread", "retry"}]]
      /\ freeze \in [Device -> BOOLEAN]
  BY DEF TypeOK, RequestsTyped
<1>3. verdict' \in [Device ->
        [Write -> {"out", "todo", "ok", "forbidden", "missing", "unread", "retry"}]]
  BY <1>1, <1>2 DEF NoVerdict
<1>4. freeze' \in [Device -> BOOLEAN]
  BY <1>1, <1>2, Zenon
<1>5. \A c \in Device : \A w \in Write : verdict'[c][w] # "out" =>
        w \in Queued /\ queue[w].by = c /\ attempts'[w] < MaxAttempts
  <2> SUFFICES ASSUME NEW c \in Device, NEW w \in Write, verdict'[c][w] # "out"
               PROVE  w \in Queued /\ queue[w].by = c /\ attempts'[w] < MaxAttempts
    OBVIOUS
  <2>1. c # d /\ verdict'[c] = verdict[c]
    BY <1>1, <1>2 DEF NoVerdict
  <2> QED BY <2>1 DEF TypeOK, RequestsTyped
<1> QED BY <1>3, <1>4, <1>5 DEF RequestsTyped, TypeOK, lates

\* Counting attempts of what d has posted keeps within the limit, and leaves
\* the writes in the requests of the others alone.
LEMMA CountTyped ==
  ASSUME TypeOK, NEW d \in Device, NEW S \in SUBSET Asked(d), Count(d, S)
  PROVE  /\ attempts' \in [Write -> 0..MaxAttempts]
         /\ disturbed' \subseteq Device
         /\ \A c \in Device \ {d} : \A w \in Write :
              verdict[c][w] # "out" => attempts'[w] = attempts[w]
<1>1. /\ attempts \in [Write -> 0..MaxAttempts] /\ disturbed \subseteq Device
      /\ MaxAttempts \in Nat
  BY BoundsAssumption DEF TypeOK, QueueTyped, PostgresTyped, BoundsAssumption
<1>2. \A w \in S : w \in Write /\ verdict[d][w] # "out"
  BY DEF Asked, Marked
<1>3. \A w \in S : attempts[w] < MaxAttempts /\ queue[w].by = d
  BY <1>2 DEF TypeOK, RequestsTyped
<1>4. attempts' = [w \in Write |-> IF w \in S THEN attempts[w] + 1 ELSE attempts[w]]
  BY DEF Count
<1>5. attempts' \in [Write -> 0..MaxAttempts]
  BY <1>1, <1>3, <1>4
<1>6. disturbed' \subseteq Device
  BY <1>1 DEF Count
<1>7. ASSUME NEW c \in Device \ {d}, NEW w \in Write, verdict[c][w] # "out"
      PROVE  attempts'[w] = attempts[w]
  <2>1. queue[w].by = c
    BY <1>7 DEF TypeOK, RequestsTyped
  <2>2. w \notin S
    BY <2>1, <1>3
  <2> QED BY <2>2, <1>4
<1> QED BY <1>5, <1>6, <1>7

\* One entry of a request gets its verdict.
LEMMA TakesTyped ==
  ASSUME TypeOK, NEW d \in Device, NEW w \in Write,
         NEW v \in {"ok", "forbidden", "missing", "unread", "retry"}, Takes(d, w, v)
  PROVE  QueueTyped' /\ RequestsTyped' /\ w \in Queued
<1>1. UNCHANGED <<queue, status, attempts, local, freeze, late, lateFreeze>>
  BY DEF Takes, lates
<1>2. verdict[d][w] = "todo"
  BY DEF Takes, FirstOf, Undecided, Marked
<1>3. w \in Queued /\ queue[w].by = d /\ attempts[w] < MaxAttempts
  BY <1>2 DEF TypeOK, RequestsTyped
<1>4. /\ verdict \in [Device ->
           [Write -> {"out", "todo", "ok", "forbidden", "missing", "unread", "retry"}]]
      /\ verdict' = [verdict EXCEPT ![d][w] = v]
  BY DEF TypeOK, RequestsTyped, Takes
<1>5. verdict' \in [Device ->
        [Write -> {"out", "todo", "ok", "forbidden", "missing", "unread", "retry"}]]
  BY <1>4
<1>6. \A c \in Device : \A x \in Write : verdict'[c][x] # "out" =>
        verdict[c][x] # "out" \/ (c = d /\ x = w)
  BY <1>4
<1>7. RequestsTyped'
  BY <1>1, <1>3, <1>5, <1>6 DEF TypeOK, RequestsTyped
<1> QED BY <1>1, <1>3, <1>7, DeviceKept

-------------------------------------------------------------------------------
\* Every state is typed, and Postgres never holds a row without its parent.
THEOREM TypeCorrect == Spec => []TypeOK
<1>1. Init => TypeOK
  <2> SUFFICES ASSUME Init PROVE TypeOK
    OBVIOUS
  <2>1. Queued = {} /\ Len(queue) = 0 /\ queue \in Seq(Entry)
    BY DEF Init
  <2>2. QueueTyped
    BY <2>1, BoundsAssumption DEF Init, QueueTyped, BoundsAssumption
  <2>3. RequestsTyped
    BY <2>1 DEF Init, RequestsTyped, NoVerdict
  <2>4. PostgresTyped /\ References
    <3>1. content = [r \in Row |-> 0] /\ disturbed = {} /\ frozen = FALSE
      BY DEF Init
    <3>2. content \in [Row -> 0..Len(queue)] /\ \A r \in Row : content[r] = 0
      BY <2>1, <3>1
    <3>3. frozen \in BOOLEAN /\ disturbed \subseteq Device
      BY <3>1, Zenon
    <3> QED BY <3>2, <3>3 DEF PostgresTyped, References
  <2> QED BY <2>2, <2>3, <2>4 DEF TypeOK
<1>2. TypeOK /\ [Next]_vars => TypeOK'
  <2> SUFFICES ASSUME TypeOK, [Next]_vars PROVE TypeOK'
    OBVIOUS
  <2>1. CASE UNCHANGED vars
    BY <2>1, TablesKept, DeviceKept, RequestsKept
       DEF TypeOK, PostgresTyped, vars
  <2>2. CASE ToggleFreeze
    <3>1. QueueTyped' /\ RequestsTyped'
      BY <2>2, DeviceKept, RequestsKept DEF ToggleFreeze
    <3>2. PostgresTyped' /\ References'
      BY <2>2 DEF ToggleFreeze, TypeOK, PostgresTyped, References
    <3> QED BY <3>1, <3>2 DEF TypeOK
  <2>3. ASSUME NEW d \in Device, LocalWrite(d) PROVE TypeOK'
    <3>1. local[d] \subseteq Row
      BY DEF TypeOK, QueueTyped
    <3>2. PICK r \in Row : Create(d, r) \/ Overwrite(d, r) \/ Update(d, r) \/ Remove(d, r)
      BY <2>3 DEF LocalWrite
    <3>3. \E o \in Op : \E rows \in SUBSET Row : Append1(d, o, r, rows)
      BY <3>1, <3>2 DEF Create, Overwrite, Update, Remove, Op
    <3> QED BY <3>3, AppendTyped
  <2>4. ASSUME NEW d \in Device, Pull(d) PROVE TypeOK'
    <3>1. QueueTyped'
      BY <2>4 DEF Pull, TypeOK, QueueTyped
    <3>2. RequestsTyped' /\ PostgresTyped' /\ References'
      BY <2>4, RequestsKept, TablesKept DEF Pull, TypeOK, PostgresTyped
    <3> QED BY <3>1, <3>2 DEF TypeOK
  <2>5. ASSUME NEW d \in Device, RetryFailedOutbox(d) PROVE TypeOK'
    <3>1. /\ attempts \in [Write -> 0..MaxAttempts] /\ 0 \in 0..MaxAttempts
          /\ MaxAttempts \in Nat
      BY BoundsAssumption DEF TypeOK, QueueTyped, BoundsAssumption
    <3>2. /\ attempts' \in [Write -> 0..MaxAttempts]
          /\ \A w \in Write : attempts[w] < MaxAttempts => attempts'[w] = attempts[w]
      BY <2>5, <3>1 DEF RetryFailedOutbox
    <3>3. UNCHANGED <<queue, status, local, verdict, freeze, late, lateFreeze,
                      frozen, content, disturbed>>
      BY <2>5 DEF RetryFailedOutbox, requests, lates, postgres
    <3>4. QueueTyped'
      BY <3>2, <3>3 DEF TypeOK, QueueTyped
    <3>5. RequestsTyped'
      BY <3>2, <3>3 DEF TypeOK, RequestsTyped
    <3>6. PostgresTyped' /\ References'
      BY <3>3, TablesKept DEF TypeOK, PostgresTyped, postgres
    <3> QED BY <3>4, <3>5, <3>6 DEF TypeOK
  <2>6. ASSUME NEW d \in Device, Post(d) PROVE TypeOK'
    <3>1. \A w \in Batch(d) : w \in Queued /\ queue[w].by = d /\ attempts[w] < MaxAttempts
      BY DEF Batch, Pending
    <3>2. UNCHANGED <<queue, status, attempts, local, lates, postgres, disturbed>>
      BY <2>6 DEF Post
    <3>3. verdict' \in [Device ->
            [Write -> {"out", "todo", "ok", "forbidden", "missing", "unread", "retry"}]]
      BY <2>6 DEF Post, TypeOK, RequestsTyped
    <3>4. ASSUME NEW c \in Device, NEW w \in Write, verdict'[c][w] # "out"
          PROVE  w \in Queued /\ queue[w].by = c /\ attempts[w] < MaxAttempts
      <4>1. (c = d /\ w \in Batch(d)) \/ verdict[c][w] # "out"
        BY <2>6, <3>4 DEF Post, TypeOK, RequestsTyped
      <4> QED BY <4>1, <3>1 DEF TypeOK, RequestsTyped
    <3>5. freeze' \in [Device -> BOOLEAN]
      BY <2>6, Zenon DEF Post, TypeOK, RequestsTyped, PostgresTyped
    <3>6. RequestsTyped'
      BY <3>2, <3>3, <3>4, <3>5 DEF TypeOK, RequestsTyped, lates
    <3> QED BY <3>2, <3>6, DeviceKept, TablesKept DEF TypeOK, PostgresTyped
  <2>7. ASSUME NEW d \in Device, Answered(d) PROVE TypeOK'
    <3>1. /\ Count(d, Marked(d, "retry")) /\ Close(d)
          /\ UNCHANGED <<queue, local, lates, postgres>>
      BY <2>7 DEF Answered
    <3>2. Marked(d, "retry") \in SUBSET Asked(d)
      BY DEF Marked, Asked
    <3>3. /\ attempts' \in [Write -> 0..MaxAttempts] /\ disturbed' \subseteq Device
          /\ RequestsTyped'
      BY <3>1, <3>2, CountTyped, CloseTyped
    <3>4. \A w \in Write : verdict[d][w] # "out" => w \in Queued
      BY DEF TypeOK, RequestsTyped
    <3>5. /\ status' \in [Write -> {"none", "pending", "synced", "forbidden", "missing", "unread"}]
          /\ \A w \in Write : status'[w] = "none" <=> w \notin Queued
      BY <2>7, <3>4 DEF Answered, TypeOK, QueueTyped
    <3>6. QueueTyped'
      BY <3>1, <3>3, <3>5 DEF TypeOK, QueueTyped
    <3> QED BY <3>1, <3>3, <3>6, TablesKept DEF TypeOK
  <2>8. ASSUME NEW d \in Device, HttpError(d) PROVE TypeOK'
    <3>1. Count(d, Asked(d)) /\ Close(d) /\ UNCHANGED <<queue, status, local, lates, postgres>>
      BY <2>8 DEF HttpError
    <3>2. /\ attempts' \in [Write -> 0..MaxAttempts] /\ disturbed' \subseteq Device
          /\ RequestsTyped'
      BY <3>1, CountTyped, CloseTyped
    <3>3. QueueTyped'
      BY <3>1, <3>2 DEF TypeOK, QueueTyped
    <3> QED BY <3>1, <3>2, <3>3, TablesKept DEF TypeOK
  <2>9. ASSUME NEW d \in Device, NoAnswer(d) PROVE TypeOK'
    BY <2>9, CloseTyped, DeviceKept, TablesKept
       DEF NoAnswer, TypeOK, PostgresTyped
  <2>10. ASSUME NEW d \in Device, GiveUp(d) PROVE TypeOK'
    <3>1. /\ late' = [late EXCEPT ![d] = Undecided(d)]
          /\ lateFreeze' = [lateFreeze EXCEPT ![d] = freeze[d]]
          /\ verdict' = [verdict EXCEPT ![d] = NoVerdict]
          /\ freeze' = [freeze EXCEPT ![d] = FALSE]
          /\ UNCHANGED <<queue, status, attempts, local, postgres>>
          /\ disturbed' = disturbed \cup {d}
      BY <2>10 DEF GiveUp, Close
    <3>2. Undecided(d) \subseteq Queued
      BY DEF Undecided, Marked, TypeOK, RequestsTyped
    <3>3. late' \in [Device -> SUBSET Queued]
      BY <3>1, <3>2 DEF TypeOK, RequestsTyped
    <3>4. freeze' \in [Device -> BOOLEAN] /\ lateFreeze' \in [Device -> BOOLEAN]
      BY <3>1, Zenon DEF TypeOK, RequestsTyped
    <3>5. verdict' \in [Device ->
            [Write -> {"out", "todo", "ok", "forbidden", "missing", "unread", "retry"}]]
      BY <3>1 DEF NoVerdict, TypeOK, RequestsTyped
    <3>6. \A c \in Device : \A w \in Write : verdict'[c][w] # "out" => verdict[c][w] # "out"
      BY <3>1 DEF NoVerdict, TypeOK, RequestsTyped
    <3>7. RequestsTyped'
      BY <3>1, <3>3, <3>4, <3>5, <3>6 DEF TypeOK, RequestsTyped
    <3>8. disturbed' \subseteq Device
      BY <3>1 DEF TypeOK, PostgresTyped
    <3> QED BY <3>1, <3>7, <3>8, DeviceKept, TablesKept DEF TypeOK
  <2>11. ASSUME NEW d \in Device, NEW w \in Write, Decide(d, w) PROVE TypeOK'
    <3>1. disturbed \cup {d} \subseteq Device
      BY DEF TypeOK, PostgresTyped
    <3>2. CASE DecideFrozen(d, w) \/ DecideForbidden(d, w) \/ DecideUnread(d, w)
               \/ DecideMissing(d, w) \/ DecideFails(d, w)
      <4>1. \E v \in {"ok", "forbidden", "missing", "unread", "retry"} : Takes(d, w, v)
        BY <3>2 DEF DecideFrozen, DecideForbidden, DecideUnread, DecideMissing, DecideFails
      <4>2. UNCHANGED postgres /\ disturbed' \subseteq Device
        BY <3>1, <3>2 DEF DecideFrozen, DecideForbidden, DecideUnread, DecideMissing, DecideFails
      <4>3. QueueTyped' /\ RequestsTyped' /\ UNCHANGED queue
        BY <4>1, TakesTyped DEF Takes
      <4> QED BY <4>2, <4>3, TablesKept DEF TypeOK
    <3>3. CASE DecideOk(d, w)
      <4>1. Takes(d, w, "ok") /\ HasParent(w) /\ Carry(w) /\ UNCHANGED <<queue, disturbed>>
        BY <3>3 DEF DecideOk, Takes
      <4> QED BY <4>1, TakesTyped, CarryTyped DEF TypeOK
    <3>4. CASE LateStep(d, w)
      <4>1. /\ w \in late[d] /\ late' = [late EXCEPT ![d] = @ \ {w}]
            /\ UNCHANGED <<queue, status, attempts, local, requests, disturbed>>
        BY <3>4 DEF LateStep, FirstOf
      <4>2. w \in Queued /\ late' \in [Device -> SUBSET Queued]
        BY <4>1 DEF TypeOK, RequestsTyped
      <4>3. lateFreeze' \in [Device -> BOOLEAN]
        BY <3>4, Zenon DEF LateStep, TypeOK, RequestsTyped
      <4>4. QueueTyped' /\ RequestsTyped'
        BY <4>1, <4>2, <4>3, DeviceKept DEF TypeOK, RequestsTyped, requests
      <4>5. PostgresTyped' /\ References'
        BY <3>1, <3>4, <4>1, <4>2, CarryTyped, TablesKept DEF LateStep
      <4> QED BY <4>4, <4>5 DEF TypeOK
    <3> QED BY <2>11, <3>2, <3>3, <3>4 DEF Decide
  <2> QED BY <2>1, <2>2, <2>3, <2>4, <2>5, <2>6, <2>7, <2>8, <2>9, <2>10, <2>11
         DEF Next
<1> QED BY <1>1, <1>2, PTL DEF Spec

\* The tables move by the carrying out of a queued write, or not at all.
LEMMA TablesMove ==
  ASSUME TypeOK, [Next]_vars
  PROVE  UNCHANGED content \/ \E w \in Queued : Carry(w) /\ UNCHANGED queue
<1>1. ASSUME NEW d \in Device, NEW w \in Write, DecideOk(d, w) PROVE w \in Queued
  BY <1>1, TakesTyped DEF DecideOk
<1>2. ASSUME NEW d \in Device, NEW w \in Write, LateStep(d, w) PROVE w \in Queued
  BY <1>2 DEF LateStep, FirstOf, TypeOK, RequestsTyped
<1>3. CASE ToggleFreeze
  BY <1>3 DEF ToggleFreeze
<1>4. ASSUME NEW d \in Device, LocalWrite(d) PROVE UNCHANGED content
  BY <1>4 DEF LocalWrite, Create, Overwrite, Update, Remove, Append1, postgres
<1>5. ASSUME NEW d \in Device,
             \/ Pull(d) \/ RetryFailedOutbox(d) \/ Post(d) \/ Answered(d)
             \/ HttpError(d) \/ NoAnswer(d) \/ GiveUp(d)
      PROVE  UNCHANGED content
  BY <1>5 DEF Pull, RetryFailedOutbox, Post, Answered, HttpError, NoAnswer, GiveUp,
              postgres
<1>6. ASSUME NEW d \in Device, NEW w \in Write, Decide(d, w)
      PROVE  UNCHANGED content \/ (Carry(w) /\ w \in Queued /\ UNCHANGED queue)
  BY <1>6, <1>1, <1>2 DEF Decide, DecideFrozen, DecideForbidden, DecideUnread, DecideMissing,
                          DecideFails, DecideOk, LateStep, Takes, postgres
<1>7. CASE UNCHANGED vars
  BY <1>7 DEF vars, postgres
<1> QED BY <1>3, <1>4, <1>5, <1>6, <1>7 DEF Next

\* In a table without upsert no repeated creation, late or not, takes back an
\* edit: what an UPDATE has written only an UPDATE replaces.
THEOREM CreationsAreFinal == Spec => CreateNeverReopens
<1> DEFINE Kept == \A r \in NoUpsert :
             (content[r] # 0 /\ content'[r] # 0 /\ queue[content[r]].op = "UPDATE")
               => queue[content'[r]].op = "UPDATE"
<1>1. TypeOK /\ [Next]_vars => [Kept]_vars
  <2> SUFFICES ASSUME TypeOK, Next, NEW r \in NoUpsert, content[r] # 0,
                      content'[r] # 0, queue[content[r]].op = "UPDATE"
               PROVE  queue[content'[r]].op = "UPDATE"
    OBVIOUS
  <2>1. r \in Row /\ content \in [Row -> 0..Len(queue)]
    BY RowsAssumption DEF RowsAssumption, TypeOK, PostgresTyped
  <2>2. CASE UNCHANGED content
    BY <2>2
  <2>3. ASSUME NEW w \in Queued, Carry(w), UNCHANGED queue
        PROVE  queue[content'[r]].op = "UPDATE"
    <3>1. queue[w].op \in Op /\ queue[w].row \in Row /\ w # 0
      <4>1. queue \in Seq(Entry) /\ w # 0
        BY <2>3 DEF TypeOK, QueueTyped
      <4>2. queue[w] \in Entry
        BY <2>3, <4>1
      <4> QED BY <4>1, <4>2 DEF Entry
    <3>2. CASE queue[w].op = "INSERT"
      BY <2>1, <2>3, <3>1, <3>2 DEF Carry, Written
    <3>3. CASE queue[w].op = "UPDATE"
      BY <2>1, <2>3, <3>1, <3>3 DEF Carry, Written
    <3>4. CASE queue[w].op = "DELETE"
      BY <2>1, <2>3, <3>1, <3>4 DEF Carry, Written
    <3> QED BY <3>1, <3>2, <3>3, <3>4 DEF Op
  <2> QED BY <2>2, <2>3, TablesMove
<1> QED BY <1>1, TypeCorrect, PTL DEF Spec, CreateNeverReopens

-------------------------------------------------------------------------------
(* What the queue tells about the rows. *)

SameRow(v, w) == queue[v].row = queue[w].row

\* A device works on rows that somebody created, so the first write of a row
\* is an INSERT, and the only one in a table where an INSERT is no upsert; a
\* device whose user may not manage locations writes a shelf in no other way
\* than by creating it; a row holds what no DELETE wrote; and no attempt is
\* counted for a write that is not queued yet.
Histories ==
  /\ \A d \in Device : local[d] \subseteq Created
  /\ \A w \in Queued :
       \E i \in Queued : i <= w /\ queue[i].op = "INSERT" /\ SameRow(i, w)
  /\ \A i, j \in Queued :
       /\ queue[i].op = "INSERT" /\ queue[j].op = "INSERT" /\ SameRow(i, j)
       /\ queue[i].row \in NoUpsert
       => i = j
  /\ \A w \in Queued :
       ~MayManage(queue[w].by, queue[w].row) =>
         queue[w].op = "INSERT" /\ \A v \in Queued : v < w => ~SameRow(v, w)
  /\ \A r \in Row : content[r] # 0 => queue[content[r]].op # "DELETE"
  /\ \A w \in Write \ Queued : attempts[w] = 0

LEMMA WritesTyped ==
  ASSUME TypeOK
  PROVE  /\ Len(queue) \in Nat /\ queue \in Seq(Entry) /\ NumWrites \in Nat
         /\ \A w \in Queued :
              /\ w \in Write /\ w \in Nat /\ w # 0 /\ queue[w] \in Entry
              /\ queue[w].by \in Device /\ queue[w].row \in Row /\ queue[w].op \in Op
<1>1. Len(queue) \in Nat /\ queue \in Seq(Entry) /\ NumWrites \in Nat /\ Len(queue) <= NumWrites
  BY BoundsAssumption DEF BoundsAssumption, TypeOK, QueueTyped
<1>2. \A w \in Queued : w \in Write /\ w \in Nat /\ w # 0 /\ queue[w] \in Entry
  BY <1>1 DEF Write
<1> QED BY <1>1, <1>2 DEF Entry

\* A new write comes last, and is pending and in nobody's request.
LEMMA Appended ==
  ASSUME TypeOK, NEW d \in Device, NEW o \in Op, NEW r \in Row,
         NEW rows \in SUBSET Row, Append1(d, o, r, rows),
         NEW n, n = Len(queue) + 1
  PROVE  /\ Queued' = Queued \cup {n} /\ n \notin Queued /\ n \in Write
         /\ \A w \in Queued : w < n /\ queue'[w] = queue[w] /\ status'[w] = status[w]
         /\ queue'[n] = [by |-> d, op |-> o, row |-> r] /\ status'[n] = "pending"
         /\ \A c \in Device : verdict[c][n] = "out" /\ n \notin late[c]
         /\ local'[d] = rows /\ \A c \in Device \ {d} : local'[c] = local[c]
         /\ UNCHANGED <<attempts, requests, lates, postgres, disturbed>>
<1> DEFINE e == [by |-> d, op |-> o, row |-> r]
<1>1. /\ Len(queue) \in Nat /\ queue \in Seq(Entry) /\ NumWrites \in Nat
      /\ Len(queue) < NumWrites /\ e \in Entry /\ queue' = Append(queue, e)
  BY WritesTyped DEF Append1, Entry
<1>2. Len(queue') = Len(queue) + 1 /\ queue'[n] = e /\ \A w \in Queued : queue'[w] = queue[w]
  BY <1>1
<1>3. Queued' = Queued \cup {n} /\ n \notin Queued /\ n \in Write /\ \A w \in Queued : w < n
  BY <1>1, <1>2 DEF Write
<1>4. Queued \subseteq Write
  BY WritesTyped
<1>5. status' = [status EXCEPT ![n] = "pending"]
  BY DEF Append1
<1>6. status'[n] = "pending" /\ \A w \in Queued : status'[w] = status[w]
  BY <1>3, <1>4, <1>5 DEF TypeOK, QueueTyped
<1>7. \A c \in Device : verdict[c][n] = "out" /\ n \notin late[c]
  BY <1>3 DEF TypeOK, RequestsTyped
<1>8. local'[d] = rows /\ \A c \in Device \ {d} : local'[c] = local[c]
  BY DEF Append1, TypeOK, QueueTyped
<1> QED BY <1>2, <1>3, <1>6, <1>7, <1>8 DEF Append1

\* What a row holds after a write was carried out is what it held, or that
\* write, which is then no DELETE.
LEMMA CarriedOut ==
  ASSUME TypeOK, NEW w \in Queued, Carry(w)
  PROVE  \A r \in Row : content'[r] # 0 =>
           \/ content'[r] = content[r]
           \/ content'[r] = w /\ queue[w].op \in {"INSERT", "UPDATE"}
<1>1. queue[w].op \in Op /\ queue[w].row \in Row /\ content \in [Row -> 0..Len(queue)]
  BY WritesTyped DEF TypeOK, PostgresTyped
<1> QED BY <1>1 DEF Carry, Written, Op

\* A write queued for row r: the device knows the row, so that somebody has
\* created it, or creates it.
LEMMA HistoriesByWrite ==
  ASSUME TypeOK, Histories, NEW d \in Device, LocalWrite(d)
  PROVE  Histories'
<1>1. PICK r \in Row : Create(d, r) \/ Overwrite(d, r) \/ Update(d, r) \/ Remove(d, r)
  BY DEF LocalWrite
<1>2. PICK o \in Op, rows \in SUBSET Row :
        /\ Append1(d, o, r, rows)
        /\ \/ /\ o = "INSERT" /\ r \notin Created /\ rows = local[d] \cup {r}
           \/ /\ r \in local[d] /\ rows \subseteq local[d] /\ MayManage(d, r)
              /\ o = "INSERT" => r \notin NoUpsert
  <2>1. local[d] \subseteq Row
    BY DEF TypeOK, QueueTyped
  <2> QED BY <1>1, <2>1 DEF Create, Overwrite, Update, Remove, Op
<1>0. PICK n : n = Len(queue) + 1
  OBVIOUS
<1>3. /\ Queued' = Queued \cup {n} /\ n \notin Queued /\ n \in Write
      /\ \A w \in Queued : w < n /\ queue'[w] = queue[w]
      /\ queue'[n] = [by |-> d, op |-> o, row |-> r]
      /\ local'[d] = rows /\ \A c \in Device \ {d} : local'[c] = local[c]
      /\ UNCHANGED <<attempts, postgres>>
  BY <1>0, <1>2, Appended
<1>4. Created' = Created \cup (IF o = "INSERT" THEN {r} ELSE {})
  BY <1>3 DEF Created
<1>5. /\ n \in Nat /\ n <= n
      /\ \A w \in Queued : w \in Nat /\ w # 0 /\ queue[w].by \in Device /\ queue[w].row \in Row
  BY <1>0, WritesTyped
<1>6. /\ queue'[n].by = d /\ queue'[n].op = o /\ queue'[n].row = r
      /\ \A v, w \in Queued : SameRow(v, w)' <=> SameRow(v, w)
      /\ \A v \in Queued : SameRow(v, n)' <=> queue[v].row = r
  BY <1>3 DEF SameRow
<1>7. \A c \in Device : local'[c] \subseteq Created'
  <2>1. \A c \in Device : local[c] \subseteq Created
    BY DEF Histories
  <2> QED BY <1>2, <1>3, <1>4, <2>1
\* The first write of the row.
<1>8. r \in Created => \E i \in Queued : queue[i].op = "INSERT" /\ queue[i].row = r
  BY DEF Created
<1>9. r \in local[d] => r \in Created
  BY DEF Histories
<1>10. \A w \in Queued' :
         \E i \in Queued' : i <= w /\ queue'[i].op = "INSERT" /\ SameRow(i, w)'
  <2>1. ASSUME NEW w \in Queued
        PROVE  \E i \in Queued' : i <= w /\ queue'[i].op = "INSERT" /\ SameRow(i, w)'
    <3>1. PICK i \in Queued : i <= w /\ queue[i].op = "INSERT" /\ SameRow(i, w)
      BY DEF Histories
    <3> QED BY <1>3, <1>6, <3>1
  <2>2. \E i \in Queued' : i <= n /\ queue'[i].op = "INSERT" /\ SameRow(i, n)'
    <3>1. CASE o = "INSERT"
      BY <1>3, <1>5, <1>6, <3>1 DEF SameRow
    <3>2. CASE o # "INSERT"
      <4>1. PICK i \in Queued : queue[i].op = "INSERT" /\ queue[i].row = r
        BY <1>2, <1>8, <1>9, <3>2
      <4>2. i <= n
        BY <1>3, <1>5
      <4> QED BY <1>3, <1>6, <4>1, <4>2
    <3> QED BY <3>1, <3>2
  <2> QED BY <1>3, <2>1, <2>2
<1>11. \A i, j \in Queued' :
         /\ queue'[i].op = "INSERT" /\ queue'[j].op = "INSERT" /\ SameRow(i, j)'
         /\ queue'[i].row \in NoUpsert
         => i = j
  <2>1. \A v \in Queued : queue[v].op = "INSERT" /\ queue[v].row = r => r \in Created
    BY DEF Created
  <2>2. o = "INSERT" /\ r \in NoUpsert => r \notin Created
    BY <1>2
  <2>3. \A i, j \in Queued :
          /\ queue[i].op = "INSERT" /\ queue[j].op = "INSERT" /\ SameRow(i, j)
          /\ queue[i].row \in NoUpsert
          => i = j
    BY DEF Histories
  <2> QED BY <1>3, <1>6, <2>1, <2>2, <2>3 DEF SameRow
<1>12. \A w \in Queued' :
         ~MayManage(queue'[w].by, queue'[w].row) =>
           queue'[w].op = "INSERT" /\ \A v \in Queued' : v < w => ~SameRow(v, w)'
  <2>1. ASSUME NEW w \in Queued, ~MayManage(queue[w].by, queue[w].row)
        PROVE  queue'[w].op = "INSERT" /\ \A v \in Queued' : v < w => ~SameRow(v, w)'
    <3>1. queue[w].op = "INSERT" /\ \A v \in Queued : v < w => ~SameRow(v, w)
      BY <2>1 DEF Histories
    <3>2. ~(n < w)
      BY <1>3, <1>5
    <3> QED BY <1>3, <1>6, <3>1, <3>2
  <2>2. ASSUME ~MayManage(d, r)
        PROVE  o = "INSERT" /\ \A v \in Queued : ~SameRow(v, n)'
    <3>1. o = "INSERT" /\ r \notin Created
      BY <1>2, <2>2
    <3>2. ASSUME NEW v \in Queued, queue[v].row = r PROVE FALSE
      <4>1. PICK i \in Queued : queue[i].op = "INSERT" /\ SameRow(i, v)
        BY DEF Histories
      <4> QED BY <3>1, <3>2, <4>1 DEF Created, SameRow
    <3> QED BY <1>6, <3>1, <3>2
  <2>3. ~(n < n)
    BY <1>5
  <2> QED BY <1>3, <1>6, <2>1, <2>2, <2>3
<1>13. \A q \in Row : content'[q] # 0 => queue'[content'[q]].op # "DELETE"
  <2>1. content' = content /\ content \in [Row -> 0..Len(queue)]
    BY <1>3 DEF postgres, TypeOK, PostgresTyped
  <2>2. \A q \in Row : content[q] # 0 => content[q] \in Queued /\ queue[content[q]].op # "DELETE"
    BY <2>1, WritesTyped DEF Histories
  <2> QED BY <1>3, <2>1, <2>2
<1>14. \A w \in Write \ Queued' : attempts'[w] = 0
  BY <1>3 DEF Histories
<1> QED BY <1>7, <1>10, <1>11, <1>12, <1>13, <1>14 DEF Histories

\* Any other step leaves the queue as it is.
LEMMA HistoriesByRest ==
  ASSUME TypeOK, Histories, UNCHANGED queue,
         UNCHANGED content \/ \E w \in Queued : Carry(w),
         \A d \in Device : local'[d] \subseteq local[d] \cup {r \in Row : content[r] # 0},
         \A w \in Write \ Queued : attempts'[w] = 0
  PROVE  Histories'
<1>1. content \in [Row -> 0..Len(queue)]
      /\ \A r \in Row : content[r] # 0 => queue[content[r]].row = r
  BY DEF TypeOK, PostgresTyped
<1>2. \A r \in Row : content[r] # 0 => content[r] \in Queued
  BY <1>1, WritesTyped
<1>3. \A r \in Row : content[r] # 0 => r \in Created
  <2> SUFFICES ASSUME NEW r \in Row, content[r] # 0 PROVE r \in Created
    OBVIOUS
  <2>1. content[r] \in Queued /\ queue[content[r]].row = r
    BY <1>1, <1>2
  <2>2. PICK i \in Queued : queue[i].op = "INSERT" /\ SameRow(i, content[r])
    BY <2>1 DEF Histories
  <2> QED BY <2>1, <2>2 DEF Created, SameRow
<1>4. \A d \in Device : local'[d] \subseteq Created
  BY <1>3 DEF Histories
<1>5. \A r \in Row : content'[r] # 0 => queue[content'[r]].op # "DELETE"
  <2>1. CASE UNCHANGED content
    BY <2>1 DEF Histories
  <2>2. ASSUME NEW w \in Queued, Carry(w)
        PROVE  \A r \in Row : content'[r] # 0 => queue[content'[r]].op # "DELETE"
    BY <2>2, CarriedOut DEF Histories
  <2> QED BY <2>1, <2>2
<1>6. Created' = Created
  BY DEF Created
<1>7. \A v, w \in Queued : SameRow(v, w)' <=> SameRow(v, w)
  BY DEF SameRow
<1> QED BY <1>4, <1>5, <1>6, <1>7 DEF Histories

LEMMA CountKeepsZero ==
  ASSUME TypeOK, Histories, NEW d \in Device, NEW S \in SUBSET Asked(d), Count(d, S)
  PROVE  \A w \in Write \ Queued : attempts'[w] = 0
<1>1. \A w \in S : w \in Queued
  BY DEF Asked, Marked, TypeOK, RequestsTyped
<1> QED BY <1>1 DEF Count, Histories

LEMMA HistoriesByNext == TypeOK /\ Histories /\ [Next]_vars => Histories'
<1> SUFFICES ASSUME TypeOK, Histories, [Next]_vars PROVE Histories'
  OBVIOUS
<1>1. UNCHANGED content \/ \E w \in Queued : Carry(w)
  BY TablesMove
<1>2. ASSUME UNCHANGED <<queue, local>>, \A w \in Write \ Queued : attempts'[w] = 0
      PROVE  Histories'
  BY <1>1, <1>2, HistoriesByRest
<1>3. ASSUME UNCHANGED <<queue, local, attempts>> PROVE Histories'
  BY <1>2, <1>3 DEF Histories
<1>4. ASSUME NEW d \in Device, Pull(d) PROVE Histories'
  <2>1. /\ UNCHANGED <<queue, attempts>>
        /\ \A c \in Device : local'[c] \subseteq local[c] \cup {r \in Row : content[r] # 0}
    BY <1>4 DEF Pull, TypeOK, QueueTyped
  <2> QED BY <1>1, <2>1, HistoriesByRest DEF Histories
<1>5. ASSUME NEW d \in Device, RetryFailedOutbox(d) PROVE Histories'
  <2>1. UNCHANGED <<queue, local>> /\ \A w \in Write \ Queued : attempts'[w] = 0
    BY <1>5 DEF RetryFailedOutbox, Histories
  <2> QED BY <1>2, <2>1
<1>6. ASSUME NEW d \in Device, Answered(d) \/ HttpError(d) PROVE Histories'
  <2>1. UNCHANGED <<queue, local>> /\ \E S \in SUBSET Asked(d) : Count(d, S)
    BY <1>6 DEF Answered, HttpError, Marked, Asked
  <2> QED BY <1>2, <2>1, CountKeepsZero
<1>7. ASSUME NEW d \in Device,
             Post(d) \/ NoAnswer(d) \/ GiveUp(d) \/ \E w \in Write : Decide(d, w)
      PROVE  Histories'
  BY <1>3, <1>7 DEF Post, NoAnswer, GiveUp, Decide, DecideFrozen, DecideForbidden, DecideUnread,
                    DecideMissing, DecideOk, DecideFails, LateStep, Takes
<1>8. CASE ToggleFreeze \/ UNCHANGED vars
  BY <1>3, <1>8 DEF ToggleFreeze, vars
<1> QED BY <1>4, <1>5, <1>6, <1>7, <1>8, HistoriesByWrite DEF Next

-------------------------------------------------------------------------------
(* The order in which a device delivers. *)

Own(d) == {w \in Queued : queue[w].by = d}

\* A request asks for pending writes and decides them in their order; one that
\* met the freeze decides nothing but that all are to be retried.  What a
\* handler has still to do for a device that gave up is that device's.
Sequenced(d) ==
  /\ \A w \in Own(d) : verdict[d][w] # "out" => status[w] = "pending"
  /\ \A v, w \in Own(d) :
       v < w /\ verdict[d][v] = "todo" => verdict[d][w] \in {"out", "todo"}
  /\ \A w \in Own(d) :
       verdict[d][w] \in {"ok", "forbidden", "missing", "unread"} => ~Held(d)
  /\ late[d] \subseteq Own(d)

\* While nothing has broken its order: no write is exhausted, what is pending
\* comes after what is not, a request takes the first of it, and there is no
\* handler but the current one, which lets entries wait only in a freeze.
InOrder(d) ==
  /\ \A w \in Own(d) : attempts[w] < MaxAttempts
  /\ \A v, w \in Own(d) : v < w /\ status[v] = "pending" =>
       /\ status[w] = "pending"
       /\ verdict[d][w] # "out" => verdict[d][v] # "out"
  /\ \A w \in Own(d) : verdict[d][w] = "retry" => Held(d)
  /\ late[d] = {}

Line(d) == Sequenced(d) /\ (d \notin disturbed => InOrder(d))

LEMMA LineStands ==
  ASSUME TypeOK, NEW d \in Device, Line(d), UNCHANGED queue,
         verdict'[d] = verdict[d], freeze'[d] = freeze[d], late'[d] = late[d],
         d \in disturbed => d \in disturbed',
         \A w \in Own(d) : status'[w] = status[w] /\ attempts'[w] \in {0, attempts[w]}
  PROVE  Line(d)'
<1>1. Own(d)' = Own(d)
  BY DEF Own
<1>2. Sequenced(d)'
  BY <1>1 DEF Line, Sequenced, Held, FreezeSeen
<1>3. 0 < MaxAttempts
  BY BoundsAssumption DEF BoundsAssumption
<1>4. d \notin disturbed' => InOrder(d)'
  BY <1>1, <1>3 DEF Line, InOrder, Held, FreezeSeen
<1> QED BY <1>2, <1>4 DEF Line

\* A request that is over, and of which S is to be tried again.
LEMMA LineByClose ==
  ASSUME TypeOK, NEW d \in Device, Line(d), Close(d), UNCHANGED <<queue, status>>,
         late'[d] = late[d] \/ (d \in disturbed' /\ late'[d] = Undecided(d)),
         \/ UNCHANGED attempts /\ (d \in disturbed => d \in disturbed')
         \/ \E S \in SUBSET Asked(d) : Count(d, S)
  PROVE  Line(d)'
<1>1. Own(d)' = Own(d)
  BY DEF Own
<1>2. \A w \in Own(d) : w \in Write
  BY WritesTyped DEF Own
<1>3. \A w \in Write : verdict'[d][w] = "out"
  BY DEF Close, NoVerdict, TypeOK, RequestsTyped
<1>4. Sequenced(d)'
  <2>1. Undecided(d) \subseteq Own(d)
    BY DEF Undecided, Marked, Own, TypeOK, RequestsTyped
  <2> QED BY <1>1, <1>2, <1>3, <2>1 DEF Line, Sequenced
<1>5. ASSUME d \notin disturbed' PROVE InOrder(d)'
  <2>1. d \notin disturbed /\ late'[d] = late[d]
    BY <1>5 DEF Count
  <2>2. \A w \in Own(d)' : attempts'[w] < MaxAttempts
    <3>1. \A w \in Own(d) : attempts[w] < MaxAttempts /\ attempts[w] \in Nat
      BY <1>2, <2>1, BoundsAssumption
         DEF Line, InOrder, TypeOK, QueueTyped, BoundsAssumption
    <3>2. CASE UNCHANGED attempts
      BY <1>1, <3>1, <3>2
    <3>3. ASSUME NEW S \in SUBSET Asked(d), Count(d, S)
          PROVE  \A w \in Own(d) : attempts'[w] < MaxAttempts
      <4>1. \A w \in S : attempts[w] + 1 # MaxAttempts
        BY <1>5, <3>3 DEF Count
      <4>2. \A w \in Own(d) : attempts'[w] \in {attempts[w]} \/ (w \in S /\ attempts'[w] = attempts[w] + 1)
        BY <1>2, <3>3 DEF Count
      <4> QED BY <3>1, <4>1, <4>2, BoundsAssumption DEF BoundsAssumption
    <3> QED BY <1>1, <3>2, <3>3
  <2>3. \A w \in Own(d)' : verdict'[d][w] = "out"
    BY <1>1, <1>2, <1>3
  <2> QED BY <1>1, <2>1, <2>2, <2>3 DEF Line, InOrder
<1> QED BY <1>4, <1>5 DEF Line

LEMMA LineByAnswer ==
  ASSUME TypeOK, NEW d \in Device, Line(d), Answered(d)
  PROVE  Line(d)'
<1>0. /\ Close(d) /\ Count(d, Marked(d, "retry")) /\ UNCHANGED <<queue, lates>>
      /\ Undecided(d) = {}
  BY DEF Answered
<1>1. Own(d)' = Own(d) /\ late'[d] = late[d]
  BY <1>0 DEF Own, lates
<1>2. \A w \in Own(d) : w \in Write /\ verdict[d][w] # "todo"
  BY <1>0, WritesTyped DEF Own, Undecided, Marked
<1>3. \A w \in Write : verdict'[d][w] = "out"
  BY <1>0 DEF Close, NoVerdict, TypeOK, RequestsTyped
<1>4. Sequenced(d)'
  BY <1>1, <1>2, <1>3 DEF Line, Sequenced
<1>5. ASSUME d \notin disturbed' PROVE InOrder(d)'
  <2>1. d \notin disturbed /\ InOrder(d)
    BY <1>0, <1>5 DEF Count, Line
  <2>2. \A w \in Own(d) : attempts'[w] < MaxAttempts
    <3>1. \A w \in Own(d) : attempts[w] < MaxAttempts /\ attempts[w] \in Nat
      BY <1>2, <2>1, BoundsAssumption DEF InOrder, TypeOK, QueueTyped, BoundsAssumption
    <3>2. \A w \in Marked(d, "retry") : attempts[w] + 1 # MaxAttempts
      BY <1>0, <1>5 DEF Count
    <3>3. \A w \in Own(d) :
            \/ attempts'[w] = attempts[w]
            \/ w \in Marked(d, "retry") /\ attempts'[w] = attempts[w] + 1
      BY <1>0, <1>2 DEF Count
    <3> QED BY <3>1, <3>2, <3>3, BoundsAssumption DEF BoundsAssumption
  <2>3. ASSUME NEW v \in Own(d), NEW w \in Own(d), v < w, status'[v] = "pending"
        PROVE  status'[w] = "pending"
    <3>1. \A x \in Own(d) : verdict[d][x] \in {"out", "ok", "forbidden", "missing", "unread", "retry"}
      BY <1>2 DEF TypeOK, RequestsTyped
    <3>2. \A x \in Own(d) :
            /\ verdict[d][x] \in {"out", "retry"} => status'[x] = status[x]
            /\ verdict[d][x] \in {"ok", "forbidden", "missing", "unread"} => status'[x] # "pending"
      BY <1>2 DEF Answered
    <3>3. status[v] = "pending" /\ verdict[d][v] \in {"out", "retry"}
      BY <2>3, <3>1, <3>2
    <3>4. status[w] = "pending" /\ (verdict[d][w] # "out" => verdict[d][v] = "retry")
      BY <2>1, <2>3, <3>3 DEF InOrder
    <3>5. verdict[d][w] \notin {"ok", "forbidden", "missing", "unread"}
      BY <2>1, <3>4 DEF InOrder, Line, Sequenced
    <3> QED BY <3>1, <3>2, <3>4, <3>5
  <2>4. \A w \in Own(d) : verdict'[d][w] = "out"
    BY <1>2, <1>3
  <2> QED BY <1>1, <2>1, <2>2, <2>3, <2>4 DEF InOrder
<1> QED BY <1>4, <1>5 DEF Line

\* A request takes the first of what is pending.
LEMMA LineByPost ==
  ASSUME TypeOK, NEW d \in Device, Line(d), Post(d)
  PROVE  Line(d)'
<1>0. /\ UNCHANGED <<queue, status, attempts, late, disturbed>>
      /\ \A w \in Write : verdict'[d][w] = IF w \in Batch(d) THEN "todo" ELSE "out"
  BY DEF Post, lates, TypeOK, RequestsTyped
<1>1. Own(d)' = Own(d)
  BY <1>0 DEF Own
<1>2. \A w \in Own(d) : w \in Write /\ w \in Nat
  BY WritesTyped DEF Own
<1>3. \A w \in Batch(d) : status[w] = "pending" /\ w \in Own(d)
  BY DEF Batch, Pending, Own
<1>4. Sequenced(d)'
  BY <1>0, <1>1, <1>2, <1>3 DEF Line, Sequenced
<1>5. ASSUME d \notin disturbed PROVE InOrder(d)'
  <2>1. InOrder(d)
    BY <1>5 DEF Line
  <2>2. ASSUME NEW v \in Own(d), NEW w \in Batch(d), v < w, status[v] = "pending"
        PROVE  v \in Batch(d)
    <3> DEFINE V == {x \in Pending(d) : x < v}
               W == {x \in Pending(d) : x < w}
    <3>1. v \in Pending(d) /\ attempts[v] < MaxAttempts
      BY <2>1, <2>2 DEF Pending, Own, InOrder
    <3>2. IsFiniteSet(W)
      <4>1. IsFiniteSet(Queued)
        BY WritesTyped, FS_Interval
      <4> QED BY <4>1, FS_Subset DEF Pending
    <3>3. V \subseteq W
      <4>1. \A x \in Pending(d) : x \in Nat
        BY WritesTyped DEF Pending
      <4> QED BY <1>2, <1>3, <2>2, <4>1
    <3>4. IsFiniteSet(V) /\ Cardinality(V) <= Cardinality(W)
      BY <3>2, <3>3, FS_Subset
    <3>5. Cardinality(V) \in Nat /\ Cardinality(W) \in Nat
      BY <3>2, <3>4, FS_CardinalityType
    <3>6. Cardinality(W) < BatchLimit
      BY DEF Batch
    <3> HIDE DEF V, W
    <3>7. Cardinality(V) < BatchLimit
      BY <3>4, <3>5, <3>6, BoundsAssumption DEF BoundsAssumption
    <3> QED BY <3>1, <3>7 DEF Batch, V
  <2>3. \A w \in Own(d) : verdict'[d][w] # "retry" /\ (verdict'[d][w] # "out" <=> w \in Batch(d))
    BY <1>0, <1>2
  <2> QED BY <1>0, <1>1, <2>1, <2>2, <2>3 DEF InOrder
<1> QED BY <1>0, <1>4, <1>5 DEF Line

\* The next entry of the request gets its verdict.
LEMMA LineByTake ==
  ASSUME TypeOK, NEW d \in Device, Line(d), NEW w \in Write,
         NEW v \in {"ok", "forbidden", "missing", "unread", "retry"}, Takes(d, w, v),
         v = "retry" => Held(d) \/ d \in disturbed',
         v # "retry" => ~Held(d),
         d \in disturbed => d \in disturbed'
  PROVE  Line(d)'
<1>1. UNCHANGED <<queue, status, attempts, freeze, late>>
  BY DEF Takes, lates
<1>2. Own(d)' = Own(d) /\ \A x \in Own(d) : x \in Write /\ x \in Nat
  BY <1>1, WritesTyped DEF Own
<1>3. verdict'[d][w] = v /\ \A x \in Write : x # w => verdict'[d][x] = verdict[d][x]
  BY DEF Takes, TypeOK, RequestsTyped
<1>4. verdict[d][w] = "todo" /\ w \in Own(d) /\ \A x \in Own(d) : verdict[d][x] = "todo" => w <= x
  BY <1>2 DEF Takes, FirstOf, Undecided, Marked, TypeOK, RequestsTyped, Own
<1>5. Sequenced(d)'
  <2>1. \A x \in Own(d) : verdict'[d][x] # "out" => status[x] = "pending"
    BY <1>2, <1>3, <1>4 DEF Line, Sequenced
  <2>2. ASSUME NEW x \in Own(d), NEW y \in Own(d), x < y, verdict'[d][x] = "todo"
        PROVE  verdict'[d][y] \in {"out", "todo"}
    <3>1. x # w /\ verdict[d][x] = "todo"
      BY <1>2, <1>3, <2>2
    <3>2. w <= x /\ y # w
      BY <1>2, <1>4, <2>2, <3>1
    <3> QED BY <1>2, <1>3, <2>2, <3>1, <3>2 DEF Line, Sequenced
  <2>3. \A x \in Own(d) : verdict'[d][x] \in {"ok", "forbidden", "missing", "unread"} => ~Held(d)
    BY <1>2, <1>3 DEF Line, Sequenced
  <2> QED BY <1>1, <1>2, <2>1, <2>2, <2>3 DEF Line, Sequenced, Held, FreezeSeen
<1>6. d \notin disturbed' => InOrder(d)'
  BY <1>1, <1>2, <1>3, <1>4 DEF Line, InOrder, Held, FreezeSeen
<1> QED BY <1>5, <1>6 DEF Line

LEMMA LineByWrite ==
  ASSUME TypeOK, Histories, NEW c \in Device, LocalWrite(c), NEW d \in Device, Line(d)
  PROVE  Line(d)'
<1>1. PICK o \in Op, r \in Row, rows \in SUBSET Row : Append1(c, o, r, rows)
  <2>1. local[c] \subseteq Row
    BY DEF TypeOK, QueueTyped
  <2> QED BY <2>1 DEF LocalWrite, Create, Overwrite, Update, Remove, Op
<1>2. PICK n : n = Len(queue) + 1
  OBVIOUS
<1>3. /\ Queued' = Queued \cup {n} /\ n \notin Queued /\ n \in Write
      /\ \A w \in Queued : w < n /\ queue'[w] = queue[w] /\ status'[w] = status[w]
      /\ status'[n] = "pending" /\ verdict[d][n] = "out"
      /\ UNCHANGED <<attempts, verdict, freeze, late, disturbed>>
  BY <1>1, <1>2, Appended DEF requests, lates
<1>4. /\ Own(d)' \subseteq Own(d) \cup {n} /\ Own(d) \subseteq Queued
      /\ Own(d) \subseteq Own(d)'
      /\ \A w \in Own(d) : w \in Nat /\ w < n /\ status'[w] = status[w]
      /\ n \in Nat /\ attempts[n] = 0
  BY <1>3, WritesTyped DEF Own, Histories, Write
<1>5. /\ ~(n < n) /\ \A w \in Own(d) : ~(n < w)
      /\ 0 < MaxAttempts
  BY <1>4, BoundsAssumption DEF BoundsAssumption
<1>6. Sequenced(d)'
  BY <1>3, <1>4, <1>5 DEF Line, Sequenced, Held, FreezeSeen
<1>7. d \notin disturbed' => InOrder(d)'
  BY <1>3, <1>4, <1>5 DEF Line, InOrder, Held, FreezeSeen
<1> QED BY <1>6, <1>7 DEF Line

\* What one device's request does is of no concern to another device.
LEMMA LineApart ==
  ASSUME TypeOK, NEW c \in Device, NEW d \in Device, c # d, Line(d),
         \/ Post(c) \/ Answered(c) \/ HttpError(c) \/ NoAnswer(c) \/ GiveUp(c)
         \/ \E w \in Write : Decide(c, w)
  PROVE  Line(d)'
<1>1. /\ verdict \in [Device ->
           [Write -> {"out", "todo", "ok", "forbidden", "missing", "unread", "retry"}]]
      /\ freeze \in [Device -> BOOLEAN] /\ late \in [Device -> SUBSET Queued]
  BY DEF TypeOK, RequestsTyped
<1>2. \A w \in Own(d) : w \in Write /\ verdict[c][w] = "out" /\ w \notin Asked(c)
  BY WritesTyped DEF Own, Asked, Marked, TypeOK, RequestsTyped
<1>3. ASSUME NEW S \in SUBSET Asked(c), Count(c, S)
      PROVE  /\ \A w \in Own(d) : attempts'[w] = attempts[w]
             /\ d \in disturbed => d \in disturbed'
  BY <1>2, <1>3 DEF Count
<1>4. ASSUME Close(c) PROVE verdict'[d] = verdict[d] /\ freeze'[d] = freeze[d]
  BY <1>1, <1>4 DEF Close
<1>5. CASE Post(c)
  BY <1>1, <1>5, LineStands DEF Post, lates
<1>6. CASE Answered(c)
  <2>1. \A w \in Own(d) : status'[w] = status[w]
    BY <1>2, <1>6 DEF Answered
  <2>2. Marked(c, "retry") \in SUBSET Asked(c)
    BY DEF Marked, Asked
  <2> QED BY <1>3, <1>4, <1>6, <2>1, <2>2, LineStands DEF Answered, lates
<1>7. CASE HttpError(c) \/ NoAnswer(c)
  BY <1>3, <1>4, <1>7, LineStands DEF HttpError, NoAnswer, lates
<1>8. CASE GiveUp(c)
  BY <1>1, <1>4, <1>8, LineStands DEF GiveUp
<1>9. ASSUME NEW w \in Write, Decide(c, w) PROVE Line(d)'
  <2>1. ASSUME NEW v, Takes(c, w, v) PROVE verdict'[d] = verdict[d]
    BY <1>1, <2>1 DEF Takes
  <2>2. /\ verdict'[d] = verdict[d] /\ late'[d] = late[d] /\ freeze'[d] = freeze[d]
        /\ UNCHANGED <<queue, status, attempts>>
        /\ d \in disturbed => d \in disturbed'
    BY <1>1, <1>9, <2>1 DEF Decide, DecideFrozen, DecideForbidden, DecideUnread, DecideMissing,
         DecideOk, DecideFails, LateStep, Takes, requests, lates
  <2> QED BY <2>2, LineStands
<1> QED BY <1>5, <1>6, <1>7, <1>8, <1>9

LEMMA LineByDecide ==
  ASSUME TypeOK, NEW d \in Device, NEW w \in Write, Decide(d, w), Line(d)
  PROVE  Line(d)'
<1>1. CASE DecideFrozen(d, w)
  BY <1>1, LineByTake DEF DecideFrozen
<1>2. CASE DecideForbidden(d, w) \/ DecideUnread(d, w)
  BY <1>2, LineByTake DEF DecideForbidden, DecideUnread
<1>3. CASE DecideMissing(d, w)
  BY <1>3, LineByTake DEF DecideMissing
<1>4. CASE DecideOk(d, w)
  BY <1>4, LineByTake DEF DecideOk
<1>5. CASE DecideFails(d, w)
  BY <1>5, LineByTake DEF DecideFails
<1>6. CASE LateStep(d, w)
  <2>1. d \in disturbed /\ late'[d] \subseteq late[d]
    BY <1>6 DEF LateStep, FirstOf, Line, InOrder, TypeOK, RequestsTyped
  <2>2. UNCHANGED <<queue, status, attempts, verdict, freeze, disturbed>>
    BY <1>6 DEF LateStep, requests
  <2>3. Own(d)' = Own(d)
    BY <2>2 DEF Own
  <2> QED BY <2>1, <2>2, <2>3 DEF Line, Sequenced, Held, FreezeSeen
<1> QED BY <1>1, <1>2, <1>3, <1>4, <1>5, <1>6 DEF Decide

LEMMA LinesByNext ==
  TypeOK /\ Histories /\ (\A d \in Device : Line(d)) /\ [Next]_vars
    => (\A d \in Device : Line(d))'
<1> SUFFICES ASSUME TypeOK, Histories, \A d \in Device : Line(d), [Next]_vars,
                    NEW d \in Device
             PROVE  Line(d)'
  OBVIOUS
<1>0. Line(d)
  OBVIOUS
<1>1. CASE ToggleFreeze \/ UNCHANGED vars
  BY <1>0, <1>1, LineStands DEF ToggleFreeze, vars, requests, lates
<1>2. ASSUME NEW c \in Device, LocalWrite(c) PROVE Line(d)'
  BY <1>0, <1>2, LineByWrite
<1>3. ASSUME NEW c \in Device, Pull(c) PROVE Line(d)'
  BY <1>0, <1>3, LineStands DEF Pull, requests, lates
<1>4. ASSUME NEW c \in Device, RetryFailedOutbox(c) PROVE Line(d)'
  <2>1. \A w \in Own(d) : attempts'[w] \in {0, attempts[w]}
    BY <1>4, WritesTyped DEF RetryFailedOutbox, Own
  <2> QED BY <1>0, <1>4, <2>1, LineStands DEF RetryFailedOutbox, requests, lates
<1>5. ASSUME NEW c \in Device, c # d,
             \/ Post(c) \/ Answered(c) \/ HttpError(c) \/ NoAnswer(c) \/ GiveUp(c)
             \/ \E w \in Write : Decide(c, w)
      PROVE  Line(d)'
  BY <1>0, <1>5, LineApart
<1>6. CASE Post(d)
  BY <1>0, <1>6, LineByPost
<1>7. CASE Answered(d)
  BY <1>0, <1>7, LineByAnswer
<1>8. CASE HttpError(d)
  BY <1>0, <1>8, LineByClose DEF HttpError, lates
<1>9. CASE NoAnswer(d)
  BY <1>0, <1>9, LineByClose DEF NoAnswer, lates
<1>10. CASE GiveUp(d)
  BY <1>0, <1>10, LineByClose DEF GiveUp
<1>11. ASSUME NEW w \in Write, Decide(d, w) PROVE Line(d)'
  BY <1>0, <1>11, LineByDecide
<1> QED
  BY <1>1, <1>2, <1>3, <1>4, <1>5, <1>6, <1>7, <1>8, <1>9, <1>10, <1>11 DEF Next

LEMMA LinesAtInit == Init => Histories /\ \A d \in Device : Line(d)
<1> SUFFICES ASSUME Init PROVE Histories /\ \A d \in Device : Line(d)
  OBVIOUS
<1>1. Queued = {}
  BY DEF Init
<1>2. Histories
  BY <1>1 DEF Init, Histories
<1>3. \A d \in Device : Own(d) = {} /\ late[d] = {}
  BY <1>1 DEF Init, Own
<1> QED BY <1>2, <1>3 DEF Line, Sequenced, InOrder

\* For any number of devices, rows and writes: as long as nothing has broken
\* the order of a device's delivery, none of its writes is refused for good for
\* want of a row whose creation is still in its own queue.
THEOREM ParentsArriveFirst == Spec => []ParentsGoFirst
<1>1. (\A d \in Device : Line(d)) /\ TypeOK => ParentsGoFirst
  <2> SUFFICES ASSUME \A d \in Device : Line(d), TypeOK, NEW w \in Queued,
                      queue[w].by \notin disturbed, status[w] = "missing",
                      NEW v \in ParentCreation(w), status[v] = "pending"
               PROVE  FALSE
    BY DEF ParentsGoFirst, Orphaned
  <2>1. v \in Own(queue[w].by) /\ w \in Own(queue[w].by) /\ v < w
    BY DEF ParentCreation, Own
  <2> QED BY <2>1, WritesTyped DEF Line, InOrder
<1> QED
  BY <1>1, LinesAtInit, HistoriesByNext, LinesByNext, TypeCorrect, PTL DEF Spec

-------------------------------------------------------------------------------
(* What a row holds that one device alone writes. *)

\* w has come to something: on the device, or in the device's request.
Settled(w) ==
  \/ status[w] \notin {"none", "pending"}
  \/ verdict[queue[w].by][w] \in {"ok", "forbidden", "missing"}

Refused(w) == status[w] = "missing" \/ verdict[queue[w].by][w] = "missing"

Of(o, r) == {w \in Deciding(r) : queue[w].op = o}

\* A batch that is repeated takes the row back to an earlier write of it, or
\* meets what a later write has done already.  A row that is missing has been
\* deleted by a write that comes up again, or the settled writes leave none;
\* one that is there holds none of the earlier writes, and no settled deletion
\* comes after the creation.
Standing(r) ==
  IF content[r] = 0
  THEN \/ \E k \in Of("DELETE", r) : ~Settled(k)
       \/ \A i \in Of("INSERT", r) : Settled(i) /\ ~Refused(i) =>
            \E k \in Of("DELETE", r) : Settled(k) /\ i < k
  ELSE /\ \A v \in Deciding(r) : Settled(v) => v <= content[r]
       /\ \E i \in Of("INSERT", r) :
            /\ Settled(i) => ~Refused(i)
            /\ \A k \in Of("DELETE", r) : Settled(k) => k < i

\* A row of which a write was refused unread is given up for good.
Keeps(d) ==
  d \notin disturbed => \A r \in Row : SoleWriter(d, r) /\ Read(r) => Standing(r)

\* The parts of the invariant that do not speak of what a row holds.
Delivery == TypeOK /\ Histories /\ \A d \in Device : Line(d)

\* Writes that are none of row r's leave what it holds.
LEMMA CarryElsewhere ==
  ASSUME TypeOK, NEW w \in Queued, Carry(w), NEW r \in Row, w \notin Deciding(r)
  PROVE  content'[r] = content[r]
<1>1. /\ queue[w].op \in Op /\ queue[w].row \in Row
      /\ content \in [Row -> 0..Len(queue)]
  BY WritesTyped DEF TypeOK, PostgresTyped
<1>2. queue[w].row # r /\ (queue[w].op = "DELETE" => r \notin Children(queue[w].row))
  BY DEF Deciding, Children
<1> QED BY <1>1, <1>2 DEF Carry, Written, Op

LEMMA SoleTyped ==
  ASSUME TypeOK, NEW d \in Device, NEW r \in Row, SoleWriter(d, r)
  PROVE  /\ Deciding(r) \subseteq Own(d) /\ Deciding(r) \subseteq Concerned(r)
         /\ \A w \in Deciding(r) : w \in Nat /\ w \in Write /\ w \in Queued
         /\ content[r] # 0 =>
              content[r] \in Deciding(r) /\ queue[content[r]].row = r
<1>1. Deciding(r) \subseteq Concerned(r) /\ Deciding(r) \subseteq Queued
  BY DEF Deciding, Concerned
<1>2. content[r] # 0 => content[r] \in Queued /\ queue[content[r]].row = r
  BY WritesTyped DEF TypeOK, PostgresTyped
<1> QED BY <1>1, <1>2, WritesTyped DEF SoleWriter, Own, Deciding

\* The row holds what it held, and its writes are as settled as before.
LEMMA StandingStands ==
  ASSUME NEW r \in Row, Standing(r), UNCHANGED queue, content'[r] = content[r],
         \A w \in Deciding(r) : Settled(w)' = Settled(w) /\ Refused(w)' = Refused(w)
  PROVE  Standing(r)'
<1>1. Deciding(r)' = Deciding(r)
  BY DEF Deciding
<1>2. \A o : Of(o, r)' = Of(o, r) /\ Of(o, r) \subseteq Deciding(r)
  BY <1>1 DEF Of
<1> QED BY <1>1, <1>2 DEF Standing

\* A request that is over without an answer leaves fewer settled.
LEMMA StandingShrinks ==
  ASSUME NEW r \in Row, Standing(r), UNCHANGED queue, content'[r] = content[r],
         \A w \in Deciding(r) :
           /\ Settled(w)' => Settled(w)
           /\ Settled(w)' => (Refused(w)' <=> Refused(w))
  PROVE  Standing(r)'
<1>1. Deciding(r)' = Deciding(r)
  BY DEF Deciding
<1>2. \A o : Of(o, r)' = Of(o, r) /\ Of(o, r) \subseteq Deciding(r)
  BY <1>1 DEF Of
<1>3. CASE content[r] = 0
  <2>1. ASSUME \A k \in Of("DELETE", r) : Settled(k)', NEW i \in Of("INSERT", r),
               Settled(i)', ~Refused(i)'
        PROVE  \E k \in Of("DELETE", r) : Settled(k)' /\ i < k
    BY <1>2, <1>3, <2>1 DEF Standing
  <2> QED BY <1>2, <1>3, <2>1 DEF Standing
<1>4. CASE content[r] # 0
  BY <1>1, <1>2, <1>4 DEF Standing
<1> QED BY <1>3, <1>4

\* How the settled writes move with a device's request.
LEMMA SettledByClose ==
  ASSUME Delivery, NEW c \in Device, Close(c), UNCHANGED <<queue, status>>,
         NEW w \in Queued
  PROVE  /\ Settled(w)' => Settled(w)
         /\ Settled(w)' => (Refused(w)' <=> Refused(w))
<1>1. w \in Write /\ queue[w].by \in Device /\ status[w] # "none"
  BY WritesTyped DEF Delivery, TypeOK, QueueTyped
<1>2. CASE queue[w].by # c
  <2>1. verdict'[queue[w].by] = verdict[queue[w].by]
    BY <1>1, <1>2 DEF Close, Delivery, TypeOK, RequestsTyped
  <2> QED BY <2>1 DEF Settled, Refused
<1>3. CASE queue[w].by = c
  <2>1. verdict'[c][w] = "out"
    BY <1>1 DEF Close, NoVerdict, Delivery, TypeOK, RequestsTyped
  <2>2. verdict[c][w] # "out" => status[w] = "pending"
    BY <1>3 DEF Delivery, Line, Sequenced, Own
  <2> QED BY <1>1, <1>3, <2>1, <2>2 DEF Settled, Refused
<1> QED BY <1>2, <1>3

LEMMA SettledByAnswer ==
  ASSUME Delivery, NEW c \in Device, Answered(c), NEW w \in Queued,
         status'[w] # "unread"
  PROVE  Settled(w)' = Settled(w) /\ Refused(w)' = Refused(w)
<1>1. w \in Write /\ queue[w].by \in Device /\ UNCHANGED queue
  BY WritesTyped DEF Delivery, Answered
<1>2. /\ status'[w] = CASE verdict[c][w] = "ok" -> "synced"
                        [] verdict[c][w] \in {"forbidden", "missing", "unread"} -> verdict[c][w]
                        [] OTHER -> status[w]
      /\ verdict' = [verdict EXCEPT ![c] = NoVerdict]
  BY <1>1 DEF Answered, Close
<1>3. verdict \in [Device ->
        [Write -> {"out", "todo", "ok", "forbidden", "missing", "unread", "retry"}]]
  BY DEF Delivery, TypeOK, RequestsTyped
<1>4. CASE queue[w].by # c
  <2>1. verdict'[queue[w].by] = verdict[queue[w].by] /\ verdict[c][w] = "out"
    BY <1>1, <1>2, <1>3, <1>4 DEF Delivery, TypeOK, RequestsTyped
  <2> QED BY <1>1, <1>2, <2>1 DEF Settled, Refused
<1>5. CASE queue[w].by = c
  <2>1. verdict'[c][w] = "out"
    BY <1>1, <1>2, <1>3 DEF NoVerdict
  <2>2. verdict[c][w] # "out" => status[w] = "pending"
    BY <1>5 DEF Delivery, Line, Sequenced, Own
  <2> QED BY <1>1, <1>2, <1>5, <2>1, <2>2 DEF Settled, Refused
<1> QED BY <1>4, <1>5

LEMMA SettledByPost ==
  ASSUME Delivery, NEW c \in Device, Post(c), NEW w \in Queued
  PROVE  Settled(w)' = Settled(w) /\ Refused(w)' = Refused(w)
<1>1. w \in Write /\ queue[w].by \in Device /\ UNCHANGED <<queue, status>>
  BY WritesTyped DEF Delivery, Post
<1>2. CASE queue[w].by # c
  <2>1. verdict'[queue[w].by] = verdict[queue[w].by]
    BY <1>1, <1>2 DEF Post, Delivery, TypeOK, RequestsTyped
  <2> QED BY <1>1, <2>1 DEF Settled, Refused
<1>3. CASE queue[w].by = c
  <2>1. verdict[c][w] = "out"
    BY <1>1 DEF Post, Asked, Marked
  <2>2. verdict'[c][w] \in {"out", "todo"}
    BY <1>1, <1>3 DEF Post, Delivery, TypeOK, RequestsTyped
  <2> QED BY <1>1, <1>3, <2>1, <2>2 DEF Settled, Refused
<1> QED BY <1>2, <1>3

\* The entry that a request decides was pending and comes after all that is
\* settled; the others stay.
LEMMA SettledByTake ==
  ASSUME Delivery, NEW d \in Device, NEW w \in Write,
         NEW v \in {"ok", "forbidden", "missing", "unread", "retry"}, Takes(d, w, v),
         d \notin disturbed
  PROVE  /\ UNCHANGED queue /\ w \in Own(d)
         /\ ~Settled(w) /\ ~Refused(w)
         /\ Settled(w)' <=> v \notin {"retry", "unread"}
         /\ Refused(w)' <=> v = "missing"
         /\ \A x \in Queued : x # w => Settled(x)' = Settled(x) /\ Refused(x)' = Refused(x)
         /\ \A x \in Own(d) : Settled(x) => x < w
<1>1. UNCHANGED <<queue, status>>
  BY DEF Takes
<1>2. \A x \in Queued : x \in Write /\ x \in Nat /\ queue[x].by \in Device /\ status[x] # "none"
  BY WritesTyped DEF Delivery, TypeOK, QueueTyped
<1>3. verdict \in [Device ->
        [Write -> {"out", "todo", "ok", "forbidden", "missing", "unread", "retry"}]]
  BY DEF Delivery, TypeOK, RequestsTyped
<1>4. verdict'[d][w] = v /\ verdict[d][w] = "todo"
  BY <1>3 DEF Takes, FirstOf, Undecided, Marked
<1>5. w \in Queued /\ queue[w].by = d
  BY <1>4 DEF Delivery, TypeOK, RequestsTyped
<1>6. status[w] = "pending"
  BY <1>4, <1>5 DEF Delivery, Line, Sequenced, Own
<1>7. ASSUME NEW x \in Queued, x # w
      PROVE  Settled(x)' = Settled(x) /\ Refused(x)' = Refused(x)
  <2>1. verdict'[queue[x].by][x] = verdict[queue[x].by][x]
    BY <1>2, <1>3, <1>7 DEF Takes
  <2> QED BY <1>1, <2>1 DEF Settled, Refused
<1>8. ASSUME NEW x \in Own(d), Settled(x) PROVE x < w
  <2>1. x # w
    BY <1>4, <1>5, <1>6, <1>8 DEF Settled
  <2>2. ASSUME w < x PROVE FALSE
    <3>1. status[x] = "pending" /\ verdict[d][x] \in {"out", "todo"}
      BY <1>4, <1>5, <1>6, <2>2 DEF Delivery, Line, InOrder, Sequenced, Own
    <3> QED BY <1>8, <3>1 DEF Settled, Own
  <2> QED BY <1>2, <1>5, <2>1, <2>2 DEF Own
<1> QED BY <1>1, <1>4, <1>5, <1>6, <1>7, <1>8 DEF Settled, Refused, Own

\* A new write of the row changes nothing yet.
LEMMA StandingByWrite ==
  ASSUME Delivery, NEW c \in Device, LocalWrite(c), NEW r \in Row, Standing(r)
  PROVE  Standing(r)'
<1>0. TypeOK
  BY DEF Delivery
<1>1. PICK o \in Op, q \in Row, rows \in SUBSET Row : Append1(c, o, q, rows)
  <2>1. local[c] \subseteq Row
    BY <1>0 DEF TypeOK, QueueTyped
  <2> QED BY <2>1 DEF LocalWrite, Create, Overwrite, Update, Remove, Op
<1>2. PICK n : n = Len(queue) + 1
  OBVIOUS
<1>3. /\ Queued' = Queued \cup {n} /\ n \notin Queued
      /\ \A w \in Queued : queue'[w] = queue[w] /\ status'[w] = status[w]
      /\ status'[n] = "pending" /\ queue'[n].by = c /\ verdict[c][n] = "out"
      /\ UNCHANGED <<verdict, content>>
  <2>1. /\ queue'[n] = [by |-> c, op |-> o, row |-> q] /\ status'[n] = "pending"
        /\ Queued' = Queued \cup {n} /\ n \notin Queued
        /\ \A w \in Queued : queue'[w] = queue[w] /\ status'[w] = status[w]
    BY <1>0, <1>1, <1>2, Appended
  <2>2. verdict[c][n] = "out" /\ UNCHANGED <<verdict, content>>
    BY <1>0, <1>1, <1>2, Appended DEF requests, postgres
  <2> QED BY <2>1, <2>2
<1>4. /\ Deciding(r) \subseteq Queued /\ Deciding(r) \subseteq Deciding(r)'
      /\ Deciding(r)' \subseteq Deciding(r) \cup {n}
  BY <1>3 DEF Deciding
<1>5. \A w \in Queued : Settled(w)' = Settled(w) /\ Refused(w)' = Refused(w)
  BY <1>3 DEF Settled, Refused
<1>6. ~Settled(n)'
  BY <1>3 DEF Settled
<1>7. \A w \in Deciding(r) : queue'[w].op = queue[w].op
  BY <1>3, <1>4
<1>8. CASE content[r] = 0
  <2>1. CASE \E k \in Of("DELETE", r) : ~Settled(k)
    BY <1>3, <1>4, <1>5, <1>7, <1>8, <2>1 DEF Standing, Of
  <2>2. CASE \A i \in Of("INSERT", r) : Settled(i) /\ ~Refused(i) =>
               \E k \in Of("DELETE", r) : Settled(k) /\ i < k
    <3>1. ASSUME NEW i \in Of("INSERT", r)', Settled(i)', ~Refused(i)'
          PROVE  \E k \in Of("DELETE", r)' : Settled(k)' /\ i < k
      <4>1. i \in Of("INSERT", r) /\ Settled(i) /\ ~Refused(i)
        BY <1>4, <1>5, <1>6, <1>7, <3>1 DEF Of
      <4>2. PICK k \in Of("DELETE", r) : Settled(k) /\ i < k
        BY <2>2, <4>1
      <4> QED BY <1>4, <1>5, <1>7, <4>2 DEF Of
    <3> QED BY <1>3, <1>8, <3>1 DEF Standing
  <2> QED BY <1>8, <2>1, <2>2 DEF Standing
<1>9. CASE content[r] # 0
  <2>1. \A v \in Deciding(r)' : Settled(v)' => v <= content[r]
    BY <1>4, <1>5, <1>6, <1>9 DEF Standing
  <2>2. PICK i \in Of("INSERT", r) :
          /\ Settled(i) => ~Refused(i)
          /\ \A k \in Of("DELETE", r) : Settled(k) => k < i
    BY <1>9 DEF Standing
  <2>3. i \in Of("INSERT", r)' /\ (Settled(i)' => ~Refused(i)')
    BY <1>4, <1>5, <1>7, <2>2 DEF Of
  <2>4. \A k \in Of("DELETE", r)' : Settled(k)' => k < i
    BY <1>4, <1>5, <1>6, <1>7, <2>2 DEF Of
  <2> QED BY <1>3, <1>9, <2>1, <2>3, <2>4 DEF Standing
<1> QED BY <1>8, <1>9

\* A decision about a write of another row.
LEMMA StandingElsewhere ==
  ASSUME Delivery, NEW d \in Device, NEW w \in Write,
         NEW v \in {"ok", "forbidden", "missing", "unread", "retry"}, Takes(d, w, v),
         d \notin disturbed, NEW r \in Row, SoleWriter(d, r), Standing(r),
         w \notin Deciding(r) \/ v \in {"retry", "unread"}, content'[r] = content[r]
  PROVE  Standing(r)'
<1>1. Deciding(r) \subseteq Queued
  BY DEF Deciding
<1>2. \A x \in Queued : x # w => Settled(x)' = Settled(x) /\ Refused(x)' = Refused(x)
  BY SettledByTake
<1>3. v \in {"retry", "unread"} => Settled(w)' = Settled(w) /\ Refused(w)' = Refused(w)
  BY SettledByTake DEF Settled, Refused
<1>4. UNCHANGED queue
  BY DEF Takes
<1> QED BY <1>1, <1>2, <1>3, <1>4, StandingStands

\* The decision about a write of the row itself.
LEMMA StandingByTake ==
  ASSUME Delivery, NEW d \in Device, NEW w \in Write, d \notin disturbed,
         DecideForbidden(d, w) \/ DecideMissing(d, w) \/ DecideOk(d, w),
         NEW r \in Row, SoleWriter(d, r), Standing(r), w \in Deciding(r)
  PROVE  Standing(r)'
<1>0. TypeOK /\ Histories
  BY DEF Delivery
<1>1. PICK v \in {"ok", "forbidden", "missing"} :
        /\ Takes(d, w, v)
        /\ v = "forbidden" => ~Permitted(w) /\ UNCHANGED content
        /\ v = "missing" => ~HasParent(w) /\ UNCHANGED content
        /\ v = "ok" => Carry(w)
  BY DEF DecideForbidden, DecideUnread, DecideMissing, DecideOk, postgres
<1>2. /\ UNCHANGED queue /\ ~Settled(w) /\ Settled(w)'
      /\ Refused(w)' <=> v = "missing"
      /\ \A x \in Queued : x # w => Settled(x)' = Settled(x) /\ Refused(x)' = Refused(x)
      /\ \A x \in Own(d) : Settled(x) => x < w
  BY <1>1, SettledByTake
<1>3. /\ Deciding(r) \subseteq Own(d) /\ Deciding(r) \subseteq Queued
      /\ \A x \in Deciding(r) : x \in Nat
      /\ content[r] # 0 => content[r] \in Deciding(r) /\ queue[content[r]].row = r
  BY <1>0, SoleTyped
<1>4. /\ queue[w].op \in Op /\ queue[w].row \in Row /\ w \in Nat /\ w # 0
      /\ content \in [Row -> 0..Len(queue)] /\ content[r] \in Nat
      /\ queue[w].op # "DELETE" => queue[w].row = r
  <2>1. content[r] \in 0..Len(queue) /\ Len(queue) \in Nat
    BY <1>0, WritesTyped DEF TypeOK, PostgresTyped
  <2> QED BY <1>0, <1>3, <2>1, WritesTyped DEF TypeOK, PostgresTyped, Deciding
<1>5. Deciding(r)' = Deciding(r) /\ \A o : Of(o, r)' = Of(o, r)
  BY <1>2 DEF Deciding, Of
<1>6. /\ \A o : \A x \in Of(o, r) : x \in Deciding(r) /\ queue[x].op = o
      /\ \A x \in Deciding(r) : queue[x].op # queue[w].op => x # w
  BY DEF Of
<1>7. \A x \in Deciding(r) : Settled(x)' => x <= w
  BY <1>2, <1>3, <1>4
\* A creation after which the row is there.
<1>8. ASSUME queue[w].op = "INSERT", v # "missing", content'[r] # 0, w <= content'[r]
      PROVE  Standing(r)'
  <2>1. \A x \in Deciding(r)' : Settled(x)' => x <= content'[r]
    <3>1. content'[r] \in Nat
      <4>1. CASE v = "ok"
        <5>1. w \in Queued /\ Carry(w)
          BY <1>1, <1>3, <4>1
        <5>2. content'[r] \in {content[r], w}
          BY <1>0, <1>8, <5>1, CarriedOut
        <5> QED BY <1>4, <5>2
      <4>2. CASE v # "ok"
        <5>1. content'[r] = content[r]
          BY <1>1, <4>2
        <5> QED BY <1>4, <5>1
      <4> QED BY <4>1, <4>2
    <3> QED BY <1>3, <1>4, <1>5, <1>7, <1>8, <3>1
  <2>2. w \in Of("INSERT", r)' /\ ~Refused(w)'
    BY <1>2, <1>5, <1>8 DEF Of
  <2>3. \A k \in Of("DELETE", r)' : Settled(k)' => k < w
    BY <1>2, <1>3, <1>5, <1>6, <1>8
  <2> QED BY <1>8, <2>1, <2>2, <2>3 DEF Standing
<1>9. CASE v = "missing"
  <2>1. queue[w].op = "INSERT" /\ Parent[r] # NoRow /\ content[Parent[r]] = 0
    BY <1>1, <1>4, <1>9 DEF HasParent
  <2>2. content[r] = 0 /\ content'[r] = 0
    BY <1>0, <1>1, <1>9, <2>1 DEF TypeOK, References
  <2>3. CASE \E k \in Of("DELETE", r) : ~Settled(k)
    BY <1>2, <1>3, <1>5, <1>6, <2>1, <2>2, <2>3 DEF Standing
  <2>4. CASE \A i \in Of("INSERT", r) : Settled(i) /\ ~Refused(i) =>
               \E k \in Of("DELETE", r) : Settled(k) /\ i < k
    <3>1. ASSUME NEW i \in Of("INSERT", r), Settled(i)', ~Refused(i)'
          PROVE  \E k \in Of("DELETE", r) : Settled(k)' /\ i < k
      <4>1. i # w /\ Settled(i) /\ ~Refused(i)
        BY <1>2, <1>3, <1>6, <1>9, <3>1
      <4>2. PICK k \in Of("DELETE", r) : Settled(k) /\ i < k
        BY <2>4, <4>1
      <4> QED BY <1>2, <1>3, <1>6, <4>2
    <3> QED BY <1>5, <2>2, <3>1 DEF Standing
  <2> QED BY <2>2, <2>3, <2>4 DEF Standing
<1>10. CASE v = "forbidden"
  <2>1. /\ queue[w].by = d /\ ~MayManage(d, queue[w].row)
        /\ queue[w].op = "INSERT" => content[queue[w].row] # 0
    BY <1>1, <1>3, <1>10 DEF Permitted, Own
  <2>2. queue[w].op = "INSERT" /\ queue[w].row = r /\ content'[r] = content[r] /\ content[r] # 0
    BY <1>0, <1>1, <1>3, <1>4, <1>10, <2>1 DEF Histories
  <2>3. content[r] = w
    <3>1. /\ content[r] \in Queued /\ queue[content[r]].by = d
          /\ queue[content[r]].row = r /\ content[r] \in Nat
      BY <1>3, <2>2 DEF Own
    <3>2. \A x \in Queued : x < w \/ w < x =>
            ~(queue[x].row = r /\ queue[x].by = d)
      BY <1>0, <1>3, <2>1, <2>2 DEF Histories, SameRow
    <3> QED BY <1>4, <3>1, <3>2
  <2>4. w <= content'[r]
    BY <1>4, <2>2, <2>3
  <2> QED BY <1>8, <1>10, <2>2, <2>4
<1>11. CASE v = "ok" /\ queue[w].op = "INSERT"
  <2>1. content'[r] = IF r \in NoUpsert /\ content[r] # 0 THEN content[r] ELSE w
    BY <1>1, <1>4, <1>11 DEF Carry, Written
  <2>2. ASSUME r \in NoUpsert, content[r] # 0 PROVE w <= content[r]
    <3>1. content[r] \in Queued /\ queue[content[r]].row = r
      BY <1>3, <2>2
    <3>2. PICK i \in Queued : i <= content[r] /\ queue[i].op = "INSERT" /\ SameRow(i, content[r])
      BY <1>0, <3>1 DEF Histories
    <3>3. /\ queue[i].row = r /\ queue[w].row = r /\ w \in Queued
          /\ queue[i].op = "INSERT" /\ queue[w].op = "INSERT"
      BY <1>3, <1>4, <1>11, <3>1, <3>2 DEF SameRow
    <3>4. i = w
      BY <1>0, <2>2, <3>3 DEF Histories, SameRow
    <3> QED BY <3>2, <3>4
  <2>3. content'[r] # 0 /\ w <= content'[r]
    BY <1>4, <2>1, <2>2
  <2> QED BY <1>8, <1>11, <2>3
<1>12. CASE v = "ok" /\ queue[w].op = "UPDATE"
  <2>1. content'[r] = IF content[r] = 0 THEN 0 ELSE w
    BY <1>1, <1>4, <1>12 DEF Carry, Written
  <2>2. \A o \in {"INSERT", "DELETE"} : \A x \in Of(o, r) :
          Settled(x)' = Settled(x) /\ Refused(x)' = Refused(x)
    BY <1>2, <1>3, <1>6, <1>12
  <2>3. CASE content[r] = 0
    BY <1>5, <2>1, <2>2, <2>3 DEF Standing
  <2>4. CASE content[r] # 0
    BY <1>4, <1>5, <1>7, <2>1, <2>2, <2>4 DEF Standing
  <2> QED BY <2>3, <2>4
<1>13. CASE v = "ok" /\ queue[w].op = "DELETE"
  <2>1. r \in {queue[w].row} \cup Children(queue[w].row)
    BY <1>13 DEF Deciding, Children
  <2>2. content'[r] = 0
    BY <1>1, <1>13, <2>1 DEF Carry, Written
  <2>3. w \in Of("DELETE", r)
    BY <1>13 DEF Of
  <2>4. \A i \in Of("INSERT", r) : Settled(i)' => i < w
    BY <1>2, <1>3, <1>6, <1>13
  <2> QED BY <1>2, <1>5, <2>2, <2>3, <2>4 DEF Standing
<1> QED BY <1>1, <1>4, <1>9, <1>10, <1>11, <1>12, <1>13 DEF Op

\* The handler of another device, or of one that gave up.
LEMMA StandingByOthers ==
  ASSUME Delivery, NEW d \in Device, d \notin disturbed, NEW c \in Device,
         NEW w \in Write, Decide(c, w), c # d \/ LateStep(c, w),
         NEW r \in Row, SoleWriter(d, r), Standing(r)
  PROVE  Standing(r)'
<1>0. TypeOK
  BY DEF Delivery
<1>1. /\ Deciding(r) \subseteq Own(d) /\ Deciding(r) \subseteq Queued
      /\ \A x \in Queued : x \in Write /\ queue[x].by \in Device
  BY <1>0, SoleTyped, WritesTyped
<1>2. c # d
  <2>1. late[d] = {}
    BY DEF Delivery, Line, InOrder
  <2> QED BY <2>1 DEF LateStep, FirstOf
<1>3. UNCHANGED <<queue, status>> /\ verdict'[d] = verdict[d]
  BY <1>0, <1>2 DEF Decide, DecideFrozen, DecideForbidden, DecideUnread, DecideMissing, DecideOk,
                    DecideFails, LateStep, Takes, requests, TypeOK, RequestsTyped
<1>4. \A x \in Deciding(r) : Settled(x)' = Settled(x) /\ Refused(x)' = Refused(x)
  BY <1>1, <1>3 DEF Settled, Refused, Own
<1>5. content'[r] = content[r]
  <2>1. UNCHANGED content \/ (Carry(w) /\ w \in Own(c))
    <3>1. CASE LateStep(c, w)
      BY <3>1 DEF LateStep, FirstOf, Delivery, Line, Sequenced, postgres
    <3>2. CASE DecideOk(c, w)
      BY <1>0, <3>2 DEF DecideOk, Takes, FirstOf, Undecided, Marked, Own, TypeOK,
                        RequestsTyped
    <3> QED BY <3>1, <3>2 DEF Decide, DecideFrozen, DecideForbidden, DecideUnread, DecideMissing,
                              DecideFails, postgres
  <2>2. CASE Carry(w) /\ w \in Own(c)
    <3>1. w \notin Deciding(r) /\ w \in Queued
      BY <1>1, <1>2, <2>2 DEF Own
    <3> QED BY <1>0, <2>2, <3>1, CarryElsewhere
  <2> QED BY <2>1, <2>2
<1> QED BY <1>3, <1>4, <1>5, StandingStands

LEMMA StandingByDecide ==
  ASSUME Delivery, NEW d \in Device, NEW w \in Write, Decide(d, w),
         d \notin disturbed', NEW r \in Row, SoleWriter(d, r), Standing(r),
         d \notin disturbed
  PROVE  Standing(r)'
<1>0. TypeOK
  BY DEF Delivery
<1>1. CASE DecideFrozen(d, w) \/ DecideUnread(d, w)
  BY <1>1, StandingElsewhere DEF DecideFrozen, DecideUnread, postgres
<1>2. CASE DecideFails(d, w)
  BY <1>2 DEF DecideFails
<1>3. CASE LateStep(d, w)
  BY <1>3, StandingByOthers DEF Decide
<1>4. CASE DecideForbidden(d, w) \/ DecideMissing(d, w) \/ DecideOk(d, w)
  <2>1. CASE w \in Deciding(r)
    BY <1>4, <2>1, StandingByTake
  <2>2. CASE w \notin Deciding(r)
    <3>1. PICK v \in {"ok", "forbidden", "missing", "unread"} :
            Takes(d, w, v) /\ (UNCHANGED content \/ Carry(w))
      BY <1>4 DEF DecideForbidden, DecideUnread, DecideMissing, DecideOk, postgres
    <3>2. w \in Queued
      BY <1>0, <3>1, TakesTyped
    <3>3. content'[r] = content[r]
      BY <1>0, <2>2, <3>1, <3>2, CarryElsewhere
    <3> QED BY <2>2, <3>1, <3>3, StandingElsewhere
  <2> QED BY <2>1, <2>2
<1> QED BY <1>1, <1>2, <1>3, <1>4 DEF Decide

\* The writers of a row do not become fewer, and a disturbed device stays so.
LEMMA WritersGrow ==
  ASSUME TypeOK, [Next]_vars
  PROVE  /\ disturbed \subseteq disturbed'
         /\ \A d \in Device : \A r \in Row : SoleWriter(d, r)' => SoleWriter(d, r)
<1>1. disturbed \subseteq disturbed'
  BY DEF Next, vars, ToggleFreeze, LocalWrite, Create, Overwrite, Update, Remove,
         Append1, Pull, RetryFailedOutbox, Post, Answered, HttpError, NoAnswer,
         GiveUp, Count, Decide, DecideFrozen, DecideForbidden, DecideUnread, DecideMissing,
         DecideOk, DecideFails, LateStep
<1>2. UNCHANGED queue => \A d \in Device : \A r \in Row : SoleWriter(d, r)' => SoleWriter(d, r)
  BY DEF SoleWriter, Concerned
<1>3. ASSUME NEW c \in Device, LocalWrite(c), NEW d \in Device, NEW r \in Row, SoleWriter(d, r)'
      PROVE  SoleWriter(d, r)
  <2>1. PICK o \in Op, q \in Row, rows \in SUBSET Row : Append1(c, o, q, rows)
    <3>1. local[c] \subseteq Row
      BY DEF TypeOK, QueueTyped
    <3> QED BY <1>3, <3>1 DEF LocalWrite, Create, Overwrite, Update, Remove, Op
  <2>2. PICK n : n = Len(queue) + 1
    OBVIOUS
  <2>3. Queued' = Queued \cup {n} /\ \A w \in Queued : queue'[w] = queue[w]
    BY <2>1, <2>2, Appended
  <2>4. ASSUME NEW w \in Concerned(r)
        PROVE  w \in Concerned(r)' /\ queue'[w].by = queue[w].by
    <3>1. w \in Queued /\ queue[w].row \in {r, Parent[r]}
      BY DEF Concerned
    <3>2. w \in Queued' /\ queue'[w] = queue[w]
      BY <2>3, <3>1
    <3> QED BY <3>1, <3>2 DEF Concerned
  <2> QED BY <1>3, <2>4 DEF SoleWriter
<1>4. UNCHANGED queue \/ \E c \in Device : LocalWrite(c)
  BY DEF Next, vars, ToggleFreeze, Pull, RetryFailedOutbox, Post, Answered,
         HttpError, NoAnswer, GiveUp, Decide, DecideFrozen, DecideForbidden, DecideUnread,
         DecideMissing, DecideOk, DecideFails, LateStep, Takes
<1> QED BY <1>1, <1>2, <1>3, <1>4

\* What was refused unread stays so.
LEMMA UnreadStays ==
  ASSUME Delivery, [Next]_vars, NEW r \in Row, Read(r)'
  PROVE  Read(r)
<1>0. TypeOK
  BY DEF Delivery
<1>1. CASE UNCHANGED <<queue, status>>
  BY <1>1 DEF Read, Deciding
<1>2. ASSUME NEW c \in Device, LocalWrite(c) PROVE Read(r)
  <2>1. PICK o \in Op, q \in Row, rows \in SUBSET Row : Append1(c, o, q, rows)
    <3>1. local[c] \subseteq Row
      BY <1>0 DEF TypeOK, QueueTyped
    <3> QED BY <1>2, <3>1 DEF LocalWrite, Create, Overwrite, Update, Remove, Op
  <2>2. PICK n : n = Len(queue) + 1
    OBVIOUS
  <2>3. /\ Queued' = Queued \cup {n}
        /\ \A w \in Queued : queue'[w] = queue[w] /\ status'[w] = status[w]
    BY <1>0, <2>1, <2>2, Appended
  <2>4. ASSUME NEW w \in Deciding(r) PROVE w \in Deciding(r)' /\ status'[w] = status[w]
    <3>1. w \in Queued /\ w \in Queued' /\ queue'[w] = queue[w] /\ status'[w] = status[w]
      BY <2>3 DEF Deciding
    <3> QED BY <3>1 DEF Deciding
  <2> QED BY <2>4 DEF Read
<1>3. ASSUME NEW c \in Device, Answered(c) PROVE Read(r)
  <2>1. Deciding(r)' = Deciding(r) /\ Deciding(r) \subseteq Queued
    BY <1>3 DEF Answered, Deciding
  <2>2. ASSUME NEW w \in Deciding(r), status[w] = "unread" PROVE status'[w] = "unread"
    <3>1. w \in Write /\ w \in Queued /\ queue[w].by \in Device
      BY <1>0, <2>1, WritesTyped
    <3>2. verdict[queue[w].by][w] = "out"
      BY <2>2, <3>1 DEF Delivery, Line, Sequenced, Own
    <3>3. verdict[c][w] = "out"
      BY <1>0, <3>1, <3>2 DEF TypeOK, RequestsTyped
    <3> QED BY <1>3, <2>2, <3>1, <3>3 DEF Answered
  <2> QED BY <2>1, <2>2 DEF Read
<1> QED
  BY <1>1, <1>2, <1>3
     DEF Next, vars, ToggleFreeze, Pull, RetryFailedOutbox, Post, HttpError, NoAnswer,
         GiveUp, Decide, DecideFrozen, DecideForbidden, DecideUnread, DecideMissing,
         DecideOk, DecideFails, LateStep, Takes

LEMMA KeepsByNext ==
  Delivery /\ (\A d \in Device : Keeps(d)) /\ [Next]_vars => (\A d \in Device : Keeps(d))'
<1> SUFFICES ASSUME Delivery, \A d \in Device : Keeps(d), [Next]_vars,
                    NEW d \in Device, d \notin disturbed', NEW r \in Row, SoleWriter(d, r)',
                    Read(r)'
             PROVE  Standing(r)'
  BY DEF Keeps
<1>0. /\ TypeOK /\ d \notin disturbed /\ SoleWriter(d, r) /\ Standing(r)
      /\ Deciding(r) \subseteq Queued
  BY WritersGrow, UnreadStays DEF Delivery, Keeps, Deciding
<1>1. ASSUME UNCHANGED <<queue, status, verdict, content>> PROVE Standing(r)'
  BY <1>0, <1>1, StandingStands DEF Settled, Refused
<1>2. CASE ToggleFreeze \/ UNCHANGED vars
  BY <1>1, <1>2 DEF ToggleFreeze, vars, requests, postgres
<1>3. ASSUME NEW c \in Device, LocalWrite(c) PROVE Standing(r)'
  BY <1>0, <1>3, StandingByWrite
<1>4. ASSUME NEW c \in Device, Pull(c) \/ RetryFailedOutbox(c) PROVE Standing(r)'
  BY <1>1, <1>4 DEF Pull, RetryFailedOutbox, requests, postgres
<1>5. ASSUME NEW c \in Device, Post(c) PROVE Standing(r)'
  BY <1>0, <1>5, SettledByPost, StandingStands DEF Post, postgres
<1>6. ASSUME NEW c \in Device, Answered(c) PROVE Standing(r)'
  <2>1. UNCHANGED <<queue, content>> /\ Deciding(r)' = Deciding(r)
    BY <1>6 DEF Answered, postgres, Deciding
  <2>2. \A w \in Deciding(r) : status'[w] # "unread"
    BY <2>1 DEF Read
  <2> QED BY <1>0, <1>6, <2>1, <2>2, SettledByAnswer, StandingStands
<1>7. ASSUME NEW c \in Device, HttpError(c) \/ NoAnswer(c) \/ GiveUp(c) PROVE Standing(r)'
  <2>1. Close(c) /\ UNCHANGED <<queue, status, content>>
    BY <1>7 DEF HttpError, NoAnswer, GiveUp, postgres
  <2> QED BY <1>0, <2>1, SettledByClose, StandingShrinks
<1>8. ASSUME NEW c \in Device, NEW w \in Write, Decide(c, w) PROVE Standing(r)'
  BY <1>0, <1>8, StandingByOthers, StandingByDecide
<1> QED BY <1>2, <1>3, <1>4, <1>5, <1>6, <1>7, <1>8 DEF Next

\* For any number of devices, rows and writes, and whatever was lost and
\* repeated on the way: once the writes of a row that one device alone writes
\* are delivered, the server has what the last of them says, as long as nothing
\* has broken the order of that device's delivery.
THEOREM LastWritesStand == Spec => []OwnLastWriteStands
<1>1. Init => \A d \in Device : Keeps(d)
  <2> SUFFICES ASSUME Init, NEW r \in Row PROVE Standing(r)
    BY DEF Keeps
  <2>1. content[r] = 0 /\ Of("INSERT", r) = {}
    BY DEF Init, Of, Deciding
  <2> QED BY <2>1 DEF Standing
<1>2. Delivery /\ (\A d \in Device : Keeps(d)) => OwnLastWriteStands
  <2> SUFFICES ASSUME Delivery, \A d \in Device : Keeps(d),
                      NEW d \in Device \ disturbed, NEW r \in Row, NEW w \in Deciding(r),
                      SoleWriter(d, r), Read(r), \A v \in Deciding(r) : v <= w,
                      \A v \in Concerned(r) : status[v] # "pending"
               PROVE  content[r] = IF Stands(r) THEN w ELSE 0
    BY DEF OwnLastWriteStands
  <2>1. /\ TypeOK /\ Standing(r) /\ Deciding(r) \subseteq Own(d)
        /\ \A x \in Deciding(r) : /\ x \in Concerned(r) /\ x \in Queued /\ x \in Nat /\ x \in Write
        /\ content[r] # 0 => content[r] \in Deciding(r)
    BY SoleTyped DEF Delivery, Keeps
  <2>2. \A x \in Deciding(r) : Settled(x) /\ (Refused(x) <=> status[x] = "missing")
    <3> SUFFICES ASSUME NEW x \in Deciding(r)
                 PROVE  Settled(x) /\ (Refused(x) <=> status[x] = "missing")
      OBVIOUS
    <3>1. status[x] \notin {"none", "pending"}
      BY <2>1 DEF TypeOK, QueueTyped
    <3>2. verdict[d][x] = "out" /\ queue[x].by = d
      BY <2>1, <3>1 DEF Delivery, Line, Sequenced, Own
    <3> QED BY <3>1, <3>2 DEF Settled, Refused
  <2>3. CASE content[r] = 0
    <3>1. ASSUME Stands(r) PROVE FALSE
      <4>1. PICK i \in Deciding(r) :
              /\ queue[i].op = "INSERT" /\ status[i] # "missing"
              /\ \A v \in Deciding(r) : queue[v].op = "DELETE" => v < i
        BY <3>1 DEF Stands
      <4>2. PICK k \in Deciding(r) : queue[k].op = "DELETE" /\ i < k
        BY <2>2, <2>1, <2>3, <4>1 DEF Standing, Of
      <4> QED BY <2>1, <4>1, <4>2
    <3> QED BY <2>3, <3>1
  <2>4. CASE content[r] # 0
    <3>1. content[r] = w
      <4>1. w <= content[r] /\ content[r] <= w /\ content[r] \in Nat /\ w \in Nat
        BY <2>1, <2>2, <2>4 DEF Standing
      <4> QED BY <4>1
    <3>2. Stands(r)
      <4>1. PICK i \in Of("INSERT", r) :
              /\ Settled(i) => ~Refused(i)
              /\ \A k \in Of("DELETE", r) : Settled(k) => k < i
        BY <2>1, <2>4 DEF Standing
      <4> QED BY <2>2, <4>1 DEF Stands, Of
    <3> QED BY <3>1, <3>2
  <2> QED BY <2>3, <2>4
<1>3. Init /\ TypeOK => Delivery
  BY LinesAtInit DEF Delivery
<1>4. Delivery /\ [Next]_vars /\ TypeOK' => Delivery'
  BY HistoriesByNext, LinesByNext DEF Delivery
<1> QED
  BY <1>1, <1>2, <1>3, <1>4, KeepsByNext, TypeCorrect, PTL DEF Spec

===============================================================================
