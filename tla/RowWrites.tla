------------------------------- MODULE RowWrites -------------------------------
(***************************************************************************)
(* The writes of rows by several devices: createRepository queues an       *)
(* INSERT, UPDATE or DELETE, the device posts its queue in batches, and    *)
(* POST /sync/push takes each entry through the maintenance freeze, the    *)
(* operation permission (with the crew's licence to create a shelf) and    *)
(* the row writers of apply.ts, under the foreign keys of Postgres.        *)
(*                                                                         *)
(* None of these writers remembers which entries it has applied: a batch   *)
(* whose answer was lost is applied once more.  The queue itself, with its *)
(* pushers and its lock, is in OutboxSync; here a device has one request   *)
(* at a time, and at most one that it has given up on.                     *)
(***************************************************************************)
EXTENDS Integers, FiniteSets, Sequences

CONSTANTS
  Device,
  Manager,        \* devices whose user holds manage_locations
  Exempt,         \* devices whose user holds system_settings
  Row,            \* the row ids in use
  NoRow,
  Parent,         \* Parent[r]: the row that r's foreign key names, or NoRow
  Gated,          \* rows of locations: shelves, which every crew may create
  NoUpsert,       \* rows of the INSERT_NO_UPSERT tables
  Deletable,      \* rows of the tables that allow DELETE
  NumWrites,      \* bound: how many writes are queued by all devices
  MaxAttempts,    \* MAX_OUTBOX_ATTEMPTS
  BatchLimit,     \* the LIMIT of getPendingOutbox
  PostsOn         \* bound: FALSE stops the posts of a disturbed device

ASSUME RowsAssumption ==
  /\ NoRow \notin Row
  /\ Parent \in [Row -> Row \cup {NoRow}]
  /\ \A r \in Row : Parent[r] # NoRow => Parent[Parent[r]] = NoRow
  /\ Gated \subseteq Row /\ NoUpsert \subseteq Row /\ Deletable \subseteq Row
ASSUME DevicesAssumption == Manager \subseteq Device /\ Exempt \subseteq Device
ASSUME BoundsAssumption ==
  /\ NumWrites \in Nat
  /\ MaxAttempts \in Nat \ {0}
  /\ BatchLimit \in Nat \ {0}
  /\ PostsOn \in BOOLEAN

\* A write is named by its rank in created_at order; 0 is "no write".
Write == 1..NumWrites
Op == {"INSERT", "UPDATE", "DELETE"}
Entry == [by : Device, op : Op, row : Row]

VARIABLES
  \* the devices' SQLite files
  queue,          \* queue[w]: the outbox entry of write w
  status,         \* status[w]: its state; a denied one with the cause
  attempts,       \* attempts[w]
  local,          \* local[d]: the rows of d's local tables
  \* the current request of each device
  verdict,        \* verdict[d][w]: how far w is in that request
  freeze,         \* freeze[d]: maintenance_mode as its handler read it
  \* the handler of a request that d has given up on
  late,           \* late[d]: the writes it has still to do
  lateFreeze,     \* lateFreeze[d]: maintenance_mode as it read it
  \* Postgres
  frozen,         \* app_config.maintenance_mode
  content,        \* content[r]: the write whose payload r holds, 0: no row
  \* history
  disturbed       \* devices whose writes may have overtaken each other

requests == <<verdict, freeze>>
lates    == <<late, lateFreeze>>
postgres == <<frozen, content>>
vars     == <<queue, status, attempts, local, requests, lates, postgres, disturbed>>

Queued == 1..Len(queue)

QueueTyped ==
  /\ queue \in Seq(Entry)
  /\ Len(queue) <= NumWrites
  /\ status \in [Write -> {"none", "pending", "synced", "forbidden", "missing", "unread"}]
  /\ \A w \in Write : status[w] = "none" <=> w \notin Queued
  /\ attempts \in [Write -> 0..MaxAttempts]
  /\ local \in [Device -> SUBSET Row]

RequestsTyped ==
  /\ verdict \in [Device ->
       [Write -> {"out", "todo", "ok", "forbidden", "missing", "unread", "retry"}]]
  /\ \A d \in Device : \A w \in Write :
       verdict[d][w] # "out" =>
         w \in Queued /\ queue[w].by = d /\ attempts[w] < MaxAttempts
  /\ freeze \in [Device -> BOOLEAN]
  /\ late \in [Device -> SUBSET Queued]
  /\ lateFreeze \in [Device -> BOOLEAN]

PostgresTyped ==
  /\ frozen \in BOOLEAN
  /\ content \in [Row -> 0..Len(queue)]
  /\ \A r \in Row : content[r] # 0 => queue[content[r]].row = r
  /\ disturbed \subseteq Device

\* The foreign keys: no row without its parent.
References ==
  \A r \in Row : content[r] # 0 /\ Parent[r] # NoRow => content[Parent[r]] # 0

TypeOK == QueueTyped /\ RequestsTyped /\ PostgresTyped /\ References

NoVerdict == [w \in Write |-> "out"]
Marked(d, v) == {w \in Write : verdict[d][w] = v}
Asked(d) == Write \ Marked(d, "out")
Undecided(d) == Marked(d, "todo")

Init ==
  /\ queue = <<>>
  /\ status = [w \in Write |-> "none"]
  /\ attempts = [w \in Write |-> 0]
  /\ local = [d \in Device |-> {}]
  /\ verdict = [d \in Device |-> NoVerdict]
  /\ freeze = [d \in Device |-> FALSE]
  /\ late = [d \in Device |-> {}]
  /\ lateFreeze = [d \in Device |-> FALSE]
  /\ frozen = FALSE
  /\ content = [r \in Row |-> 0]
  /\ disturbed = {}

-------------------------------------------------------------------------------
(* The device: local writes.  The local row and its outbox entry are one   *)
(* SQLite transaction.                                                     *)

Children(r) == {q \in Row : Parent[q] = r}
MayManage(d, r) == r \in Gated => d \in Manager
Created == {queue[w].row : w \in {v \in Queued : queue[v].op = "INSERT"}}

\* Write o of row r is queued, and local[d] becomes rows.
Append1(d, o, r, rows) ==
  /\ Len(queue) < NumWrites
  /\ queue' = Append(queue, [by |-> d, op |-> o, row |-> r])
  /\ status' = [status EXCEPT ![Len(queue) + 1] = "pending"]
  /\ local' = [local EXCEPT ![d] = rows]
  /\ UNCHANGED <<attempts, requests, lates, postgres, disturbed>>

\* A new row, under a fresh id and a parent the device knows.
Create(d, r) ==
  /\ r \notin Created
  /\ Parent[r] # NoRow => Parent[r] \in local[d]
  /\ Append1(d, "INSERT", r, local[d] \cup {r})

\* insert() of a key the device already has: the whole row is written anew.
Overwrite(d, r) ==
  /\ r \in local[d] \ NoUpsert
  /\ MayManage(d, r)
  /\ Append1(d, "INSERT", r, local[d])

Update(d, r) ==
  /\ r \in local[d]
  /\ MayManage(d, r)
  /\ Append1(d, "UPDATE", r, local[d])

\* The children are deleted by hand, in the same transaction.
Remove(d, r) ==
  /\ r \in local[d] \cap Deletable
  /\ MayManage(d, r)
  /\ Append1(d, "DELETE", r, local[d] \ ({r} \cup Children(r)))

\* A pull adds what the server has; it deletes nothing.
Pull(d) ==
  /\ Asked(d) = {}
  /\ local' = [local EXCEPT ![d] = @ \cup {r \in Row : content[r] # 0}]
  /\ UNCHANGED <<queue, status, attempts, requests, lates, postgres, disturbed>>

\* The user re-arms the rows whose retries are exhausted.
RetryFailedOutbox(d) ==
  LET failed == {w \in Queued : /\ queue[w].by = d
                                /\ status[w] = "pending"
                                /\ attempts[w] = MaxAttempts}
  IN
  /\ failed # {}
  /\ attempts' = [w \in Write |-> IF w \in failed THEN 0 ELSE attempts[w]]
  /\ UNCHANGED <<queue, status, local, requests, lates, postgres, disturbed>>

-------------------------------------------------------------------------------
(* The device: a request and its answer.                                   *)

Pending(d) == {w \in Queued : queue[w].by = d /\ status[w] = "pending"}

\* ORDER BY created_at LIMIT n, then the filter on attempts.
Batch(d) ==
  {w \in Pending(d) : /\ Cardinality({v \in Pending(d) : v < w}) < BatchLimit
                      /\ attempts[w] < MaxAttempts}

\* The batch leaves, and its handler starts: maintenance_mode is read once,
\* for all entries.
Post(d) ==
  /\ Asked(d) = {}
  /\ Batch(d) # {}
  /\ PostsOn \/ d \notin disturbed
  /\ verdict' = [verdict EXCEPT ![d] =
                   [w \in Write |-> IF w \in Batch(d) THEN "todo" ELSE "out"]]
  /\ freeze' = [freeze EXCEPT ![d] = frozen]
  /\ UNCHANGED <<queue, status, attempts, local, lates, postgres, disturbed>>

\* The request is over for the device.
Close(d) ==
  /\ verdict' = [verdict EXCEPT ![d] = NoVerdict]
  /\ freeze' = [freeze EXCEPT ![d] = FALSE]

\* One attempt more for the writes of S; d is disturbed once one of them is
\* exhausted, because those behind it go on without it.
Count(d, S) ==
  /\ attempts' = [w \in Write |-> IF w \in S THEN attempts[w] + 1 ELSE attempts[w]]
  /\ disturbed' = IF \E w \in S : attempts[w] + 1 = MaxAttempts
                  THEN disturbed \cup {d} ELSE disturbed

Answered(d) ==
  /\ Asked(d) # {}
  /\ Undecided(d) = {}
  /\ status' = [w \in Write |->
       CASE verdict[d][w] = "ok" -> "synced"
         [] verdict[d][w] \in {"forbidden", "missing", "unread"} -> verdict[d][w]
         [] OTHER -> status[w]]
  /\ Count(d, Marked(d, "retry"))
  /\ Close(d)
  /\ UNCHANGED <<queue, local, lates, postgres>>

\* A non-2xx answer: before the handler took up the entries, or in the place
\* of an answer that was complete.
HttpError(d) ==
  /\ Asked(d) # {}
  /\ Undecided(d) \in {Asked(d), {}}
  /\ Count(d, Asked(d))
  /\ Close(d)
  /\ UNCHANGED <<queue, status, local, lates, postgres>>

\* No answer, because the connection, the app or the API is gone, and no
\* handler either.
NoAnswer(d) ==
  /\ Asked(d) # {}
  /\ Close(d)
  /\ UNCHANGED <<queue, status, attempts, local, lates, postgres, disturbed>>

\* No answer, but the handler goes on.
GiveUp(d) ==
  /\ Undecided(d) # {}
  /\ late[d] = {}
  /\ late' = [late EXCEPT ![d] = Undecided(d)]
  /\ lateFreeze' = [lateFreeze EXCEPT ![d] = freeze[d]]
  /\ disturbed' = disturbed \cup {d}
  /\ Close(d)
  /\ UNCHANGED <<queue, status, attempts, local, postgres>>

-------------------------------------------------------------------------------
(* The server.                                                             *)

\* An administrator turns maintenance_mode on or off.
ToggleFreeze ==
  /\ frozen' = ~frozen
  /\ UNCHANGED <<queue, status, attempts, local, requests, lates, content,
                 disturbed>>

FreezeNow(d) == frozen                \* mutant: read again for each entry
FreezeSeen(d) == freeze[d]

\* w is the next of the entries in S.
AnyOf(S, w) == w \in S                \* mutant: the entries are not ordered
FirstOf(S, w) == w \in S /\ \A v \in S : w <= v

\* The operation gate: managers, and a crew member who creates a shelf whose
\* id is new (locationIdIsNew).
Permitted(w) ==
  \/ MayManage(queue[w].by, queue[w].row)
  \/ queue[w].op = "INSERT" /\ content[queue[w].row] = 0

\* The foreign key of an INSERT is satisfied.
ParentKnown(w) ==                     \* mutant: the device's word is taken
  LET p == Parent[queue[w].row]
  IN  queue[w].op = "INSERT" /\ p # NoRow => p \in local[queue[w].by]
HasParent(w) ==
  LET p == Parent[queue[w].row]
  IN  queue[w].op = "INSERT" /\ p # NoRow => content[p] # 0

\* What the tables hold once w is carried out: ON CONFLICT DO UPDATE or DO
\* NOTHING, an UPDATE that may match no row, a DELETE that cascades.
UpsertAlways(w) ==                    \* mutant: INSERT_NO_UPSERT is ignored
  LET r == queue[w].row IN
  CASE queue[w].op = "INSERT" -> [content EXCEPT ![r] = w]
    [] queue[w].op = "UPDATE" -> [content EXCEPT ![r] = IF @ = 0 THEN 0 ELSE w]
    [] queue[w].op = "DELETE" ->
         [q \in Row |-> IF q \in {r} \cup Children(r) THEN 0 ELSE content[q]]
Written(w) ==
  LET r == queue[w].row IN
  CASE queue[w].op = "INSERT" ->
         [content EXCEPT ![r] = IF r \in NoUpsert /\ @ # 0 THEN @ ELSE w]
    [] queue[w].op = "UPDATE" -> [content EXCEPT ![r] = IF @ = 0 THEN 0 ELSE w]
    [] queue[w].op = "DELETE" ->
         [q \in Row |-> IF q \in {r} \cup Children(r) THEN 0 ELSE content[q]]

Carry(w) ==
  /\ content' = Written(w)
  /\ UNCHANGED frozen

\* Entry w of d's request comes up and gets verdict v.
Takes(d, w, v) ==
  /\ FirstOf(Undecided(d), w)
  /\ verdict' = [verdict EXCEPT ![d][w] = v]
  /\ UNCHANGED <<queue, status, attempts, local, freeze, lates>>

Held(d) == FreezeSeen(d) /\ d \notin Exempt

DecideFrozen(d, w) ==
  /\ Held(d)
  /\ Takes(d, w, "retry")
  /\ UNCHANGED <<postgres, disturbed>>

DecideForbidden(d, w) ==
  /\ ~Held(d)
  /\ Takes(d, w, "forbidden")
  /\ ~Permitted(w)
  /\ UNCHANGED <<postgres, disturbed>>

\* The licence to create a shelf could not be looked up: it fails closed, and
\* the refusal is as final as any other.
DecideUnread(d, w) ==
  /\ ~Held(d)
  /\ Takes(d, w, "unread")
  /\ queue[w].op = "INSERT"
  /\ ~MayManage(queue[w].by, queue[w].row)
  /\ UNCHANGED <<postgres, disturbed>>

\* 23503, reported as VALIDATION
DecideMissing(d, w) ==
  /\ ~Held(d)
  /\ Takes(d, w, "missing")
  /\ Permitted(w)
  /\ ~HasParent(w)
  /\ UNCHANGED <<postgres, disturbed>>

DecideOk(d, w) ==
  /\ ~Held(d)
  /\ Takes(d, w, "ok")
  /\ Permitted(w)
  /\ HasParent(w)
  /\ Carry(w)
  /\ UNCHANGED disturbed

\* The statement fails by itself (time-out, deadlock): CONFLICT.
DecideFails(d, w) ==
  /\ ~Held(d)
  /\ Takes(d, w, "retry")
  /\ disturbed' = disturbed \cup {d}
  /\ UNCHANGED postgres

\* The same for a handler whose device has gone.
LateStep(d, w) ==
  /\ FirstOf(late[d], w)
  /\ late' = [late EXCEPT ![d] = @ \ {w}]
  /\ lateFreeze' = [lateFreeze EXCEPT ![d] = @ /\ late[d] # {w}]
  /\ \/ /\ ~(lateFreeze[d] /\ d \notin Exempt)
        /\ Permitted(w)
        /\ HasParent(w)
        /\ Carry(w)
     \/ UNCHANGED postgres
  /\ UNCHANGED <<queue, status, attempts, local, requests, disturbed>>

-------------------------------------------------------------------------------
LocalWrite(d) == \E r \in Row :
  Create(d, r) \/ Overwrite(d, r) \/ Update(d, r) \/ Remove(d, r)

Decide(d, w) ==
  \/ DecideFrozen(d, w) \/ DecideForbidden(d, w) \/ DecideUnread(d, w)
  \/ DecideMissing(d, w) \/ DecideOk(d, w) \/ DecideFails(d, w) \/ LateStep(d, w)

Next ==
  \/ ToggleFreeze
  \/ \E d \in Device :
       \/ LocalWrite(d) \/ Pull(d) \/ RetryFailedOutbox(d)
       \/ Post(d) \/ Answered(d)
       \/ HttpError(d) \/ NoAnswer(d) \/ GiveUp(d)
       \/ \E w \in Write : Decide(d, w)

Spec == Init /\ [][Next]_vars

-------------------------------------------------------------------------------
(* Properties. *)

\* The creation of w's parent row, queued before w on the same device.
ParentCreation(w) ==
  {v \in Queued : /\ v < w
                  /\ queue[v].by = queue[w].by
                  /\ queue[v].op = "INSERT"
                  /\ queue[v].row = Parent[queue[w].row]}

\* w was refused for good for want of a row that is still in the queue.
Orphaned(w) ==
  /\ status[w] = "missing"
  /\ \E v \in ParentCreation(w) : status[v] = "pending"

\* A child is never refused for good while its own device has yet to deliver
\* the parent, as long as nothing broke the order of that device's delivery.
\* A freeze in particular does not: it holds back whole requests.
ParentsGoFirst ==
  \A w \in Queued : queue[w].by \notin disturbed => ~Orphaned(w)

\* engine.ts counts a reference to a row that is not synced yet among the
\* transient rejections: such a write stays in the queue, with no condition.
OrphansAreRetried == \A w \in Queued : ~Orphaned(w)

\* The repeated creation of a row never takes back a later edit of it in the
\* tables where an INSERT is no upsert: no decided approval is open again.
CreateNeverReopens ==
  [][\A r \in NoUpsert :
       (content[r] # 0 /\ content'[r] # 0 /\ queue[content[r]].op = "UPDATE")
         => queue[content'[r]].op = "UPDATE"]_vars

\* The writes that decide what becomes of row r, if all are by device d.
Deciding(r) ==
  {w \in Queued : \/ queue[w].row = r
                  \/ queue[w].op = "DELETE" /\ queue[w].row = Parent[r]}
Concerned(r) == {w \in Queued : queue[w].row \in {r, Parent[r]}}
SoleWriter(d, r) == \A w \in Concerned(r) : queue[w].by = d

\* Row r is to exist: a creation was not refused, and no DELETE came later.
Stands(r) ==
  \E w \in Deciding(r) :
    /\ queue[w].op = "INSERT"
    /\ status[w] # "missing"
    /\ \A v \in Deciding(r) : queue[v].op = "DELETE" => v < w

\* No write of row r was refused because a lookup failed.
Read(r) == \A w \in Deciding(r) : status[w] # "unread"

\* Whatever was lost and repeated on the way: once all writes of a row that
\* one device alone writes are delivered, the server has what the last of
\* them says, as long as nothing broke the order of that device's delivery
\* and no creation of the row was refused unread.
OwnLastWriteStands ==
  \A d \in Device \ disturbed : \A r \in Row : \A w \in Deciding(r) :
    (/\ SoleWriter(d, r)
     /\ Read(r)
     /\ \A v \in Deciding(r) : v <= w
     /\ \A v \in Concerned(r) : status[v] # "pending")
    => content[r] = IF Stands(r) THEN w ELSE 0

===============================================================================
