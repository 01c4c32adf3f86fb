------------------------------ MODULE PullReplica -----------------------------
(***************************************************************************)
(* One device's copy of the synced tables and what keeps it up to date:    *)
(* the cycles of the sync engine (push the edits, then pull what changed   *)
(* since the stored watermark: packages/core/src/sync/engine.ts, pull.ts), *)
(* the enrollment download (fullDownload.ts), and the server's GET         *)
(* /sync/pull and /sync/full, which read the tables one after the other    *)
(* while other devices write (apps/api-v2/src/routes/sync.ts).             *)
(*                                                                         *)
(* A row is one table's row; its content is the number of the write that   *)
(* made it.  The server's clock counts the commits.                        *)
(***************************************************************************)
EXTENDS Integers

CONSTANTS
  NumRows,         \* bound: rows, one per table, in the order of FULL_TABLES
  MaxWrites,       \* bound: writes by anybody after the start
  LastLoss,        \* bound: requests fail while clock < LastLoss
  MaxAttempts,     \* MAX_OUTBOX_ATTEMPTS: answers an edit may fail on
  Cycle,           \* sync cycles that may overlap (tick, reconnect, syncNow)
  Skew,            \* the device's clock minus the server's
  FkDefault        \* PRAGMA foreign_keys of a new connection, by SQLite build

ASSUME ReplicaAssumption ==
  /\ NumRows \in Nat \ {0}
  /\ MaxWrites \in Nat
  /\ LastLoss \in Nat
  /\ MaxAttempts \in Nat \ {0}
  /\ Skew \in Int
  /\ FkDefault \in BOOLEAN

Row    == 1..NumRows
Absent == -1           \* no such row here

VARIABLES
  \* Postgres
  clock,           \* NOW(), as the number of commits
  writes,          \* how many writes were made by anybody
  val,             \* val[r]: the write whose content row r has
  upd,             \* upd[r]: its updated_at
  crossed,         \* history: rows whose last commit no later pull returns
  \* the device's SQLite file
  local,           \* local[r]
  mark,            \* last_pulled_at
  pending,         \* the outbox: undelivered edits, [row, id]
  attempts,        \* attempts[id]: its failed answers since it was last armed
  refused,         \* history: rows whose local content the server refused
  \* the device's memory
  fk,              \* PRAGMA foreign_keys of the connection
  running,         \* the drain lock
  pc,              \* pc[c]: where cycle c stands
  since,           \* since[c]: the watermark it sent
  dl,              \* the enrollment download: "none", "page", "done"
  \* requests in flight, and what they carry
  todo,            \* todo[c]: posted edits the server has not decided
  okd, bad, later, \* accepted edits, edits refused for good, and for now
  unread,          \* unread[c]: tables the pull's SELECT loop has not reached
  resp,            \* resp[c][r]: the row in the answer, or Absent
  pageRow,         \* the page the download waits for
  page             \* its content, Absent until the server has read it

postgres == <<clock, writes, val, upd, crossed>>
deviceDb == <<local, mark, pending, attempts, refused>>
memory   == <<fk, running, pc, since, dl>>
pushes   == <<todo, okd, bad, later>>
pulls    == <<unread, resp>>
download == <<pageRow, page>>
vars     == <<postgres, deviceDb, memory, pushes, pulls, download>>

Edit    == [row : Row, id : 1..MaxWrites]
Content == 0..MaxWrites

ServerTyped ==
  /\ clock \in Nat
  /\ writes \in Content
  /\ val \in [Row -> Content]
  /\ upd \in [Row -> Nat]
  /\ crossed \subseteq Row

DeviceTyped ==
  /\ local \in [Row -> Content \cup {Absent}]
  /\ mark \in Int
  /\ pending \subseteq Edit
  /\ attempts \in [1..MaxWrites -> Nat]
  /\ refused \subseteq Row

MemoryTyped ==
  /\ fk \in BOOLEAN /\ running \in BOOLEAN
  /\ pc \in [Cycle -> {"idle", "drain", "posted", "drained", "asked"}]
  /\ since \in [Cycle -> Int]
  /\ dl \in {"none", "page", "done"}

PushesTyped ==
  /\ todo \in [Cycle -> SUBSET Edit]
  /\ okd \in [Cycle -> SUBSET Edit]
  /\ bad \in [Cycle -> SUBSET Edit]
  /\ later \in [Cycle -> SUBSET Edit]

PullsTyped ==
  /\ unread \in [Cycle -> SUBSET Row]
  /\ resp \in [Cycle -> [Row -> Content \cup {Absent}]]
  /\ pageRow \in Row
  /\ page \in Content \cup {Absent}

TypeOK ==
  ServerTyped /\ DeviceTyped /\ MemoryTyped /\ PushesTyped /\ PullsTyped

NoRows == [r \in Row |-> Absent]

\* An app start on a device that has a session and no data yet.  Opening the
\* database sets no pragma: foreign_keys is what the SQLite build defaults to.
Init ==
  /\ clock = 1 /\ writes = 0
  /\ val = [r \in Row |-> 0] /\ upd = [r \in Row |-> 1]
  /\ crossed = {}
  /\ local = NoRows /\ mark = 0 /\ pending = {} /\ refused = {}
  /\ attempts = [n \in 1..MaxWrites |-> 0]
  /\ fk = FkDefault /\ running = FALSE
  /\ pc = [c \in Cycle |-> "idle"] /\ since = [c \in Cycle |-> 0]
  /\ dl = "none"
  /\ todo = [c \in Cycle |-> {}] /\ okd = [c \in Cycle |-> {}]
  /\ bad = [c \in Cycle |-> {}] /\ later = [c \in Cycle |-> {}]
  /\ unread = [c \in Cycle |-> {}] /\ resp = [c \in Cycle |-> NoRows]
  /\ pageRow = 1 /\ page = Absent

-------------------------------------------------------------------------------
(* Writes. *)

\* A reader has taken row r from the server and not applied it yet.
Held(r) ==
  \/ \E c \in Cycle : pc[c] = "asked" /\ r \notin unread[c]
  \/ dl = "page" /\ page # Absent /\ pageRow = r

\* Row r gets the content of write n; updated_at = NOW().  The commit crosses
\* a reader that holds the row as it was, or a watermark that is ahead of it.
Commit(r, n) ==
  /\ clock' = clock + 1
  /\ val' = [val EXCEPT ![r] = n]
  /\ upd' = [upd EXCEPT ![r] = clock']
  /\ crossed' = IF Held(r) \/ clock' <= mark
                THEN crossed \cup {r}
                ELSE crossed \ {r}

\* Another device's push, or the admin console.
RemoteWrite(r) ==
  /\ writes < MaxWrites
  /\ writes' = writes + 1
  /\ Commit(r, writes')
  /\ UNCHANGED <<deviceDb, memory, pushes, pulls, download>>

\* The user edits a row: the local write and its outbox entry are one
\* transaction.
LocalEdit(r) ==
  /\ dl = "done"
  /\ local[r] # Absent
  /\ writes < MaxWrites
  /\ writes' = writes + 1
  /\ local' = [local EXCEPT ![r] = writes']
  /\ pending' = pending \cup {[row |-> r, id |-> writes']}
  /\ refused' = refused \ {r}
  /\ UNCHANGED <<clock, val, upd, crossed, mark, attempts, memory, pushes,
                 pulls, download>>

\* "Retry failed" in the settings: the exhausted edits are armed again.
RetryFailedOutbox ==
  /\ \E e \in pending : attempts[e.id] >= MaxAttempts
  /\ attempts' = [n \in 1..MaxWrites |->
                    IF attempts[n] >= MaxAttempts THEN 0 ELSE attempts[n]]
  /\ UNCHANGED <<postgres, local, mark, pending, refused, memory, pushes, pulls,
                 download>>

-------------------------------------------------------------------------------
(* A sync cycle: drain, then pull. *)

\* A cycle that finds a drain under way goes straight on to its pull.
StartCycle(c) ==
  /\ pc[c] = "idle"
  /\ pc' = [pc EXCEPT ![c] = IF running THEN "drained" ELSE "drain"]
  /\ running' = TRUE
  /\ UNCHANGED <<postgres, deviceDb, fk, since, dl, pushes, pulls, download>>

\* The drain of cycle c is over: its lock is released, its request forgotten.
DrainStaysLocked(c) ==              \* mutant: no finally block
  /\ pc' = [pc EXCEPT ![c] = "drained"]
  /\ todo' = [todo EXCEPT ![c] = {}]
  /\ okd' = [okd EXCEPT ![c] = {}]
  /\ bad' = [bad EXCEPT ![c] = {}]
  /\ later' = [later EXCEPT ![c] = {}]
  /\ UNCHANGED <<fk, since, dl, running>>
EndDrain(c) ==
  /\ pc' = [pc EXCEPT ![c] = "drained"]
  /\ running' = FALSE
  /\ todo' = [todo EXCEPT ![c] = {}]
  /\ okd' = [okd EXCEPT ![c] = {}]
  /\ bad' = [bad EXCEPT ![c] = {}]
  /\ later' = [later EXCEPT ![c] = {}]
  /\ UNCHANGED <<fk, since, dl>>

\* The edits that are still sent.
Active == {e \in pending : attempts[e.id] < MaxAttempts}

NothingToPush(c) ==
  /\ pc[c] = "drain"
  /\ Active = {}
  /\ EndDrain(c)
  /\ UNCHANGED <<postgres, deviceDb, pulls, download>>

PostEdits(c) ==
  /\ pc[c] = "drain"
  /\ Active # {}
  /\ pc' = [pc EXCEPT ![c] = "posted"]
  /\ todo' = [todo EXCEPT ![c] = Active]
  /\ UNCHANGED <<postgres, deviceDb, fk, running, since, dl, okd, bad, later,
                 pulls, download>>

NextOf(c, e) ==
  /\ pc[c] = "posted"
  /\ e \in todo[c]
  /\ \A x \in todo[c] : e.id <= x.id

\* A whole-row write: last to arrive wins.
ServerApplies(c, e) ==
  /\ NextOf(c, e)
  /\ Commit(e.row, e.id)
  /\ todo' = [todo EXCEPT ![c] = @ \ {e}]
  /\ okd' = [okd EXCEPT ![c] = @ \cup {e}]
  /\ UNCHANGED <<writes, deviceDb, memory, bad, later, pulls, download>>

\* A permanent rejection.
ServerRefuses(c, e) ==
  /\ NextOf(c, e)
  /\ todo' = [todo EXCEPT ![c] = @ \ {e}]
  /\ bad' = [bad EXCEPT ![c] = @ \cup {e}]
  /\ UNCHANGED <<postgres, deviceDb, memory, okd, later, pulls, download>>

\* CONFLICT: a statement failed, or a freeze; the edit is to be sent again.
ServerDefers(c, e) ==
  /\ NextOf(c, e)
  /\ todo' = [todo EXCEPT ![c] = @ \ {e}]
  /\ later' = [later EXCEPT ![c] = @ \cup {e}]
  /\ UNCHANGED <<postgres, deviceDb, memory, okd, bad, pulls, download>>

\* UPDATE outbox SET attempts = attempts + 1
Charge(E) ==
  attempts' = [n \in 1..MaxWrites |->
                 IF \E e \in E : e.id = n THEN attempts[n] + 1 ELSE attempts[n]]

\* The delivered and the denied rows leave the pending ones.  A denied edit is
\* not taken back from the local table.
PushAnswered(c) ==
  /\ pc[c] = "posted"
  /\ todo[c] = {}
  /\ pending' = pending \ (okd[c] \cup bad[c])
  /\ refused' = refused \cup {e.row : e \in {x \in bad[c] : local[x.row] = x.id}}
  /\ Charge(later[c])
  /\ EndDrain(c)
  /\ UNCHANGED <<postgres, local, mark, pulls, download>>

\* fetch throws: the drain ends, the pull is still tried, and the server has
\* done as much of the request as it has.  Nothing is charged.
PushLost(c) ==
  /\ pc[c] = "posted"
  /\ clock < LastLoss
  /\ EndDrain(c)
  /\ UNCHANGED <<postgres, deviceDb, pulls, download>>

\* The status is not 2xx: every posted edit is charged an attempt, whatever the
\* server has done with it.
PushRejected(c) ==
  /\ pc[c] = "posted"
  /\ clock < LastLoss
  /\ Charge(todo[c] \cup okd[c] \cup bad[c] \cup later[c])
  /\ EndDrain(c)
  /\ UNCHANGED <<postgres, local, mark, pending, refused, pulls, download>>

\* The watermark is read just before the request leaves.
AskPull(c) ==
  /\ pc[c] = "drained"
  /\ pc' = [pc EXCEPT ![c] = "asked"]
  /\ since' = [since EXCEPT ![c] = mark]
  /\ unread' = [unread EXCEPT ![c] = Row]
  /\ resp' = [resp EXCEPT ![c] = NoRows]
  /\ UNCHANGED <<postgres, deviceDb, fk, running, dl, pushes, download>>

\* WHERE updated_at > since
Changed(r, ts) == upd[r] > ts

\* One SELECT of the pull's loop over the tables.
ServerSelects(c, r) ==
  /\ pc[c] = "asked"
  /\ r \in unread[c]
  /\ \A x \in unread[c] : r <= x
  /\ unread' = [unread EXCEPT ![c] = @ \ {r}]
  /\ resp' = [resp EXCEPT ![c][r] = IF Changed(r, since[c]) THEN val[r] ELSE Absent]
  /\ UNCHANGED <<postgres, deviceDb, memory, pushes, download>>

\* new Date(): the watermark the device stores when it has applied an answer.
Stamp == clock + Skew

\* Cycle c is over, its pull request and answer are forgotten.
EndCycle(c) ==
  /\ pc' = [pc EXCEPT ![c] = "idle"]
  /\ since' = [since EXCEPT ![c] = 0]
  /\ unread' = [unread EXCEPT ![c] = {}]
  /\ resp' = [resp EXCEPT ![c] = NoRows]

\* The answer is upserted in one synchronous stretch with FK checks off, and
\* the checks are on again at its end, whoever turned them off.
ApplyPull(c) ==
  /\ pc[c] = "asked"
  /\ unread[c] = {}
  /\ local' = [r \in Row |-> IF resp[c][r] = Absent THEN local[r] ELSE resp[c][r]]
  /\ refused' = {r \in refused : resp[c][r] = Absent}
  /\ fk' = TRUE
  /\ mark' = Stamp
  /\ EndCycle(c)
  /\ UNCHANGED <<postgres, pending, attempts, running, dl, pushes, download>>

\* The request fails, or there is no session: the watermark stays.
PullFailsStamped(c) ==              \* mutant: the watermark moves all the same
  /\ pc[c] \in {"drained", "asked"}
  /\ mark' = Stamp
  /\ EndCycle(c)
  /\ UNCHANGED <<postgres, local, pending, attempts, refused, fk, running, dl,
                 pushes, download>>
PullFails(c) ==
  /\ pc[c] \in {"drained", "asked"}
  /\ EndCycle(c)
  /\ UNCHANGED <<postgres, deviceDb, fk, running, dl, pushes, download>>

-------------------------------------------------------------------------------
(* The enrollment download, one page of one table after the other. *)

StartDownload ==
  /\ dl = "none"
  /\ dl' = "page"
  /\ fk' = FALSE
  /\ pageRow' = 1 /\ page' = Absent
  /\ UNCHANGED <<postgres, deviceDb, running, pc, since, pushes, pulls>>

PageIsRead ==
  /\ dl = "page"
  /\ page = Absent
  /\ page' = val[pageRow]
  /\ UNCHANGED <<postgres, deviceDb, memory, pushes, pulls, pageRow>>

\* hasMore is false and no table follows.
PagesForever == pageRow > NumRows   \* mutant: one page too many
LastPage == pageRow = NumRows

\* With FK checks on, a row whose parent is not there fails the whole
\* download; any row may be such a row.
ApplyPage ==
  /\ dl = "page"
  /\ page # Absent
  /\ local' = [local EXCEPT ![pageRow] = page]
  /\ IF LastPage
     THEN dl' = "done" /\ fk' = TRUE /\ pageRow' = 1
     ELSE pageRow' = pageRow + 1 /\ UNCHANGED <<dl, fk>>
  /\ page' = Absent
  /\ UNCHANGED <<postgres, mark, pending, attempts, refused, running, pc, since,
                 pushes, pulls>>

\* A page's request fails, or its rows are refused by the FK check; the user
\* may tap to retry.
DownloadFails ==
  /\ dl = "page"
  /\ dl' = "none"
  /\ fk' = TRUE
  /\ pageRow' = 1 /\ page' = Absent
  /\ UNCHANGED <<postgres, deviceDb, running, pc, since, pushes, pulls>>

\* The app is killed and starts again.
Relaunch ==
  /\ clock < LastLoss \/ \A c \in Cycle : pc[c] # "posted"
  /\ fk' = FkDefault
  /\ running' = FALSE
  /\ pc' = [c \in Cycle |-> "idle"]
  /\ dl' = IF dl = "done" THEN "done" ELSE "none"
  /\ todo' = [c \in Cycle |-> {}] /\ okd' = [c \in Cycle |-> {}]
  /\ bad' = [c \in Cycle |-> {}] /\ later' = [c \in Cycle |-> {}]
  /\ since' = [c \in Cycle |-> 0]
  /\ unread' = [c \in Cycle |-> {}] /\ resp' = [c \in Cycle |-> NoRows]
  /\ pageRow' = 1 /\ page' = Absent
  /\ UNCHANGED <<postgres, deviceDb>>

-------------------------------------------------------------------------------

Drain(c) ==
  \/ StartCycle(c)
  \/ NothingToPush(c)
  \/ PostEdits(c)
  \/ \E e \in todo[c] :
       ServerApplies(c, e) \/ ServerRefuses(c, e) \/ ServerDefers(c, e)
  \/ PushAnswered(c)

Pull(c) ==
  \/ AskPull(c)
  \/ \E r \in Row : ServerSelects(c, r)
  \/ ApplyPull(c)

Benign ==
  \/ \E r \in Row : RemoteWrite(r) \/ LocalEdit(r)
  \/ \E c \in Cycle : Drain(c) \/ Pull(c)
  \/ StartDownload \/ PageIsRead \/ ApplyPage

Next ==
  \/ Benign
  \/ \E c \in Cycle : PushLost(c) \/ PushRejected(c) \/ PullFails(c)
  \/ DownloadFails
  \/ RetryFailedOutbox
  \/ Relaunch

Spec == Init /\ [][Next]_vars

(* The interval timer starts cycles, every await is answered while the network
   is there, and the user keeps retrying an enrollment that failed. *)
Fairness ==
  /\ \A c \in Cycle : WF_vars(Drain(c)) /\ WF_vars(Pull(c))
  /\ WF_vars(StartDownload \/ PageIsRead \/ ApplyPage)

FairSpec == Spec /\ Fairness

-------------------------------------------------------------------------------
(* Properties. *)

OwnEdit(r) == \E e \in pending : e.row = r

\* A row on which the device differs from the server is still ahead of the
\* watermark, or the difference is an edit that has not left the outbox.
Accounted(r) == local[r] # val[r] => Changed(r, mark) \/ OwnEdit(r)

\* No change is ever skipped by overlapping pulls, broken downloads, stale
\* answers and lost pushes, but for two kinds of row: one whose content the
\* server refused (nothing brings it back), and one whose last commit crossed
\* a reader or a watermark (the next property).
NothingSkipped == \A r \in Row \ (refused \cup crossed) : Accounted(r)

\* "WHERE updated_at > since always sees the change" (apply.ts:121-123): the
\* same of every row, crossed ones included.
SinceSeesEveryChange == \A r \in Row \ refused : Accounted(r)

\* The content the device shows is an edit that used up its attempts: it waits
\* for the user's retry.
GivenUp(r) ==
  \E e \in pending \ Active : e.row = r /\ e.id = local[r]

\* The device catches up: from some time on its rows are the server's once no
\* request fails any more, even if the server goes on to defer edits.  Left out
\* are the rows of NothingSkipped and those whose edit used up its attempts.
CatchesUp ==
  <>[][Benign]_vars =>
    <>[](\A r \in Row \ (refused \cup crossed) : local[r] = val[r] \/ GivenUp(r))

===============================================================================
