----------------------------- MODULE LocalStore --------------------------------
(***************************************************************************)
(* The local database of one device as its screens see it: transactions    *)
(* that nest (packages/core/src/db/tx.ts), the repository writes inside    *)
(* them, the table versions that tell screens to read again                *)
(* (sync/dataVersion.ts, hooks/useDbQuery.ts), and the web build's         *)
(* snapshots (apps/mobile-v2/src/db/schema.web.ts, webPersistence.ts).     *)
(*                                                                         *)
(* JavaScript runs to completion: a flow of writes is cut into statements  *)
(* here, so that any of them can fail or the tab can die between two, but  *)
(* timers, renders and saves only run when no call is on the stack.        *)
(***************************************************************************)
EXTENDS Integers

CONSTANTS
  Table,
  Outbox,         \* the key under which the outbox itself is watched
  All,            \* the key of the global version
  Null,
  Screen,
  Watches,        \* Watches[s]: the keys s subscribes to
  Slot,           \* saves that may be under way at once
  MaxDepth,       \* bound: nested runInTransaction calls
  MaxCalls,       \* bound: runInTransaction calls in all
  MaxWrites,      \* bound: mirrored writes of one table
  MaxOthers,      \* bound: other changes of one table
  MaxReloads      \* bound: reloads of the page

Key == Table \cup {Outbox}

ASSUME LocalStoreAssumption ==
  /\ Outbox \notin Table /\ All \notin Key /\ Null \notin Table
  /\ Watches \in [Screen -> (SUBSET Key) \cup {{All}}]
  /\ MaxDepth \in Nat /\ MaxCalls \in Nat /\ MaxWrites \in Nat
  /\ MaxOthers \in Nat /\ MaxReloads \in Nat

\* Of each table: writes mirrored to the outbox, their outbox rows, all other
\* changes; and (history, told of with the rows) the writes that have no outbox
\* row because a caller swallowed the error that kept it from being written.
Content == [Table -> [own : Nat, queued : Nat, raw : Nat, lost : Nat]]
Empty   == [t \in Table |-> [own |-> 0, queued |-> 0, raw |-> 0, lost |-> 0]]

VARIABLES
  db,             \* what a statement reads now
  begun,          \* SQLite's journal: what ROLLBACK returns to; Empty when there is none
  calls,          \* runInTransaction calls on the stack
  depth, open, touched, \* tx.ts: open says that its set touched is not null
  step, table,    \* the innermost repository write: where it is, its table
  version,        \* the counters of dataVersion.ts
  status,         \* status[s]: "off", "drawn" (not subscribed yet), "on"
  seen, shown,    \* the versions and the content s was last drawn with
  woken,          \* subscribed screens that are to be drawn again
  half,           \* tables with rows of a pull that failed after them
  dirty, disabled,\* the flags of schema.web.ts
  save,           \* save[x]: the content slot x is storing, if any
  stored,         \* the snapshot in IndexedDB, if any
  opened, reloads,\* counters of the bounds
  before, past,   \* history: content, versions and untold when the flow under way
                  \* began; the contents committed since the page was loaded
  untold,         \* history: tables with a swallowed write nobody was told of
  ahead, late,    \* history: ahead[x]: the saves that began before x and go on;
                  \* the saves that one which began after them has passed
  overtaken       \* history: the snapshot was stored by such a save

txVars     == <<begun, calls, depth, open, touched, step, table, before, opened>>
screenVars == <<status, seen, shown>>
orderVars  == <<ahead, late, overtaken>>
saveVars   == <<save, orderVars, stored, disabled>>
vars == <<db, txVars, version, screenVars, woken, half, untold, dirty, saveVars, reloads, past>>

Idle == calls = 0

\* The versions and the record of a flow while nothing has happened.
Zeros  == [k \in Key \cup {All} |-> 0]
NoFlow == [db |-> Empty, version |-> Zeros, untold |-> {}]

View(d, k)    == IF k = Outbox THEN [t \in Table |-> d[t].queued]
                               ELSE <<d[k].own, d[k].raw>>
Reads(s)      == IF Watches[s] = {All} THEN Key ELSE Watches[s]
Reading(d, s) == [k \in Reads(s) |-> View(d, k)]
Snapshot(v, s) == [k \in Watches[s] |-> v[k]]

Init ==
  /\ db = Empty /\ begun = Empty
  /\ calls = 0 /\ depth = 0 /\ open = FALSE /\ touched = {}
  /\ step = "out" /\ table = Null
  /\ version = Zeros
  /\ status = [s \in Screen |-> "off"]
  /\ seen = [s \in Screen |-> Null] /\ shown = [s \in Screen |-> Null]
  /\ woken = {} /\ half = {} /\ untold = {}
  /\ dirty = TRUE /\ disabled = FALSE
  /\ save = [x \in Slot |-> {}] /\ stored = {}
  /\ ahead = [x \in Slot |-> {}] /\ late = {} /\ overtaken = FALSE
  /\ opened = 0 /\ reloads = 0
  /\ before = NoFlow
  /\ past = {Empty}

--------------------------------------------------------------------------------
(* Versions and screens. *)

\* bumpTablesVersion: count first, then call the listeners; React draws a
\* screen again if its own snapshot of the counters has changed.
Bumped(T) == [k \in Key \cup {All} |->
                IF T # {} /\ k \in T \cup {All} THEN version[k] + 1 ELSE version[k]]

Hears(s, T) == status[s] = "on" /\ T # {} /\ Watches[s] \cap (T \cup {All}) # {}

Bump(T) ==
  /\ version' = Bumped(T)
  /\ woken' = woken \cup {s \in Screen : Hears(s, T) /\ Snapshot(version', s) # seen[s]}
  /\ untold' = untold \ T

\* queueTableBump: kept for COMMIT inside a transaction, at once outside.
QueueTableBump(T) ==
  IF open THEN touched' = touched \cup T /\ UNCHANGED <<version, woken, untold>>
          ELSE Bump(T) /\ UNCHANGED touched

\* Every statement that is not a read asks the web build for a save.
ScheduleSave == dirty' = (dirty \/ ~disabled)

Mount(s) ==
  /\ Idle /\ status[s] = "off"
  /\ status' = [status EXCEPT ![s] = "drawn"]
  /\ seen' = [seen EXCEPT ![s] = Snapshot(version, s)]
  /\ shown' = [shown EXCEPT ![s] = Reading(db, s)]
  /\ UNCHANGED <<db, txVars, version, woken, half, untold, dirty, saveVars, reloads, past>>

\* The subscription comes after the first drawing and compares the versions.
Subscribe(s) ==
  /\ Idle /\ status[s] = "drawn"
  /\ status' = [status EXCEPT ![s] = "on"]
  /\ woken' = woken \cup {r \in {s} : Snapshot(version, r) # seen[r]}
  /\ UNCHANGED <<db, txVars, version, seen, shown, half, untold, dirty, saveVars, reloads, past>>

Draw(s) ==
  /\ Idle /\ s \in woken
  /\ woken' = woken \ {s}
  /\ seen' = [seen EXCEPT ![s] = Snapshot(version, s)]
  /\ shown' = [shown EXCEPT ![s] = Reading(db, s)]
  /\ UNCHANGED <<db, txVars, version, status, half, untold, dirty, saveVars, reloads, past>>

Unmount(s) ==
  /\ Idle /\ status[s] # "off"
  /\ status' = [status EXCEPT ![s] = "off"]
  /\ seen' = [seen EXCEPT ![s] = Null] /\ shown' = [shown EXCEPT ![s] = Null]
  /\ woken' = woken \ {s}
  /\ UNCHANGED <<db, txVars, version, half, untold, dirty, saveVars, reloads, past>>

--------------------------------------------------------------------------------
(* Flows of writes. *)

\* runInTransaction: the outermost call begins, a nested one joins it.
OpenFrame ==
  /\ calls < MaxDepth /\ calls' = calls + 1
  /\ \/ /\ depth > 0 /\ depth' = depth + 1
        /\ UNCHANGED <<begun, open, touched, dirty>>
     \/ /\ depth = 0 /\ depth' = 1
        /\ open' = TRUE /\ touched' = {} /\ begun' = db
        /\ ScheduleSave
  /\ before' = IF Idle THEN [db |-> db, version |-> version, untold |-> untold] ELSE before
  /\ opened < MaxCalls /\ opened' = opened + 1

\* A screen or a repository groups several writes.
BeginFlow ==
  /\ step = "out" /\ OpenFrame
  /\ UNCHANGED <<db, step, table, version, screenVars, woken, half, untold, saveVars, reloads,
                 past>>

\* createRepository's insert, update, remove, mirror: always in a call of their own.
BeginWrite(t) ==
  /\ step = "out" /\ db[t].own < MaxWrites /\ OpenFrame
  /\ step' = "row" /\ table' = t
  /\ UNCHANGED <<db, version, screenVars, woken, half, untold, saveVars, reloads, past>>

RowStatement ==
  /\ step = "row" /\ step' = "queue"
  /\ db' = [db EXCEPT ![table].own = @ + 1]
  /\ ScheduleSave
  /\ UNCHANGED <<begun, calls, depth, open, touched, table, before, opened, version, screenVars,
                 woken, half, untold, saveVars, reloads, past>>

AppendOutbox ==
  /\ step = "queue" /\ step' = "done"
  /\ db' = [db EXCEPT ![table].queued = @ + 1]
  /\ QueueTableBump({table, Outbox})
  /\ ScheduleSave
  /\ UNCHANGED <<begun, calls, depth, open, table, before, opened, screenVars, half, saveVars,
                 reloads, past>>

\* A local-only write inside a flow, with its own queueTableBump.
ExtraWrite(t) ==
  /\ calls > 0 /\ step = "out" /\ db[t].raw < MaxOthers
  /\ db' = [db EXCEPT ![t].raw = @ + 1]
  /\ QueueTableBump({t})
  /\ ScheduleSave
  /\ UNCHANGED <<begun, calls, depth, open, step, table, before, opened, screenVars, half,
                 saveVars, reloads, past>>

\* The end of a nested call: the outer one owns COMMIT and the bumps.
LeaveCounting ==                      \* mutant: no `finally` around a nested call
  /\ step \in {"out", "done"} /\ calls > 1
  /\ calls' = calls - 1 /\ depth' = depth
  /\ step' = "out" /\ table' = Null
  /\ UNCHANGED <<db, begun, open, touched, before, opened, version, screenVars, woken,
                 half, untold, dirty, saveVars, reloads, past>>
LeaveCommitting ==                    \* mutant: a nested call commits what it has
  /\ step \in {"out", "done"} /\ calls > 1
  /\ calls' = calls - 1 /\ depth' = depth - 1
  /\ step' = "out" /\ table' = Null
  /\ begun' = db
  /\ UNCHANGED <<db, open, touched, before, opened, version, screenVars, woken,
                 half, untold, dirty, saveVars, reloads, past>>
LeaveNested ==
  /\ step \in {"out", "done"} /\ calls > 1
  /\ calls' = calls - 1 /\ depth' = depth - 1
  /\ step' = "out" /\ table' = Null
  /\ UNCHANGED <<db, begun, open, touched, before, opened, version, screenVars, woken,
                 half, untold, dirty, saveVars, reloads, past>>

\* The end of the outermost call: COMMIT, clear the set, then notify.
CommitSilently ==                     \* mutant: the set is cleared before it is read
  /\ step \in {"out", "done"} /\ calls = 1
  /\ calls' = 0 /\ depth' = 0 /\ open' = FALSE /\ touched' = {}
  /\ step' = "out" /\ table' = Null
  /\ begun' = Empty /\ before' = NoFlow
  /\ past' = past \cup {db}
  /\ Bump({})
  /\ ScheduleSave
  /\ UNCHANGED <<db, opened, screenVars, half, saveVars, reloads>>
Commit ==
  /\ step \in {"out", "done"} /\ calls = 1
  /\ calls' = 0 /\ depth' = 0 /\ open' = FALSE /\ touched' = {}
  /\ step' = "out" /\ table' = Null
  /\ begun' = Empty /\ before' = NoFlow
  /\ past' = past \cup {db}
  /\ Bump(touched)
  /\ ScheduleSave
  /\ UNCHANGED <<db, opened, screenVars, half, saveVars, reloads>>

\* A caller inside the flow catches the error of a write, or of a nested flow,
\* and goes on (findOrCreatePartByName, under handleCreatePart): nested calls roll
\* nothing back, and the row stays although its outbox row was refused.
Swallow ==
  /\ step # "done"
  /\ \E n \in 1..(calls - 1) : calls' = calls - n /\ depth' = depth - n
  /\ step' = "out" /\ table' = Null
  /\ IF step = "queue"
       THEN db' = [db EXCEPT ![table].lost = @ + 1] /\ untold' = untold \cup {table}
       ELSE UNCHANGED <<db, untold>>
  /\ UNCHANGED <<begun, open, touched, before, opened, version, screenVars, woken,
                 half, dirty, saveVars, reloads, past>>

\* A statement, the sandbox check or COMMIT throws and every caller passes it
\* on: all calls unwind.  The ROLLBACK may itself throw: that is SQLite's answer
\* when it has already undone the transaction, and it is ignored.
ThrowOnly ==                          \* mutant: no ROLLBACK
  /\ calls > 0
  /\ calls' = 0 /\ depth' = 0 /\ open' = FALSE /\ touched' = {}
  /\ step' = "out" /\ table' = Null
  /\ untold' = before.untold
  /\ begun' = Empty /\ before' = NoFlow
  /\ ScheduleSave
  /\ UNCHANGED <<db, opened, version, screenVars, woken, half, saveVars,
                 reloads, past>>
Throw ==
  /\ calls > 0
  /\ calls' = 0 /\ depth' = 0 /\ open' = FALSE /\ touched' = {}
  /\ step' = "out" /\ table' = Null
  /\ db' = begun /\ untold' = before.untold
  /\ begun' = Empty /\ before' = NoFlow
  /\ ScheduleSave
  /\ UNCHANGED <<opened, version, screenVars, woken, half, saveVars,
                 reloads, past>>

\* A write of a table the outbox does not carry, or of rows the server already has.
RawWrite(t) ==
  /\ Idle /\ db[t].raw < MaxOthers
  /\ db' = [db EXCEPT ![t].raw = @ + 1]
  /\ past' = past \cup {db'}
  /\ QueueTableBump({t})
  /\ ScheduleSave
  /\ UNCHANGED <<begun, calls, depth, open, step, table, before, opened, screenVars, half,
                 saveVars, reloads>>

\* A pull applies its rows one statement at a time, without a transaction, and
\* tells of them at the end.  The rows of a pull that failed come again.
Rows(T) == [t \in Table |-> IF t \in T THEN [db[t] EXCEPT !.raw = @ + 1] ELSE db[t]]
Fits(T) == \A t \in T : db[t].raw < MaxOthers

PullApplies(T) ==
  /\ Idle /\ Fits(T) /\ T \cup half # {}
  /\ db' = Rows(T)
  /\ past' = past \cup {db'}
  /\ half' = {}
  /\ Bump(T \cup half)
  /\ ScheduleSave
  /\ UNCHANGED <<txVars, screenVars, saveVars, reloads>>

PullBreaks(T) ==
  /\ Idle /\ Fits(T) /\ T # {}
  /\ db' = Rows(T)
  /\ past' = past \cup {db'}
  /\ half' = half \cup T
  /\ ScheduleSave
  /\ UNCHANGED <<txVars, version, screenVars, woken, untold, saveVars, reloads>>

--------------------------------------------------------------------------------
(* The web build's snapshots. *)

\* The timer, or the page's being hidden: clear the flag, export, and store
\* behind three awaits (key, encryption, IndexedDB).
FlushAtOnce(x) ==                     \* mutant: a statement saves, no timer
  /\ dirty /\ ~disabled /\ save[x] = {}
  /\ dirty' = FALSE
  /\ save' = [save EXCEPT ![x] = {db}]
  /\ ahead' = [ahead EXCEPT ![x] = {y \in Slot : save[y] # {}}]
  /\ UNCHANGED <<db, txVars, version, screenVars, woken, half, untold, late, overtaken, stored,
                 disabled, reloads, past>>
Flush(x) ==
  /\ Idle /\ dirty /\ ~disabled /\ save[x] = {}
  /\ dirty' = FALSE
  /\ save' = [save EXCEPT ![x] = {db}]
  /\ ahead' = [ahead EXCEPT ![x] = {y \in Slot : save[y] # {}}]
  /\ UNCHANGED <<db, txVars, version, screenVars, woken, half, untold, late, overtaken, stored,
                 disabled, reloads, past>>

EndSave(x) ==
  /\ save' = [save EXCEPT ![x] = {}]
  /\ ahead' = [y \in Slot |-> IF y = x THEN {} ELSE ahead[y] \ {x}]

\* Nothing keeps saves in order: one may be stored after one that began later.
PutSave(x) ==
  /\ save[x] # {}
  /\ stored' = save[x]
  /\ EndSave(x)
  /\ late' = (late \ {x}) \cup ahead[x] /\ overtaken' = (x \in late)
  /\ UNCHANGED <<db, txVars, version, screenVars, woken, half, untold, disabled, reloads, past>>

StoreAndClear(x) == PutSave(x) /\ dirty' = FALSE \* mutant: the flag is cleared after the save
Store(x)         == PutSave(x) /\ UNCHANGED dirty

\* One failure turns saving off until the page is loaded again.
SaveFails(x) ==
  /\ Idle /\ save[x] # {}
  /\ disabled' = TRUE
  /\ EndSave(x)
  /\ late' = late \ {x}
  /\ UNCHANGED <<db, txVars, version, screenVars, woken, half, untold, dirty, overtaken, stored,
                 reloads, past>>

\* The page goes, at any moment, and comes back with the snapshot, or with an
\* empty database if its key is gone.
Reload ==
  /\ reloads < MaxReloads /\ reloads' = reloads + 1
  /\ \E c \in stored \cup {Empty} :
       db' = c /\ past' = {c}
  /\ begun' = Empty /\ before' = NoFlow
  /\ calls' = 0 /\ depth' = 0 /\ open' = FALSE /\ touched' = {} /\ step' = "out" /\ table' = Null
  /\ version' = Zeros
  /\ status' = [s \in Screen |-> "off"]
  /\ seen' = [s \in Screen |-> Null] /\ shown' = [s \in Screen |-> Null]
  /\ woken' = {} /\ half' = {} /\ untold' = {}
  /\ dirty' = TRUE /\ disabled' = FALSE
  /\ save' = [x \in Slot |-> {}]
  /\ ahead' = [x \in Slot |-> {}] /\ late' = {} /\ overtaken' = FALSE
  /\ UNCHANGED <<stored, opened>>

--------------------------------------------------------------------------------
FlowStep   == RowStatement \/ AppendOutbox \/ LeaveNested \/ Commit
ScreenStep == \E s \in Screen : Mount(s) \/ Subscribe(s) \/ Draw(s) \/ Unmount(s)
SaveStep   == \E x \in Slot : Flush(x) \/ Store(x) \/ SaveFails(x)

Next ==
  \/ BeginFlow
  \/ \E t \in Table : BeginWrite(t) \/ ExtraWrite(t) \/ RawWrite(t)
  \/ FlowStep \/ Swallow \/ Throw
  \/ \E T \in SUBSET Table : PullApplies(T) \/ PullBreaks(T)
  \/ ScreenStep
  \/ SaveStep
  \/ Reload

\* A flow runs on once it has begun, the timer fires, a save ends one way or the other.
Fairness ==
  /\ WF_vars(FlowStep)
  /\ WF_vars(\E x \in Slot : Flush(x))
  /\ \A x \in Slot : WF_vars(Store(x) \/ SaveFails(x))

Spec == Init /\ [][Next]_vars /\ Fairness

--------------------------------------------------------------------------------
(* Properties. *)

Counters == [Key \cup {All} -> Nat]

\* Types, and the shape of the transaction's variables: depth is the number of
\* calls, and bumps are collected exactly while there is one.
TypeOK ==
  /\ db \in Content /\ begun \in Content
  /\ calls \in 0..MaxDepth /\ depth = calls
  /\ touched \subseteq Key /\ open \in BOOLEAN /\ (open <=> ~Idle)
  /\ step \in {"out", "row", "queue", "done"} /\ (step # "out" => calls > 0)
  /\ table \in Table \cup {Null} /\ (table = Null <=> step = "out")
  /\ version \in Counters
  /\ status \in [Screen -> {"off", "drawn", "on"}]
  /\ DOMAIN seen = Screen /\ DOMAIN shown = Screen
  /\ \A s \in Screen : status[s] # "off" => seen[s] \in [Watches[s] -> Nat]
  /\ woken \subseteq {s \in Screen : status[s] = "on"}
  /\ half \subseteq Table /\ untold \subseteq Table
  /\ dirty \in BOOLEAN /\ disabled \in BOOLEAN
  /\ save \in [Slot -> SUBSET Content] /\ ahead \in [Slot -> SUBSET Slot]
  /\ late \subseteq Slot /\ overtaken \in BOOLEAN
  /\ stored \subseteq Content
  /\ opened \in 0..MaxCalls /\ reloads \in 0..MaxReloads
  /\ before \in [db : Content, version : Counters, untold : SUBSET Table]
  /\ past \subseteq Content

\* A local row and its outbox row exist together: between flows, and in every
\* snapshot under way or stored, whatever threw or died on the way
\* (createRepository.ts: one payload, no drift).  The rows without one are those
\* whose write failed at its outbox row and whose error a caller swallowed, each
\* counted once, and never one of a flow that was rolled back.
Paired(d) == \A t \in Table : d[t].own = d[t].queued + d[t].lost

NoDrift ==
  /\ Idle => Paired(db)
  /\ \A x \in Slot : \A d \in save[x] : Paired(d)
  /\ \A d \in stored : Paired(d)

\* A screen that is subscribed and not about to be drawn again shows what the
\* database holds, whatever was written between its drawing and its
\* subscription, and by whom; except rows of a pull that failed half-way, of
\* which nobody is told before the next pull succeeds, and a table with a
\* swallowed write, of which nobody is told before its next one.
NoStaleScreen ==
  Idle => \A s \in Screen : status[s] = "on" /\ s \notin woken =>
            \A k \in Reads(s) \ (half \cup untold) : shown[s][k] = View(db, k)

\* The tables of which d has lost more outbox rows than e.
LostIn(d, e) == {t \in Table : d[t].lost # e[t].lost}

\* A flow that ends has either changed nothing and told nobody, or all it wrote
\* is committed and every subscribed screen that reads a part of it is to be
\* drawn again (tx.ts: "either every write lands or none do"; listeners "never
\* observe a change that could still roll back").  But of a write that lost its
\* outbox row nobody is told, if the flow did not write its table otherwise.
SilentOrWhole ==
  [][calls > 0 /\ calls' = 0 /\ reloads' = reloads =>
       \/ db' = before.db /\ version' = before.version
       \/ /\ db' = db
          /\ \A s \in Screen : status[s] = "on" =>
               \A k \in Reads(s) \ (LostIn(before.db, db) \ touched) :
                 View(db, k) # View(before.db, k) => s \in woken']_vars

\* A reload finds a content that was committed as a whole: no snapshot holds
\* half of a flow.
Contents == INSTANCE WholeStore WITH
  now  <- IF Idle THEN db ELSE begun,
  kept <- stored

StoresWhole == Contents!Spec

\* Once the writes stop, the snapshot catches up with the database: a write made
\* while a save is under way asks for another.  Unless a save has failed, or the
\* last to be stored had been passed by one that began after it.
SavedInTheEnd == <>[](Idle /\ (disabled \/ overtaken \/ stored = {db}))
================================================================================
