# InventoryPro: formal models of the offline-first sync core

TLA+ specifications, TLC runs and TLAPS proofs about the program in `src/`. The
program is an offline-first inventory system: an Expo app (native and web) that
keeps a complete local SQLite copy, queues every write in an outbox and exchanges
changes with a Fastify + Postgres API. What is hard in it is that exchange, what
the server does behind it, and the session it runs under; these are modelled.

## 1. Inventory of the system

| Component | Source | State | Operations | Hard behaviour |
|---|---|---|---|---|
| Outbox | `packages/core/src/sync/outbox.ts` | table `outbox` (attempts, synced_at, denied) | append, mark synced / denied, count an attempt, retry, discard | rows touched while a request that carries them is in flight |
| Sync engine | `packages/core/src/sync/engine.ts` | `running`, timers, pushers in flight | drain, push the logs, pull, syncNow | overlapping cycles, lost answers, a crash half-way through a verdict |
| Pull and enrollment | `pull.ts`, `fullDownload.ts` in the same directory | `last_pulled_at`, the local tables, the `foreign_keys` pragma | incremental pull, paged full download | watermark against concurrent commits; two users of one pragma |
| Push endpoint | `apps/api-v2/src/routes/sync.ts` | none between requests | decide a batch entry by entry | partial success, maintenance, permission changes between retries |
| Writers | `apps/api-v2/src/sync/apply.ts` | Postgres tables, `processed_outbox` | ADJUST, activity_log, INSERT, UPDATE, DELETE | idempotence, last writer wins, parents before children |
| Vehicles | mobile `src/repos/vehicles.ts`, API `sync/guards/vehicles.ts`, `sync/guards/vehicleCheckouts.ts`, `lib/vehicleLockPolicy.ts` | `vehicles` (the lock and whose it is), `vehicle_checkouts` | edit, lock, unlock, check out, check in, take over | whole rows sent from old copies, guard and statement apart, repeated creations |
| Other guards and permissions | `sync/guards/*`, `sync/opPerm.ts`, `lib/permissions.ts`, `lib/syncPolicy.ts` | none | read the row, then allow the write | check-then-write |
| Primary photo | `lib/mediaPrimary.ts` | `media.is_primary`, a partial unique index | claim | two claims race past the check |
| Notification dedup | `lib/notifications.ts`, `sync/batch.ts`, `lib/notificationTimer.ts` | `notification_dedup` | claim, release, deliver | claim before effect, crash in between |
| Sessions | mobile `src/auth/session.ts`, `auth/sessionExpiredBus.ts`, API `routes/auth.ts` | stored tokens, the bus | login, refresh, revalidate, logout | a refresh in flight at logout, rotation races |
| Lockout | API `routes/auth.ts` | `attempts` map | record failure / success, sweep | decay, doubling, boundaries |
| Local transactions and notification | `packages/core/src/db/tx.ts`, `sync/dataVersion.ts`, `hooks/useDbQuery.ts` | depth, touched tables, counters, subscriptions | run in transaction, bump, draw, subscribe | nesting, rollback, a write between drawing and subscribing, a pull that fails half-way |
| Web database snapshots | mobile `src/db/schema.web.ts`, `src/db/webPersistence.ts` | dirty flag, timer, the snapshot in IndexedDB | schedule, flush, load | a write during a save, overlapping saves, a reload at any moment |
| Caches | `cache/createConfigCache.ts`, `lib/demoMode.ts` | snapshots | get, reload, invalidate | read before await, stale value stored after invalidate |
| Screens, repositories, REST routes, schema, legacy app | `apps/mobile-v2`, `packages/ui`, `routes/*`, `packages/core/src/manifest`, `legacy-v1` | | | no protocol state of their own |

How they interact. A repository write changes a local table and appends to the
outbox in one SQLite transaction. The engine, woken by an interval, a reconnect
or a user, drains the outbox: it posts up to 50 rows to `POST /sync/push`, whose
answer says for each entry *ok* or *conflict*; the device marks a row synced,
denied (permanent) or one attempt older (transient). Then it pulls: `GET
/sync/pull?since=` returns the rows of every table with a later `updated_at`, and
the device stores its own clock as the next watermark. Enrollment replaces the
first pulls with `GET /sync/full`, page by page. The engine runs from app start,
so it also runs under the enrollment download.

What makes each component correct:

* outbox and push: a write changes the server's data at most once; a row is
  delivered only if its write was applied; nothing delivered or denied is queued
  again; retries are bounded and every row with retries left is eventually decided;
* pull: no committed change is skipped; the copy converges; foreign-key checks
  are off for restores and on for edits;
* writers: ADJUSTs commute up to the clamp at zero, a late retry must not undo a
  newer write;
* photo, notifications: at most one primary photo, and one where there are photos; a
  notice once per episode and not lost;
* vehicles: the lock changes only in the name of somebody who may change it; a session that
  somebody ended is closed once everything is delivered;
* sessions and lockout: a session ends when the server says so and the user learns of it,
  its tokens are those of the user on the screen; a lock is never shortened;
* transactions: a flow of writes is all or nothing, for the tables, for the screens and for the
  outbox; no open screen stays on old data; a reload of the web build finds a content
  that was committed, and in the end the last one.

## 2. Modules

| Module | What it is |
|---|---|
| `DeliveryLedger` | the abstract promise: each write is queued, lands at most once, is settled as delivered only after it landed |
| `OutboxSync` | the write path of one device in full: outbox operations, two kinds of pushers, requests, the server's batch loop, dedup, crashes, prune |
| `MCOutboxSync` | constants and symmetry for TLC |
| `OutboxSync_proof` | TLAPS: types, the safety properties of delivery, the refinement of `DeliveryLedger`, the net stock |
| `PullReplica` | the read path of one device: cycles, watermark, pull and download, the foreign-key switch |
| `MCPullReplica` | symmetry for TLC |
| `PullReplica_proof` | TLAPS: types and completeness of the pull |
| `RowWrites` | the rows written by several devices: the local writes, the freeze, the permission, the foreign keys and the writers of the server, requests that outlive their device's patience |
| `MCRowWrites` | constants and symmetry for TLC |
| `RowWrites_proof` | TLAPS: types with the foreign keys, the finality of decisions, parents before children, the last write stands |
| `SessionTokens` | the session of one device: the stored keys, the calls that renew the tokens, the expiry notice, sign-in, unlock, sign-out, and `POST /auth/refresh` |
| `MCSessionTokens` | the instance for TLC |
| `SessionTokens_proof` | TLAPS: types, the latch of the notice, the bound on access, whose tokens are used |
| `OneTeller` | the abstract promise of the dedup table: one teller per event, nobody told twice, a key given back only before anybody was told |
| `Notices` | notices and approvals of the API: claim, release, resolve, deliver, and the decision of a request |
| `MCNotices` | symmetry for TLC |
| `Notices_proof` | TLAPS: types, the refinement of `OneTeller`, no burned keys, what review requests, requesters and low levels are promised |
| `FirstClaim` | the abstract promise about a job's starred photo: the first claim wins |
| `Photos` | the starred photo: the devices' election, the server's check, write and repeated write under the unique index |
| `MCPhotos` | symmetry for TLC |
| `Photos_proof` | TLAPS: types, the refinement of `FirstClaim`, no photo refused for its star, no job left without one |
| `Vehicles` | one vehicle and the people who share it: its lock, its checkout sessions, the guards on both |
| `MCVehicles` | the instance for TLC |
| `Vehicles_proof` | TLAPS: types, who changes the lock, the closing of ended sessions |
| `WholeStore` | the abstract promise about the local content: committed as a whole, kept as a whole, found as a whole |
| `LocalStore` | one device's database from within: nested transactions, repository writes, counters and screens, the web build's snapshots |
| `MCLocalStore` | the instance for TLC |
| `LocalStore_proof` | TLAPS: types, and all four of its safety properties |

`OutboxSync`, `RowWrites` and `PullReplica` look at the same exchange from three
sides and are checked apart, because their product is out of TLC's reach: `OutboxSync` has the
queue's concurrency and the writers that count (ADJUST, log rows), `RowWrites`
the writers that overwrite, with a queue reduced to one request at a time, and
`PullReplica` the way back. `Photos`, `Vehicles` and `Notices` take up where a push is applied,
`SessionTokens` is what every request of the engine goes through first. `LocalStore` is below
all of them: the other modules take a local write and its outbox row as one step, and a
pull's rows as one step, and it shows what that rests on. Three of these modules
have an abstract specification beside them, as `OutboxSync` has `DeliveryLedger`.

### OutboxSync

| Variables | Code |
|---|---|
| `issued`, `outbox`, `attempts`, `synced`, `denied` | the SQLite table; an entry is named by its rank in `created_at` order |
| `running`, `pc`, `batch`, `slot` | the engine's lock; where each async function is suspended, what it posted, the request it awaits |
| `live`, `todo`, `okd`, `perm`, `trans` | a request in the API process: undecided entries and verdicts so far, by how the device will classify them |
| `processed`, `logRows`, `stock` | `processed_outbox`, `activity_log`, one cell of `stock_by_location` |
| `applied`, `forgiven` | history: how often a write changed data; the shortfalls the clamp at zero swallowed (`apply.ts:138`) |

An action is what runs between two awaits. `PostBatch` reads the rows and sends
them, `ApplyVerdict` is the whole synchronous stretch after the answer,
`AppKilledInVerdict` the same stretch cut off at any entry (each row is its own
statement there). Slots outlive the pusher that opened them: a request the
device has given up on goes on in the API (`OrphanEnds` ends it), so lost
answers and late effects both occur. The server's `Apply*` and `Reject*` actions
take the entries in order, one at a time, so requests interleave.
Which entries are refused is a free choice at every decision: permissions,
maintenance and database errors may change between two retries.

Left out: payloads, reasons' texts (only permanent / transient is kept),
telemetry, and the fast-retry timer, which only makes the next drain come sooner.
The writers of plain rows are in RowWrites (their re-application is not idempotent
in the same sense); here every entry is an ADJUST of one cell or a log row.

### DeliveryLedger

`stage` and `effect` per entry and nothing else. `OutboxSync` maps its rows to
stages (`StageOf`) and `applied` to `effect`. A denied entry may later become
acknowledged, because an orphan request can have both verdicts; that is in the
ledger as a possible step, not hidden.

### PullReplica

| Variables | Code |
|---|---|
| `clock`, `writes`, `val`, `upd` | Postgres: NOW() counted in commits, the rows' content (the number of the write that made it) and `updated_at` |
| `crossed` | history: rows whose last commit found a reader that held the row as it was, or a watermark already ahead of it |
| `local`, `mark`, `pending`, `attempts` | the local tables, `last_pulled_at`, the undelivered edits and how often each has failed |
| `refused` | history: rows whose local content the server has refused |
| `fk`, `running`, `pc`, `since`, `dl` | the pragma, the lock, the cycles, the watermark each sent, the enrollment download |
| `todo`, `okd`, `bad`, `later`, `unread`, `resp`, `pageRow`, `page` | requests in flight and what they carry |

The pull's loop of SELECTs is one action per table, so commits fall between the
tables; the answer is applied in one step, as in the code. A download page is
read in one step and applied in another. A relaunch keeps the database and
forgets the rest; the pragma then has the default of the SQLite build, which is a constant
because the code does not set it (no guard reads it: a page's rows may be refused at any time).

An edit is answered with ok, a final refusal or a transient CONFLICT; the last, and a
status that is not 2xx, charge an attempt to each edit concerned, a `fetch` that throws charges
none, and an edit with `MaxAttempts` of them is not sent until the user retries it.

The watermark scheme is complete only for rows that no commit crosses, so what is true is stated with the
history `crossed`, and what `apply.ts:121-123` says is stated without it and is violated
(`replica_window`). The difference of the clocks, `Skew`, is any integer in the theorem.

Left out: who may see which rows, columns, and deletion of rows. The outbox is reduced to a set of
edits without its page limit, because OutboxSync has its details; retries of a lost push re-apply the
same content, as a row UPDATE does.

### RowWrites

| Variables | Code |
|---|---|
| `queue`, `status`, `attempts` | the outbox rows of all devices in `created_at` order; a denied one with its cause: *forbidden*, *missing* (a foreign key) or *unread* (a permission lookup failed) |
| `local` | which rows each device's tables have |
| `verdict`, `freeze` | the request of each device in the API: what has become of each entry, and `maintenance_mode` as this handler read it |
| `late`, `lateFreeze` | the handler of a request the device has given up on: the entries it has still to do |
| `frozen`, `content` | `app_config.maintenance_mode`; which write's payload each Postgres row holds (0: no row) |
| `disturbed` | history: devices whose writes may have overtaken one another |

`Create`, `Overwrite` and `Update` are `insert()` and `update()` of
`createRepository`; `Remove` is the delete of an item, which removes the children
by hand in the same transaction. `Post` is the start of a request and of its
handler, `Answered`, `HttpError`, `NoAnswer` and `GiveUp` its four ends. The six
`Decide...` actions are the exits of the push endpoint's loop for one entry, in
the code's order: freeze, permission, apply, catch. A crew member's creation of a shelf
needs two lookups, and a lookup that throws counts as *not allowed* (`opPerm.ts:49-52`,
`:70-72`): a database hiccup there is a final FORBIDDEN (`DecideUnread`), whereas a
statement that fails is a CONFLICT to be tried again (`DecideFails`). `Written` is what the SQL
statement leaves: ON CONFLICT DO UPDATE or DO NOTHING, an UPDATE that matches no
row, a DELETE that cascades. A permission check and its statement are one step:
what another handler does in between changes which verdict a repeated creation of
a shelf gets, and both verdicts are reached anyway.

A device is `disturbed` once (a) a statement of its request failed by itself while
those behind it went on, (b) one of its entries exhausted its attempts, or (c) a
handler outlived its request. From then on order is not promised by the code,
and `ParentsGoFirst` and `OwnLastWriteStands` speak of undisturbed devices only; a late handler
can indeed take a row back to an older write, and the properties do not say otherwise. A row whose creation
was refused unread may be there or not (its first request may have been applied before the
answer was lost), so `OwnLastWriteStands` leaves it out. A freeze,
a lost answer, a crash, a refusal and an error answer do *not* disturb, which is
the content of the two properties. `PostsOn` = FALSE ends the posts of a disturbed device,
to keep the passing runs small; its late handler goes on, and so do the other
devices. The violation run has it TRUE.

`Pull` only adds rows: the code's pull deletes nothing. Left out: columns (a
payload is the whole content of its row), the stock clamp of absolute writes,
who may decide an approval, the merging of duplicate vehicles, and two devices
that create one composite key.

### SessionTokens

| Variables | Code |
|---|---|
| `now`, `off` | the clock, in units of one access token's life; when an account was deactivated |
| `signIns`, `owner`, `began` | history: the sign-ins granted, whose and when |
| `jwt`, `refresh`, `uid` | the three SecureStore keys of `session.ts` |
| `screen`, `view`, `flow`, `grant`, `who` | the session context's user, the route, and what a screen waits for |
| `fired`, `leaving` | the latch of `sessionExpiredBus`; the logouts that are under way, by what started them |
| `call` | requests of the engine or of a screen: where each is in `getValidJwt`, its request, or `revalidateSession`, and the tokens it holds |
| `mishaps` | history: what the promises make an exception of |

Every await ends a step: a token that was read is used after it has been replaced or
cleared, and an answer of the server is stored in two steps, by a call that may have
been overtaken by a logout and the next sign-in. A token is its session, its expiry and
its `auth_time`; the server keeps no list of them. `saveSession` and `clearSession` start
their three writes at once and are one step each, except that an app killed inside a
save leaves any part of it.

`mishaps` names three things the code does not guard against: *torn* (killed inside a
save), *crossed* (a renewal was in flight when keys were saved or cleared, so it may
store its tokens over a later session's, `session.ts:79`), and *undercut* (the keys were
cleared by a logout that was still under way while a sign-in or an unlock was letting a
user in, `unlock.tsx:51-57`). `OwnTokens` assumes none of them, and speaks of the last
sign-in *of the user on the screen*: a user whose account was deactivated keeps his keys, and if
another is granted a sign-in but the app is killed before any key is written, the first can unlock
with his older ones. `DeadSessionEnds` only
leaves out the third: without that exception TLC finds a user on the screen with no keys
behind him, whose calls end silently because `getValidJwt` takes *no token at all* for
*offline*. The other properties hold with all three.

Left out: the 30 seconds before an expiry, tokens with no expiry, the rate limit of the
refresh (it is a `RefreshFails`), test accounts, the web build's idle wipe.

### Notices and OneTeller

| Variables | Code |
|---|---|
| `low`, `status`, `filed` | is a watched level (an item's stock, a user's stuck outbox) at its alert; `approval_requests.status`; the review requests filed for a large movement |
| `staff` | who is active and routed notices at the moment |
| `dedup`, `told` | `notification_dedup`; the inbox rows |
| `task` | the asynchronous handlers under way, each with its event key, its place and what it read |
| `begun`, `moved`, `died`, `unheard` | history: events that occurred; levels that changed while a check of them ran or without a check, and that no check has put right; keys a fault left unserved; keys for which there was nobody to tell |
| `toldBefore`, `filedBefore` | history: the notices and review requests of a key before it was last pruned |

A task is one run of a fire-and-forget handler for one key. Which steps it takes, and in
which order, is the kind of its key: `First`, `AfterClaim` and `AfterResolve` are the
table of the handlers. The timers resolve before they claim, an assignment claims first
and gives back, requests, coverages, schedule changes (all of kind `Record`) and large movements claim first and do not.
`Occur` lets the same event start a handler again, as a retried push or the next poll
does. `Fails` is a statement that throws into a handler's silent catch, `Restart` ends all
handlers; a push without an answer may be sent again. Every start of the API also deletes the
keys that are more than thirty days old (`migrate.ts:108-114`). The model has no such clock:
`Prune` takes any set of keys, so what the properties promise, they promise for the life of
a key: `toldBefore` and `filedBefore` say where it began. What was promised of the notices
altogether (nobody was told, a request was filed) does not depend on it.

A level moves in two ways. `Touch` is a batch with an ADJUST, or a heartbeat: a check
follows. `Recount` is a stock row written by its absolute value or an alert that is
edited (`items.ts:281, 325-347`): `applyEntry` lists neither for the batch, so no check
follows. `LowStockTold` and `OneNoticePerFall` leave such a level out from then on, and until
a check has started alone and found it above its alert, or low with a key that is
free (`Settles`).

A `Large` key stands for the movements of one batch, which are claimed and filed in
turn under one try: a failure ends the rest of them too, and all of them count as cut short. A
`Record` key of a schedule stands for the entries of one batch that concern one employee
and day: their keys are claimed before the recipients are looked for, and an author who
schedules himself is a list that comes out empty.

The decision of a request is three statements, as in `applyEntry`: the status is read,
the caller judged, the row written; another approver's decision falls in between. Left
out: a requester cancelling his own request, the channels' on/off switch, device pushes
and quiet hours, which come after the inbox row, and the change test that keeps most repeated
assignments from reaching the claim at all.

`OneTeller` has the claimed keys and the inbox and four actions: `Claim`, `GiveBack`, `Tell`,
and `Expire`, which ends the life of a key and of what it promises. `Notices` implements it for every
event that is due once; levels are re-armed and have properties of their own.

### Photos and FirstClaim

| Variables | Code |
|---|---|
| `row` | the server's `media` rows: the job and the star |
| `local`, `issued`, `queue` | each device's copy and its waiting media writes |
| `handler` | runs of `applyEntry` for one write: at the check, at the statement, at the statement sent again, done |
| `uploaded`, `edited`, `stranded` | history: photos that exist; jobs that lost a photo or got one by a move; photos whose creation was refused |

A device claims the star for the first photo *it knows of*; `Check` is
`resolvePrimaryClaim`, `Collides` the partial unique index, `Collided` the catch, after which
the row is sent once more, unstarred, as a step of its own; an error of that second
statement would be the answer (`Unserved`), and the photo stranded. Check and statement are separate steps and handlers
outlive the device's patience, so claims race and old writes are repeated after newer ones.
A device sends the writes of one photo in their order and those of different photos in
any, which includes every order the outbox can produce. `FirstClaim` has the set of
starred photos per job and two actions: `Elect` on an unstarred job and `Vacate`.

### Vehicles

| Variables | Code |
|---|---|
| `lock` | `checkout_locked` and `locked_by` of the server's `vehicles` row |
| `session`, `opener` | the `vehicle_checkouts` rows: none, open or closed; their `user_id` |
| `copy`, `known`, `queue` | each device's local rows and its waiting entries, numbered in their order |
| `handler` | requests in the API: what is left to do, what the guard read, whether the device still listens |
| `ended`, `reopened`, `lost` | history: sessions somebody ended; sessions whose creation was repeated after that; sessions of which an end was refused without having been looked at |

`upsertVehicleState` writes the whole merged row, so *every* edit (`Edit`) sends the lock as
the device last saw it; `LockOn` and `LockOff` are the edits that mean it. `vehiclesGuard`
(`GuardState`) reads the row and judges a lock that differs by `MayLift`; `WriteState` is
the statement after it, with the locker that the guard has put into the payload (`Locker`).
Between the two, other requests write. A take-over closes the other's session and opens
one's own in one local transaction, and the server carries out the two entries one by one, either of
which may fail. `GuardClose` is the close-only rule of `vehicleCheckoutsGuard`,
`GuardFails` the `catch` of both guards, which makes a failed query a missing row and so a refusal for good.

`LockIsGuarded` speaks of the row as it is when it is *written*: the change is made in the name of somebody
who may make it then, or the row is no longer the one the guard read, because another
statement came between. That exception is the code's (guard and statement are not one
transaction), and TLC finds behaviours that use it. `EndedSessionsClose` has two exceptions, both of
which occur too: a creation that is sent again after the end (the table is not
among those whose INSERT leaves an existing row alone, so `checked_in_at` is null again), and an end whose
guard found no row or could not read it.

Left out: tanks, fuel, notes, jobs; `open_checkout`, which the guard treats as the lock; changes of role,
team or owner; the retry limit of the queue (in OutboxSync). The edit sheet is taken to be
saved from the local row as it is then; the longer it is open, the older the copy, which
`Pull` covers by bringing a device any part of the news or none.

### LocalStore and WholeStore

| Variables | Code |
|---|---|
| `db`, `begun` | what a statement reads; what SQLite's ROLLBACK returns to. Of each table: how many writes were mirrored to the outbox, how many outbox rows they have, how many other changes it had, and, as a history, how many of the writes lost their outbox row to an error that a caller swallowed |
| `calls`, `depth`, `open`, `touched` | `runInTransaction` calls on the stack, and the module variables of `tx.ts` (`open`: `txTouchedTables` is not null) |
| `step`, `table` | the repository write under way: before its row, before its outbox row, done |
| `version`, `status`, `seen`, `shown`, `woken` | the counters of `dataVersion.ts`; each screen: subscribed or not, the counters and the rows it was last drawn with, whether React will draw it again |
| `half` | tables that have rows of a pull that failed after them |
| `dirty`, `disabled`, `save`, `stored` | the flags of `schema.web.ts`, the saves under way, the snapshot in IndexedDB |
| `before`, `past` | history: where the flow began; the contents committed since the page was loaded |
| `untold` | history: tables with a swallowed write of which nobody has been told |
| `ahead`, `late`, `overtaken` | history: which saves began before which, those passed by a later one, and whether the snapshot came from such a save |

JavaScript runs a flow to its end, so no timer, render or save falls between its
statements. They are separate steps all the same, because any of them may throw and the
page may go between two. `OpenFrame` is the start of `runInTransaction`, nested or not;
`BeginWrite`, `RowStatement` and `AppendOutbox` are a repository write, `ExtraWrite` the
other tables a flow touches and bumps by hand (`repos/items.ts:33-43`). `Throw` unwinds all
calls at once, as an error does that every caller passes on. `Swallow` is the error that one catches
inside the transaction: `findOrCreatePartByName` (`repos/items.ts:557-565`) returns null when
`upsertItem` throws, and `handleCreatePart` (`RepairQuickAdd.tsx:202-213`, the same in
`app/(app)/repairs/[id].tsx`) has called it in a transaction that then commits. Several functions
of `repos/locations.ts` catch in the same way. A nested call rolls nothing back, so if the row was written and
`appendOutbox` threw (its `assertWritable`, the INSERT), COMMIT keeps a row that no outbox row will ever send, and no bump
tells of it. The properties do not look away from such flows: `lost` counts these writes, `NoDrift` says that a table is
ahead of its outbox by exactly that number, and only tables in `untold` may be stale on a screen. A
ROLLBACK that throws in its turn is ignored by `tx.ts:57-61`; SQLite refuses one only when it has already undone the
transaction (a full disk, an I/O error), so it leads to the state that `Throw` leads to. A pull's rows are applied without a transaction and told of at the end;
`PullBreaks` is the one that throws in between, and `half` the exception that
`NoStaleScreen` makes of its rows. React's `useSyncExternalStore` is modelled by what it
does with a store: it draws, subscribes later, compares the counter then and on every
notice, and draws again if it differs. The sum of a screen's counters is modelled by the
counters themselves: they only grow, so two sums are equal only if all counters are.

A save stores the exported bytes behind three awaits; two may be under way, and they end in any order:
nothing in `flush` (`schema.web.ts:37-42`) makes one wait for another. If the older one ends last its content
stays until the next write. `SavedInTheEnd` excepts that case (`overtaken`) and a save that
failed, and nothing else; without the exception TLC finds it violated. A reload finds the snapshot, or nothing if
its key is gone.

Left out: the wipe of the snapshot at logout and idle, the encryption, migrations (they make
`dirty` true at every start), `useReactiveRows`, which draws less often. In the native build the
same transactions run on a file that SQLite keeps itself; the snapshot's variables mean nothing there.
`schema.web.ts:120` says the flush at `pagehide` is there "so a refresh never loses writes"; the flush is
asynchronous and the page does not wait for it, so the model lets a reload lose what no
save has stored. What is promised is that it loses whole flows, never parts of one.

`WholeStore` has the committed content, the contents committed since the last start, and what is
kept, with three actions: `Commit`, `Keep`, `Start`.

## 3. Runs

Passing:

| Run | Properties | What it shows |
|---|---|---|
| `outbox_safety` | `TypeOK`, `AppliedAtMostOnce`, `SyncedWasApplied`, `RetryBudget`, `NeverRequeued`, `ImplementsLedger` | two overlapping cycles and the log pusher, all faults; refinement of `DeliveryLedger` |
| `outbox_delivery` | `NetStockWhenDrained`, `ActiveIsDelivered` | a checkout and its return, on a shelf that may be empty, net out up to what the clamp swallowed; liveness of the queue after the last fault, but for rows behind a full page of exhausted ones |
| `replica_sync` | `TypeOK`, `NothingSkipped`, `CatchesUp` | what the pull may skip, and only that; convergence after the last fault, but for exhausted edits |
| `rows_delivery` | `TypeOK`, `ParentsGoFirst`, `OwnLastWriteStands`, `CreateNeverReopens` | two devices, an item and a tracked unit of it, or a shelf and an approval: foreign keys, parents before children, the last write of a sole writer stands, a repeated creation never reopens a decided request |
| `sessions` | `TypeOK`, `AccessEnds`, `OwnTokens`, `LatchMeansLeaving`, `DeadSessionEnds` | a session's whole life, with a call renewing its tokens at any moment: bounded access, own tokens only, no swallowed notice, no zombie session |
| `notices` | `TypeOK`, `NoBurnedKey`, `MovementFlagged`, `LowStockTold`, `OneNoticePerFall`, `RequesterKnows`, `TellsOnce` | any two events of any kinds, three handlers of one, two at a time, a change of staff or a recount, a fault or a restart that prunes keys: every event has one teller while its key lives and is not lost; refinement of `OneTeller` |
| `photos` | `TypeOK`, `NoPhotoStranded`, `StarredWhenSettled`, `FirstClaimWins` | two devices race for the star of a job: never two, never none, no photo refused; refinement of `FirstClaim` |
| `vehicles` | `TypeOK`, `LockIsGuarded`, `EndedSessionsClose` | an owner and a PM with old copies, two handlers at a time, failing guards and statements: nobody moves a lock who may not, ended sessions close |
| `local` | `TypeOK`, `NoDrift`, `NoStaleScreen`, `SilentOrWhole`, `StoresWhole`, `SavedInTheEnd` | nested flows that fail anywhere, the error passed on or swallowed, raw writes, broken pulls, two screens, two saves that end in any order, a reload at any statement: what a flow leaves without an outbox row or untold is what was swallowed; the snapshot is whole and catches up; refinement of `WholeStore` |

Violations, each a disagreement between the code and a sentence of the
repository (quoted in `PROJECT.json`):

| Run | Property | In short |
|---|---|---|
| `outbox_pruned` | `AppliedAtMostOnce` | dedup rows are pruned by age, retries are not bounded by age |
| `replica_window` | `SinceSeesEveryChange` | commits between a read and the stamp are skipped |
| `rows_orphan` | `OrphansAreRetried` | a reference to a row not yet synced is refused for good, where the engine's comment counts it as transient |

Bounds, and why they are enough. Two entries with two drainers, the log pusher
and two request slots (`outbox_safety`) are the least in which a row is in two
requests at once, a batch is decided in part, and an orphan request overlaps its
own retry; `MaxAttempts` is 2 so that a row passes through *active, once failed,
exhausted*, and `Stock0` is 0 so that the clamp is reached. `outbox_delivery` takes
three entries, two movements and their log row, one slot, and no prune of what
is still pending. Its `BatchLimit` is 2, shorter than the queue, because
`getPendingOutbox` limits its page before `drainOutbox` drops the exhausted rows from it:
two exhausted rows at the head of the queue keep the third from being sent, as fifty do in
the code, and `BehindExhausted`, the exception of `ActiveIsDelivered`, is reached. `Stock0` is 0
and the checkout may arrive before or after its return, so the clamp swallows a unit or
nothing, and `forgiven` is both. In PullReplica two tables
give *before* and *after* the current SELECT, two cycles overlap, and two writes
are an edit and a remote write in either order, or two edits of a row; two attempts let an edit be
deferred, sent again and given up. The theorem covers
any number. `LastLoss` stops requests from failing once the server's clock
has reached it, which bounds repeated application (without it `clock` is
unbounded); a lost answer before that is enough to have an edit applied more than
once. In RowWrites three writes are the least with a creation, a later
write and a third that depends on either; two devices give a second writer, and a
batch of two leaves the third write for the next request. Shelves and requests
take part in the first two writes only, and three writes are of an item and its unit
(`ThirdWriteInFamily`): a creation, a decision and the
repetition of the creation need no third. The devices of the instance are crew, without `manage_locations` and not exempt
from the freeze, hence interchangeable; the theorems take any `Manager` and `Exempt`.

In `sessions` one user signs in twice (the second sign-in is what an old session's tokens
can be confused with), may be deactivated, and has one call at a time beside the three
kinds of logout. An access token lives one tick, a refresh token two, the cap is one tick
and the clock ends at two, so a token can expire, outlive its account, and be refused for
each of the three reasons. Two calls were also explored for the four invariants
(12,378,466 states), and two users for them and for the inductive invariant of
`TokensAreOwn` (655,462), which is what showed that the tokens need not be of the last sign-in of all,
and that a crossing renewal can bring a dead session back, and a clock of three ticks with the liveness property (504,969). In
`notices` two handlers meet and a third follows; one change of staff or one recount, and one
fault or restart hit any step of them. `TwoEvents` lets two events, of any kinds, meet with
one handler each, or one event (or the two decisions of a request) have three handlers: handlers of
different keys share the recipients and the faults, and nothing else. In `photos` two photos and two jobs are enough for a race, a move
against it and a repeated write after either; five posts are both creations, their
repetitions and a change. In `vehicles` the owner is crew and the other a PM, so one ranks above the
other and both may manage the vehicle; three entries are a check-out, and the two of a take-over or an
end of each side; three requests are two that meet and a repetition of either, and a
fault, which takes the place of the third (`PostsAndFaults`), is a lost answer, a failed guard or
a failed statement anywhere. Both exceptions of `EndedSessionsClose`, two sessions open at once and a
lock changed over another's write all occur within these bounds. Without the
constraint the run was also explored (1,830,991 states, without an error). In `local` two calls
are a flow with a nested write, or two flows; three calls and three deep were also explored (803,405 states). One table and the
outbox give the two kinds of keys a screen can watch, and two screens that watch different
ones tell a selective bump from a general one. Three screens, one of which watches
everything, are out of TLC's reach in the time of a run; two, of which one watches
everything, were also explored (588,855 states), and the theorem takes any. Two saves are enough to
overlap and one reload to see what was stored.
Every bound is a named constant.

The violation runs use the same constants, with the one condition in question
dropped: `RetryWindowHolds`, and `PostsOn` for the one about rows; `replica_window` checks the
property without the exception of the passing run. A device clock that is ahead (`Skew` 1) breaks
`SinceSeesEveryChange` just as the window does, without any overlap.

Fairness. Drains: weak fairness of *some* drainer starting (the interval timer),
of continuing after each await, and of the server's working through a request it
has. Transient rejections, losses, kills and restarts have none, and the
liveness properties are conditional on these ending (`FaultsEnd`,
`<>[][Benign]_vars`). The user's actions have none, except that somebody whose
enrollment failed retries it. The assumption that every fetch settles is a real
one: `pushEntries` sets no timeout (see the hazards).

In `SessionTokens` the engine's interval makes a call for as long as the app runs, so
`ReadJwt` and the steps that follow from settled promises are weakly fair, and so is each
logout once it is under way. The refresh and the request itself are strongly fair: the
network may fail again and again, but not every time. Time passes. Nothing the user does is
fair. In `LocalStore` a flow runs on once it has begun, the save timer fires, and a save ends one
way or the other; a throw, a reload and what screens do have no fairness. `Notices`, `Photos` and `Vehicles` have no liveness: a handler's effect is
not promised after a fault, and their properties speak of quiet states instead.

Every passing property has a mutant of the code in the module (the operators
marked *mutant*), under which its run finds a violation.

## 4. Proofs

All for arbitrary values of the constants, from the named assumptions in the
modules.

* `OutboxSync_proof!TypeCorrect`: `Spec => []TypeOK`.
* `OutboxSync_proof!AtMostOnce`: `Spec => []AppliedAtMostOnce`, assuming
  `RetryWindowHolds`. `AppliedAtMostOnce` is not inductive: what blocks a second
  application is the dedup record. The invariant `AtMostOnceInv` says that an entry
  that was applied and has no record any more is an ADJUST that is neither pending on
  the device nor in any request, so nobody can send it again; pruning respects
  that by the assumption, and because a restart ends all requests.
* `OutboxSync_proof!DeliveredWasApplied`: `Spec => []SyncedWasApplied`. The
  strengthening: every entry a request has answered *ok* is applied, and so is
  every entry the server has a record of.
* `OutboxSync_proof!DecidedStaysDecided`: `Spec => NeverRequeued`, from types.
* `OutboxSync_proof!RetryBudgetKept`: `Spec => []RetryBudget`. `BudgetInv` adds three parts.
  `LockInv`: at most one drainer is past the lock test, and a pusher holds rows only while it
  waits for an answer. `SlotInv`: the request a pusher waits for is its own and carries
  its rows only, so each answer charges a row once for each holder. `HeldRowsInv`: a row
  that is held has an attempt left for every holder; that is where the one overrun of a log
  row comes from, which the unlocked log pusher can hold next to a drain.
* `OutboxSync_proof!ImplementsTheLedger`: `Spec => ImplementsLedger`, assuming
  `RetryWindowHolds`, from the invariants of the two theorems before: each device step moves a
  row as the ledger does, or not at all; that a row is marked delivered only after it landed
  is `DeliveredInv`, and that the server lands it once is `AtMostOnceInv`.
* `OutboxSync_proof!StockNetsOut`: `Spec => []NetStockWhenDrained`, assuming
  `RetryWindowHolds`. `BalanceInv`: the cell is the end of the running totals of the movements
  that landed, and what the clamp swallowed (`forgiven`); one more landing shifts the
  totals from its place on (`TotalsWithOneMore`), in whatever order they land. That
  these totals are the recursive sum of the property is an induction over the numbers of the
  entries, done without the library's induction operators: every set of numbers has a least
  member (`LeastNumber`, from the well-foundedness of `<`), so there is no first entry at which the two
  differ. `ClampRests`: `Spec => [](forgiven = 0)` if besides `StockSuffices` holds, that is no
  movements together take more than there is at the start.
* `PullReplica_proof!TypeCorrect`: `Spec => []TypeOK`.
* `PullReplica_proof!PullIsComplete`: `Spec => []NothingSkipped`, for any two clocks.
  The inductive invariant has four more parts:
  `Times` (a watermark in flight is not ahead of the stored one, nor of the device's clock),
  `Snapshots` (what a reader holds of a row that is not crossed is what the
  server has), `Numbered` (a new edit differs from all edits in flight) and
  `Explained` (a difference is explained by the very edit the device shows, and
  that edit has not been applied by the request that carries it: without the
  second half the answer could remove the explanation).

* `RowWrites_proof!TypeCorrect`: `Spec => []TypeOK`, where `TypeOK` includes that
  every row has its parent (`References`) and that a row holds a write *of that
  row*. It is inductive because an open request only names entries of its own
  device that have attempts left. The lemma `CarryTyped` treats the three
  statements; the cascade of the DELETE is what keeps the foreign keys there.
* `RowWrites_proof!CreationsAreFinal`: `Spec => CreateNeverReopens`, for the actions
  that change `content`, `DecideOk` and `LateStep`; an action property, so a retry, a
  late handler and another device's creation are all covered.

* `RowWrites_proof!ParentsArriveFirst`: `Spec => []ParentsGoFirst`. `Histories` is what the
  queue tells about the rows: each row's first write is its creation, by any device, and a
  device writes only what it has a copy of. `Line(d)` is what a device's requests are: they ask
  for pending writes and decide them in their order, and a freeze holds back a whole
  request (`Sequenced`); while nothing disturbed it, what is pending is the end of its queue
  and a request takes the first of that (`InOrder`). So a child whose parent is still pending is
  not in a request in which the parent was passed over.
* `RowWrites_proof!LastWritesStand`: `Spec => []OwnLastWriteStands`, from the same two and
  `Standing(r)` for each row of a sole writer. A batch whose answer was lost is applied
  again from its first write, so the row goes back to an old content or finds itself deleted, and the
  invariant has to say in which states that is not yet the end: a row that is
  missing was deleted by a write that comes up again (or what is settled leaves no row);
  one that is there holds nothing older than the last settled write, and was created after the
  last settled deletion. A write refused unread leaves what the row holds, but settles on the
device without saying which: from then on the row is outside the invariant, for good
(`UnreadStays`).

* `SessionTokens_proof!TypeCorrect`: `Spec => []TypeOK`, which includes that no call asks
  for a renewal without a refresh token.
* `SessionTokens_proof!LatchIsSafe`: `Spec => []LatchMeansLeaving`. It is inductive with the
  types: the latch is set only together with a logout, the logout ends with nobody on
  the screen, and whoever comes next re-arms it, because his id differs from *nobody*.
* `SessionTokens_proof!AccessIsBounded`: `Spec => []AccessEnds`. The strengthening is about
  the refresh tokens: every token, stored, in a call's hands or in a sign-in's answer,
  belongs to a granted sign-in and carries its `auth_time`, so a renewal is granted
  within the cap of the sign-in itself and before the account was deactivated.
* `SessionTokens_proof!TokensAreOwn`: `Spec => []OwnTokens`, for any number of users.
  `Screens` says, mishaps or not, which screen waits for what. `KeysInv` holds while there was no
  mishap: the three keys are stored together or not at all, and of the last sign-in of the
  user they name (`Kept`); a refresh token in a call's hands is of the stored session
  (`Carried`); who is let in or is in is the user the keys name, and keys that are still
  there at a sign-in are of somebody who can no longer sign in (`Ushered`), so they cannot become
  an earlier session of the user who does.

* `Notices_proof!TypeCorrect`: `Spec => []TypeOK`.
* `Notices_proof!TellsOnceHolds`: `Spec => TellsOnce`, that is, `Notices` implements
  `OneTeller`. The inductive invariant `HolderInv` says that at most one task is past the
  claim of a key, that the key is claimed while one is, that those it has still to tell have not
  been told, and that of an unclaimed key nobody has been told, all since the key was last
  pruned. A restart that prunes leaves no task past a claim, which is what makes `Expire` sound.
* `Notices_proof!KeysAreServed`: `Spec => []NoBurnedKey`. The invariant `Served`: a claimed
  key of which nobody was told since it was last pruned has a task past its claim, or one of the
  two excuses.
* `Notices_proof!EveryMovementFlagged`: `Spec => []MovementFlagged`, from `HolderInv` and
  `Filing(m)`: a request is filed only by the task that holds the key, so once in its life; and a movement that
  began and has none has a task on its way to file it, or a fault in its past.
* `Notices_proof!RequestersKnow`: `Spec => []RequesterKnows`. `Attended`: a handler that found
  the request open is the first of its decision's, or the status still is; a handler at the claim has
  seen the status written. `Owed(r)`: as long as nobody contradicts the decision that stands, its
  requester has been told or a task is on its way to.
* `Notices_proof!OneNoticeEach` and `LowStockIsTold`: `Spec => []OneNoticePerFall` and
  `Spec => []LowStockTold`, from one invariant for the levels that did not move under a
  check or without one. `OneSender`: one task sends at a time, holds the key, and tells those it has not told;
  of a low level whose key is free nobody was told since it was pruned. `SettledWatched` is
  why a check that starts alone brings a level back under the invariant. `Cared`: a low level nobody was told
  of, and a key that is held though the level is not low, have a task that sees to it.

* `Photos_proof!TypeCorrect`: `Spec => []TypeOK`.
* `Photos_proof!FirstClaimHolds`: `Spec => FirstClaimWins`, that is, `Photos` implements
  `FirstClaim`. The invariant `StarInv`: every photo a write or a row names has been
  uploaded, and its creation names one job for ever (`OneHome`); no job has two stars.
* `Photos_proof!NoneStranded`: `Spec => []NoPhotoStranded`. The invariant `GivenUp`: a handler
  that sends its row again carries no claim any more, and a row without a claim cannot
  collide with the index, which is what strands a photo.
* `Photos_proof!StarsSettle`: `Spec => []StarredWhenSettled`. It takes all of `StarInv`, where each
  photo is known to be (`Homes`, `Edits`: everything a move or a deletion under way can touch
  counts as edited), `OneCreation`, and two parts about claims. `ClaimsServed`: a handler
  gives up a claim only to a star it has seen. `Elected`: a job that is known to anybody has a star
  or a creation with a claim still in a queue.
* `Vehicles_proof!TypeCorrect`: `Spec => []TypeOK`, which includes that no lock is without its locker.
* `Vehicles_proof!LocksAreGuarded`: `Spec => LockIsGuarded`. Guard and statement are two steps, so
  the invariant has to say what is left of the guard at the statement: `Checked`, that the
  entry a handler is about to write passed the guard *against the row the guard read*. It
  is about the entry that comes next, and for that to be one entry the numbers in a queue
  must differ (`Numbered`), in every request that was taken from it too. If that row is
  still there, what the guard allowed is what the property asks; and if the lock does not differ
  from it, `Locker` writes the same locker, so nothing changes.
* `Vehicles_proof!EndsArrive`: `Spec => []EndedSessionsClose`. The invariant: a session
  somebody ended is closed, or excused, or an end of it is still in a queue (`EndsKept`); and what a
  handler may report as decided, and so take off a queue, has come to something (`Reported`).
* `LocalStore_proof!TypeCorrect`: `Spec => []TypeOK`, which includes that `depth` is the
  number of calls and that bumps are collected exactly while there is one.
* `LocalStore_proof!DriftNever`: `Spec => []NoDrift`. The strengthening, `Balanced`, follows
  a write between its two statements: that table alone is ahead of its outbox, by one more than
  what was swallowed.
* `LocalStore_proof!ScreensAreFresh` and `FlowsAreWhole`: `Spec => []NoStaleScreen` and
  `Spec => SilentOrWhole`, from one invariant. `FlowInv`: inside a flow nobody has been
  told anything, ROLLBACK leads to where the flow began, and every key that reads
  differently from there is in the set, or lost an outbox row in this flow. `Fresh`: a screen is never ahead of the
  counters; if it is behind and subscribed it is to be drawn; if it is not behind it shows
  what is committed, but for the tables in `Hidden`, of which nobody was told. The lemma `BumpTells` is what makes a bump enough: all who read
  one of its keys fall behind, and nobody else does.
* `LocalStore_proof!StoreIsWhole`: `Spec => StoresWhole`, that is, `LocalStore` implements
  `WholeStore`. The invariant says that what is committed, and what each save
  carries, is one of the contents committed since the page was loaded.

Only model-checked: the liveness properties `ActiveIsDelivered`, `CatchesUp`, `DeadSessionEnds`
and `SavedInTheEnd`, which the proof system cannot treat. Every other property of a passing
run is a theorem.

## 5. Not modelled, and the plan

In this order:

1. `PushPipeline`: the rest of the order of checks in the push endpoint (allowlist,
   payload shape, privileged tables, test accounts, per-table guards) and the
   device's classification of each answer, checked against the table of codes in
   `sync/types.ts`.
2. The other guards that read a row before it is written (chat rooms, media edits, the
   merge of duplicate vehicles).
3. `AuthLockout` (the counter with decay; counts to 4), `ConfigCache`, `AuditTrail`; the wipe of
   the web snapshot in `LocalStore`.
4. Deletion of rows in `PullReplica`: the incremental pull never removes a row.

Behaviour met on the way that no run states: a row whose retries are exhausted waits for a
person, whatever the screen's label says (`engine.ts:200-201`); a pull that overlaps the
enrollment download turns foreign-key checks on under it (`pull.ts:82-85`); a crew
member's repeated creation of a shelf is refused because the first one succeeded
(`opPerm.ts:205`); of two approvers who disagree, the second changes the request's status and
the requester is told of the first decision only, where a comment (`apply.ts:284-285`) says a
re-decision still fires; `getPendingOutbox` counts exhausted rows towards its page. Of vehicles:
`guards/vehicles.ts:5-8` says that a tank edit carries the lock unchanged, which is so only while the
copy is fresh: from an old one a manager's tank edit places or lifts a lock, and a
crew member's is refused for good with all that it contained; `vehicleCheckouts.ts:5-7` says
that a take-over may not reopen a session, and no update does, but the repeated INSERT
does; an `ensureVehicleRow` entry that unlocks leaves `locked_by` in place, where the comment at
`vehicleLockPolicy.ts:12` takes an unlocked vehicle to have none. Of notices: the comment
at `migrate.ts:108-111` says that thirty days are well past when a key matters and that a still
relevant low-stock key re-arms "on the next dip", but after the prune an item that is still low is announced again at
its next check, dip or not, and a push or a timer that comes back to an event of that age tells of
it, or files its review, a second time; a recount that lifts an item above its alert leaves
its key claimed, so if a recount is followed by the next dip without a check between them, the dip
is told to nobody. Of the local database: `tx.ts` says that "either every write lands or none do", and a flow in which a caller swallowed
an error lands in part (`Swallow`); `schema.web.ts:120` says that a refresh never loses writes, and besides the close
that comes before the save, two saves that end in the wrong order lose them.

Permissions, scoping, REST routes, screens, seed data and the archived
application are outside the plan: they keep no protocol state, and the
repository's unit tests cover their tables well.
