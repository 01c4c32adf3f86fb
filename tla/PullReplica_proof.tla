--------------------------- MODULE PullReplica_proof --------------------------
(***************************************************************************)
(* When the incremental pull is complete, for every number of rows, writes *)
(* and overlapping cycles, and whatever the difference of the two clocks:  *)
(* the only changes it skips are those of refused rows and of rows whose   *)
(* last commit crossed a reader or a watermark.                            *)
(***************************************************************************)
EXTENDS PullReplica, TLAPS

\* Edit e is still to change the server: queued, and not applied by the
\* request that carries it now.
Open(e) == e \in pending /\ \A c \in Cycle : e \notin okd[c]

Times ==
  /\ \A r \in Row : 1 <= upd[r] /\ upd[r] <= clock
  /\ mark <= clock + Skew \/ mark <= 0
  /\ \A c \in Cycle : pc[c] = "asked" =>
       since[c] <= 0 \/ (since[c] <= mark /\ since[c] <= clock + Skew)

\* What a reader holds of a row that was not crossed is what the server has.
Snapshots ==
  /\ \A c \in Cycle : pc[c] = "asked" =>
       \A r \in Row \ (unread[c] \cup crossed) :
         resp[c][r] = IF Changed(r, since[c]) THEN val[r] ELSE Absent
  /\ dl = "page" /\ page # Absent /\ pageRow \notin crossed =>
       page = val[pageRow]

\* A push whose answer does not come, or is an error.
Fails(c) == PushLost(c) \/ PushRejected(c)

\* Edits are numbered in the order they are made.
Numbered ==
  /\ \A e \in pending : e.id <= writes
  /\ \A c \in Cycle : \A e \in todo[c] \cup okd[c] \cup bad[c] : e.id <= writes

\* The strengthening of NothingSkipped: the edit that explains a difference is
\* the one whose content the device shows, and it is still to be applied.
Explained(r) ==
  \/ local[r] = val[r]
  \/ Changed(r, mark)
  \/ \E e \in pending : Open(e) /\ e.row = r /\ e.id = local[r]

CompleteInv ==
  /\ TypeOK
  /\ Times
  /\ Snapshots
  /\ Numbered
  /\ \A r \in Row \ (refused \cup crossed) : Explained(r)

-------------------------------------------------------------------------------
(* Types. *)

LEMMA ContentFacts ==
  /\ Content \subseteq Nat /\ Absent \notin Content /\ 0 \in Content
  /\ 1 \in Row /\ Row \subseteq Nat
  /\ MaxWrites \in Nat /\ Skew \in Int
<1> USE ReplicaAssumption DEF ReplicaAssumption
<1>1. MaxWrites \in Nat /\ Skew \in Int
  OBVIOUS
<1>2. Content \subseteq Nat /\ 0 \in Content
  BY <1>1 DEF Content
<1>3. Absent \notin Content
  BY <1>2 DEF Absent
<1>4. 1 \in Row /\ Row \subseteq Nat
  BY DEF Row
<1>5. QED
  BY <1>1, <1>2, <1>3, <1>4

LEMMA NoRowsTyped == NoRows \in [Row -> Content \cup {Absent}]
BY DEF NoRows

LEMMA TypesAtInit == Init => TypeOK
<1> SUFFICES ASSUME Init PROVE TypeOK
  OBVIOUS
<1>1. ServerTyped
  BY ContentFacts DEF Init, ServerTyped
<1>2. DeviceTyped
  BY NoRowsTyped DEF Init, DeviceTyped
<1>3. MemoryTyped
  <2>1. fk \in BOOLEAN /\ running \in BOOLEAN
    BY ReplicaAssumption, Zenon DEF Init, ReplicaAssumption
  <2>2. /\ pc \in [Cycle -> {"idle", "drain", "posted", "drained", "asked"}]
        /\ since \in [Cycle -> Int] /\ dl \in {"none", "page", "done"}
    BY DEF Init
  <2>3. QED
    BY <2>1, <2>2, Zenon DEF MemoryTyped
<1>4. PushesTyped
  BY DEF Init, PushesTyped
<1>5. PullsTyped
  BY ContentFacts, NoRowsTyped DEF Init, PullsTyped
<1>6. QED
  BY <1>1, <1>2, <1>3, <1>4, <1>5 DEF TypeOK

LEMMA CommitTyped ==
  ASSUME ServerTyped, NEW r \in Row, NEW n \in Content, Commit(r, n),
         writes' \in Content
  PROVE  ServerTyped'
BY DEF Commit, ServerTyped

LEMMA WritesTyped ==
  ASSUME ServerTyped, writes < MaxWrites, writes' = writes + 1
  PROVE  writes' \in Content /\ writes' \in 1..MaxWrites
BY ContentFacts DEF ServerTyped, Content

LEMMA EndDrainTyped ==
  ASSUME TypeOK, NEW c \in Cycle, EndDrain(c)
  PROVE  MemoryTyped' /\ PushesTyped'
<1>1. MemoryTyped'
  BY DEF EndDrain, TypeOK, MemoryTyped
<1>2. PushesTyped'
  BY DEF EndDrain, TypeOK, PushesTyped
<1>3. QED
  BY <1>1, <1>2

LEMMA ChargeTyped ==
  ASSUME DeviceTyped, NEW E, Charge(E)
  PROVE  attempts' \in [1..MaxWrites -> Nat]
BY DEF DeviceTyped, Charge

LEMMA TypesByDrain ==
  ASSUME TypeOK, NEW c \in Cycle, Drain(c) \/ PushLost(c) \/ PushRejected(c)
  PROVE  TypeOK'
<1> USE DEF TypeOK
<1>1. CASE StartCycle(c)
  <2>1. MemoryTyped'
    BY <1>1 DEF StartCycle, MemoryTyped
  <2>2. QED
    BY <1>1, <2>1 DEF StartCycle, ServerTyped, DeviceTyped, PushesTyped,
       PullsTyped, postgres, deviceDb, pushes, pulls, download
<1>2. CASE NothingToPush(c) \/ PushLost(c)
  <2>1. EndDrain(c) /\ UNCHANGED <<postgres, deviceDb, pulls, download>>
    BY <1>2 DEF NothingToPush, PushLost
  <2>2. QED
    BY <2>1, EndDrainTyped DEF ServerTyped, DeviceTyped, PullsTyped, postgres,
       deviceDb, pulls, download
<1>8. CASE PushRejected(c)
  <2>1. attempts' \in [1..MaxWrites -> Nat]
    BY <1>8, ChargeTyped DEF PushRejected
  <2>2. EndDrain(c)
    BY <1>8 DEF PushRejected
  <2>3. QED
    BY <1>8, <2>1, <2>2, EndDrainTyped DEF PushRejected, ServerTyped,
       DeviceTyped, PullsTyped, postgres, pulls, download
<1>3. CASE PostEdits(c)
  <2>1. MemoryTyped'
    BY <1>3 DEF PostEdits, MemoryTyped
  <2>2. PushesTyped'
    BY <1>3 DEF PostEdits, Active, PushesTyped, DeviceTyped
  <2>3. QED
    BY <1>3, <2>1, <2>2 DEF PostEdits, ServerTyped, DeviceTyped, PullsTyped,
       postgres, deviceDb, pulls, download
<1>4. ASSUME NEW e \in todo[c], ServerApplies(c, e) PROVE TypeOK'
  <2>1. e \in Edit /\ e.row \in Row /\ e.id \in Content
    BY ContentFacts DEF PushesTyped, Edit, Content
  <2>2. ServerTyped'
    BY <1>4, <2>1, CommitTyped DEF ServerApplies, ServerTyped
  <2>3. PushesTyped'
    BY <1>4, <2>1 DEF ServerApplies, PushesTyped
  <2>4. QED
    BY <1>4, <2>2, <2>3 DEF ServerApplies, DeviceTyped, MemoryTyped,
       PullsTyped, deviceDb, memory, pulls, download
<1>5. ASSUME NEW e \in todo[c], ServerRefuses(c, e) PROVE TypeOK'
  <2>1. e \in Edit
    BY DEF PushesTyped
  <2>2. PushesTyped'
    BY <1>5, <2>1 DEF ServerRefuses, ServerDefers, PushesTyped
  <2>3. QED
    BY <1>5, <2>2 DEF ServerRefuses, ServerDefers, ServerTyped, DeviceTyped, MemoryTyped,
       PullsTyped, postgres, deviceDb, memory, pulls, download
<1>9. ASSUME NEW e \in todo[c], ServerDefers(c, e) PROVE TypeOK'
  <2>1. e \in Edit
    BY DEF PushesTyped
  <2>2. PushesTyped'
    BY <1>9, <2>1 DEF ServerDefers, PushesTyped
  <2>3. QED
    BY <1>9, <2>2 DEF ServerDefers, ServerTyped, DeviceTyped, MemoryTyped,
       PullsTyped, postgres, deviceDb, memory, pulls, download
<1>6. CASE PushAnswered(c)
  <2>1. MemoryTyped' /\ PushesTyped'
    BY <1>6, EndDrainTyped DEF PushAnswered
  <2>2. \A e \in bad[c] : e.row \in Row
    BY DEF PushesTyped, Edit
  <2>3. DeviceTyped'
    BY <1>6, <2>2, ChargeTyped DEF PushAnswered, DeviceTyped
  <2>4. QED
    BY <1>6, <2>1, <2>3 DEF PushAnswered, ServerTyped, PullsTyped, postgres,
       pulls, download
<1>7. QED
  BY <1>1, <1>2, <1>3, <1>4, <1>5, <1>6, <1>8, <1>9 DEF Drain

LEMMA EndCycleTyped ==
  ASSUME TypeOK, NEW c \in Cycle, EndCycle(c)
  PROVE  /\ pc' \in [Cycle -> {"idle", "drain", "posted", "drained", "asked"}]
         /\ since' \in [Cycle -> Int]
         /\ unread' \in [Cycle -> SUBSET Row]
         /\ resp' \in [Cycle -> [Row -> Content \cup {Absent}]]
BY NoRowsTyped DEF TypeOK, EndCycle, MemoryTyped, PullsTyped

LEMMA TypesByPull ==
  ASSUME TypeOK, NEW c \in Cycle, Pull(c) \/ PullFails(c)
  PROVE  TypeOK'
<1> USE DEF TypeOK
<1>1. CASE AskPull(c)
  <2>1. MemoryTyped'
    BY <1>1 DEF AskPull, MemoryTyped, DeviceTyped
  <2>2. PullsTyped'
    BY <1>1, NoRowsTyped DEF AskPull, PullsTyped, download
  <2>3. QED
    BY <1>1, <2>1, <2>2 DEF AskPull, ServerTyped, DeviceTyped, PushesTyped,
       postgres, deviceDb, pushes
<1>2. ASSUME NEW r \in Row, ServerSelects(c, r) PROVE TypeOK'
  <2>1. PullsTyped'
    <3>1. resp' \in [Cycle -> [Row -> Content \cup {Absent}]]
      BY <1>2 DEF ServerSelects, PullsTyped, ServerTyped
    <3>2. QED
      BY <1>2, <3>1 DEF ServerSelects, PullsTyped, download
  <2>2. QED
    BY <1>2, <2>1 DEF ServerSelects, ServerTyped, DeviceTyped, MemoryTyped,
       PushesTyped, postgres, deviceDb, memory, pushes
<1>3. CASE ApplyPull(c)
  <2>1a. EndCycle(c)
    BY <1>3 DEF ApplyPull
  <2>1b. MemoryTyped'
    BY <1>3, <2>1a, EndCycleTyped DEF ApplyPull, MemoryTyped
  <2>1. PullsTyped'
    BY <1>3, <2>1a, EndCycleTyped DEF ApplyPull, PullsTyped, download
  <2>2. local' \in [Row -> Content \cup {Absent}]
    BY <1>3 DEF ApplyPull, DeviceTyped, PullsTyped
  <2>3. DeviceTyped'
    <3>1. /\ refused' \subseteq Row /\ pending' \subseteq Edit
          /\ attempts' \in [1..MaxWrites -> Nat]
      BY <1>3 DEF ApplyPull, DeviceTyped
    <3>2. mark' = clock + Skew /\ clock \in Nat /\ Skew \in Int
      BY <1>3, ContentFacts, Zenon DEF ApplyPull, Stamp, ServerTyped
    <3>3. QED
      BY <2>2, <3>1, <3>2 DEF DeviceTyped
  <2>4. QED
    BY <1>3, <2>1, <2>1b, <2>3 DEF ApplyPull, ServerTyped, PushesTyped,
       postgres, pushes
<1>4. CASE PullFails(c)
  <2>1. MemoryTyped' /\ PullsTyped'
    BY <1>4, EndCycleTyped DEF PullFails, MemoryTyped, PullsTyped, download
  <2>2. QED
    BY <1>4, <2>1 DEF PullFails, ServerTyped, DeviceTyped, PushesTyped,
       postgres, deviceDb, pushes
<1>5. QED
  BY <1>1, <1>2, <1>3, <1>4 DEF Pull

LEMMA TypesByNext == TypeOK /\ [Next]_vars => TypeOK'
<1> SUFFICES ASSUME TypeOK, [Next]_vars PROVE TypeOK'
  OBVIOUS
<1> USE DEF TypeOK
<1>1. ASSUME NEW r \in Row, RemoteWrite(r) PROVE TypeOK'
  <2>1. ServerTyped'
    BY <1>1, CommitTyped, WritesTyped DEF RemoteWrite
  <2>2. QED
    BY <1>1, <2>1 DEF RemoteWrite, DeviceTyped, MemoryTyped, PushesTyped,
       PullsTyped, deviceDb, memory, pushes, pulls, download
<1>2. ASSUME NEW r \in Row, LocalEdit(r) PROVE TypeOK'
  <2>1. writes' \in Content /\ writes' \in 1..MaxWrites
    BY <1>2, WritesTyped DEF LocalEdit
  <2>2. [row |-> r, id |-> writes'] \in Edit
    BY <2>1 DEF Edit
  <2>3. DeviceTyped'
    BY <1>2, <2>1, <2>2 DEF LocalEdit, DeviceTyped
  <2>4. QED
    BY <1>2, <2>1, <2>3 DEF LocalEdit, ServerTyped, MemoryTyped, PushesTyped,
       PullsTyped, memory, pushes, pulls, download
<1>3. CASE StartDownload \/ PageIsRead \/ ApplyPage \/ DownloadFails
  <2>1. PageIsRead => val[pageRow] \in Content
    BY DEF ServerTyped, PullsTyped
  <2>2. ApplyPage => page \in Content /\ (~LastPage => pageRow + 1 \in Row)
    BY ReplicaAssumption
       DEF ReplicaAssumption, ApplyPage, LastPage, PullsTyped, Row
  <2>3. ServerTyped' /\ PushesTyped'
    BY <1>3 DEF StartDownload, PageIsRead, ApplyPage, DownloadFails,
       ServerTyped, PushesTyped, postgres, pushes
  <2>4. DeviceTyped'
    BY <1>3, <2>2 DEF StartDownload, PageIsRead, ApplyPage, DownloadFails,
       DeviceTyped, PullsTyped, deviceDb
  <2>5. MemoryTyped'
    BY <1>3 DEF StartDownload, PageIsRead, ApplyPage, DownloadFails,
       MemoryTyped, memory
  <2>6. PullsTyped'
    BY <1>3, <2>1, <2>2, ContentFacts
       DEF StartDownload, PageIsRead, ApplyPage, DownloadFails, PullsTyped,
           pulls
  <2>7. QED
    BY <2>3, <2>4, <2>5, <2>6
<1>4. CASE Relaunch
  <2>1. MemoryTyped'
    <3>1. fk' \in BOOLEAN /\ running' \in BOOLEAN
      BY <1>4, ReplicaAssumption, Zenon DEF Relaunch, ReplicaAssumption
    <3>2. pc' = [x \in Cycle |-> "idle"] /\ since' = [x \in Cycle |-> 0]
      BY <1>4, Zenon DEF Relaunch
    <3>3. dl' \in {"none", "page", "done"}
      BY <1>4 DEF Relaunch
    <3>4. /\ pc' \in [Cycle -> {"idle", "drain", "posted", "drained", "asked"}]
          /\ since' \in [Cycle -> Int]
      BY <3>2
    <3>5. QED
      BY <3>1, <3>3, <3>4, Zenon DEF MemoryTyped
  <2>2. PushesTyped'
    BY <1>4 DEF Relaunch, PushesTyped
  <2>3. PullsTyped'
    BY <1>4, NoRowsTyped, ContentFacts DEF Relaunch, PullsTyped
  <2>4. QED
    BY <1>4, <2>1, <2>2, <2>3 DEF Relaunch, ServerTyped, DeviceTyped,
       postgres, deviceDb
<1>7. CASE RetryFailedOutbox
  <2>1. DeviceTyped'
    BY <1>7 DEF RetryFailedOutbox, DeviceTyped
  <2>2. QED
    BY <1>7, <2>1 DEF RetryFailedOutbox, ServerTyped, MemoryTyped, PushesTyped,
       PullsTyped, postgres, memory, pushes, pulls, download
<1>5. CASE UNCHANGED vars
  BY <1>5 DEF vars, postgres, deviceDb, memory, pushes, pulls, download,
     ServerTyped, DeviceTyped, MemoryTyped, PushesTyped, PullsTyped
<1>6. QED
  BY <1>1, <1>2, <1>3, <1>4, <1>5, <1>7, TypesByDrain, TypesByPull
     DEF Next, Benign

\* The tables, the outbox, the watermark and what is in flight keep their types
\* through every step of every cycle and of the download.
THEOREM TypeCorrect == Spec => []TypeOK
BY TypesAtInit, TypesByNext, PTL DEF Spec

-------------------------------------------------------------------------------
(* Times: a commit is later than every watermark there is. *)

LEMMA InitTimes == Init => Times /\ Snapshots /\ Numbered
<1> SUFFICES ASSUME Init PROVE Times /\ Snapshots /\ Numbered
  OBVIOUS
<1>1. \A c \in Cycle : pc[c] # "asked"
  BY DEF Init
<1>2. Times
  BY <1>1 DEF Init, Times
<1>3. Snapshots
  BY <1>1 DEF Init, Snapshots
<1>4. Numbered
  BY DEF Init, Numbered
<1>5. QED
  BY <1>2, <1>3, <1>4

LEMMA TimesAreInts ==
  ASSUME TypeOK
  PROVE  /\ clock \in Int /\ mark \in Int /\ Skew \in Int
         /\ \A r \in Row : upd[r] \in Int
         /\ \A c \in Cycle : since[c] \in Int
BY ContentFacts DEF TypeOK, ServerTyped, DeviceTyped, MemoryTyped

\* Steps that change neither rows nor watermark keep Times if they send no
\* request with another watermark.
LEMMA TimesFrame ==
  ASSUME TypeOK, Times, UNCHANGED <<clock, upd, mark>>,
         \A c \in Cycle : pc'[c] = "asked" =>
           \/ pc[c] = "asked" /\ since'[c] = since[c]
           \/ since'[c] = mark
  PROVE  Times'
<1>1. UNCHANGED <<clock, upd, mark>>
  OBVIOUS
<1> /\ mark \in Int /\ clock \in Int /\ Skew \in Int
    /\ \A c \in Cycle : since[c] \in Int
  BY TimesAreInts
<1>2. \A r \in Row : 1 <= upd'[r] /\ upd'[r] <= clock'
  BY <1>1 DEF Times
<1>3. mark' <= clock' + Skew \/ mark' <= 0
  BY <1>1 DEF Times
<1>4. ASSUME NEW c \in Cycle, pc'[c] = "asked"
      PROVE  since'[c] <= 0
               \/ (since'[c] <= mark' /\ since'[c] <= clock' + Skew)
  <2>1. CASE pc[c] = "asked" /\ since'[c] = since[c]
    BY <1>1, <2>1 DEF Times
  <2>2. CASE since'[c] = mark
    BY <1>1, <2>2 DEF Times
  <2>3. QED
    BY <1>4, <2>1, <2>2
<1>5. QED
  BY <1>2, <1>3, <1>4 DEF Times

LEMMA TimesByCommit ==
  ASSUME TypeOK, Times, NEW q \in Row, NEW n, Commit(q, n),
         UNCHANGED <<mark, pc, since>>
  PROVE  Times'
<1> /\ mark \in Int /\ clock \in Int /\ Skew \in Int
    /\ \A r \in Row : upd[r] \in Int
    /\ \A c \in Cycle : since[c] \in Int
  BY TimesAreInts
<1>1. clock' = clock + 1 /\ upd' = [upd EXCEPT ![q] = clock + 1]
  BY DEF Commit
<1>2. ASSUME NEW r \in Row PROVE 1 <= upd'[r] /\ upd'[r] <= clock'
  BY <1>1 DEF Times, TypeOK, ServerTyped
<1>3. mark' <= clock' + Skew \/ mark' <= 0
  BY <1>1 DEF Times
<1>4. ASSUME NEW c \in Cycle, pc'[c] = "asked"
      PROVE  since'[c] <= 0
               \/ (since'[c] <= mark' /\ since'[c] <= clock' + Skew)
  BY <1>1, <1>4 DEF Times
<1>5. QED
  BY <1>2, <1>3, <1>4 DEF Times

LEMMA TimesByApplyPull ==
  ASSUME TypeOK, Times, NEW c \in Cycle, ApplyPull(c)
  PROVE  Times'
<1> /\ mark \in Int /\ clock \in Int /\ Skew \in Int
    /\ \A x \in Cycle : since[x] \in Int
  BY TimesAreInts
<1>1. UNCHANGED <<clock, upd>> /\ mark' = clock + Skew
  BY DEF ApplyPull, postgres, Stamp
<1>2. pc' = [pc EXCEPT ![c] = "idle"] /\ since' = [since EXCEPT ![c] = 0]
  BY DEF ApplyPull, EndCycle
<1>3. ASSUME NEW x \in Cycle, pc'[x] = "asked"
      PROVE  pc[x] = "asked" /\ since'[x] = since[x]
  BY <1>2, <1>3 DEF TypeOK, MemoryTyped
<1>4. ASSUME NEW x \in Cycle, pc'[x] = "asked"
      PROVE  since'[x] <= 0
               \/ (since'[x] <= mark' /\ since'[x] <= clock' + Skew)
  BY <1>1, <1>3, <1>4 DEF Times
<1>5. QED
  BY <1>1, <1>4 DEF Times

LEMMA TimesByNext ==
  ASSUME TypeOK, Times, [Next]_vars
  PROVE  Times'
<1>1. ASSUME NEW r \in Row, RemoteWrite(r) \/ LocalEdit(r) PROVE Times'
  <2>1. CASE RemoteWrite(r)
    BY <2>1, TimesByCommit DEF RemoteWrite, deviceDb, memory
  <2>2. CASE LocalEdit(r)
    BY <2>2, TimesFrame DEF LocalEdit, memory
  <2>3. QED
    BY <1>1, <2>1, <2>2
<1>2. ASSUME NEW c \in Cycle, Drain(c) \/ Fails(c) PROVE Times'
  <2> USE DEF TypeOK, MemoryTyped
  <2>1. CASE StartCycle(c) \/ PostEdits(c)
    BY <2>1, TimesFrame DEF StartCycle, PostEdits, postgres, deviceDb
  <2>2. CASE NothingToPush(c) \/ PushAnswered(c) \/ Fails(c)
    BY <2>2, TimesFrame
       DEF NothingToPush, PushAnswered, Fails, PushLost, PushRejected, EndDrain, postgres, deviceDb
  <2>3. ASSUME NEW e \in todo[c], ServerApplies(c, e) PROVE Times'
    <3>1. e.row \in Row
      BY DEF PushesTyped, Edit
    <3>2. QED
      BY <2>3, <3>1, TimesByCommit DEF ServerApplies, deviceDb, memory
  <2>4. ASSUME NEW e \in todo[c], ServerRefuses(c, e) \/ ServerDefers(c, e)
        PROVE  Times'
    BY <2>4, TimesFrame DEF ServerRefuses, ServerDefers, postgres, deviceDb, memory
  <2>5. QED
    BY <1>2, <2>1, <2>2, <2>3, <2>4 DEF Drain
<1>3. ASSUME NEW c \in Cycle, Pull(c) \/ PullFails(c) PROVE Times'
  <2> USE DEF TypeOK, MemoryTyped
  <2>1. CASE AskPull(c) \/ PullFails(c)
    BY <2>1, TimesFrame DEF AskPull, PullFails, EndCycle, postgres, deviceDb
  <2>2. ASSUME NEW r \in Row, ServerSelects(c, r) PROVE Times'
    BY <2>2, TimesFrame DEF ServerSelects, postgres, deviceDb, memory
  <2>3. CASE ApplyPull(c)
    BY <2>3, TimesByApplyPull
  <2>4. QED
    BY <1>3, <2>1, <2>2, <2>3 DEF Pull
<1>4. CASE StartDownload \/ PageIsRead \/ ApplyPage \/ DownloadFails
  BY <1>4, TimesFrame
     DEF StartDownload, PageIsRead, ApplyPage, DownloadFails, postgres,
         deviceDb, memory
<1>5. CASE Relaunch
  BY <1>5, TimesFrame DEF Relaunch, postgres, deviceDb
<1>8. CASE RetryFailedOutbox
  BY <1>8, TimesFrame DEF RetryFailedOutbox, postgres, memory
<1>6. CASE UNCHANGED vars
  BY <1>6, TimesFrame DEF vars, postgres, deviceDb, memory
<1>7. QED
  BY <1>1, <1>2, <1>3, <1>4, <1>5, <1>6, <1>8 DEF Next, Benign, Fails

-------------------------------------------------------------------------------
(* Snapshots: a reader's rows stay the server's rows until it applies them. *)

\* A step that leaves the rows alone and gives no reader new content.
LEMMA SnapshotsFrame ==
  ASSUME Snapshots, UNCHANGED <<val, upd, crossed>>,
         \A c \in Cycle : pc'[c] = "asked" =>
           \/ unread'[c] = Row
           \/ /\ pc[c] = "asked"
              /\ UNCHANGED <<since[c], unread[c], resp[c]>>,
         \/ ~(dl' = "page" /\ page' # Absent)
         \/ UNCHANGED <<dl, page, pageRow>>
         \/ page' = val[pageRow] /\ pageRow' = pageRow
  PROVE  Snapshots'
<1>1. ASSUME NEW c \in Cycle, pc'[c] = "asked",
             NEW r \in Row \ (unread'[c] \cup crossed')
      PROVE  resp'[c][r] = IF Changed(r, since[c])' THEN val'[r] ELSE Absent
  <2>1. /\ pc[c] = "asked"
        /\ UNCHANGED <<since[c], unread[c], resp[c]>>
    BY <1>1
  <2>2. resp[c][r] = IF Changed(r, since[c]) THEN val[r] ELSE Absent
    BY <1>1, <2>1 DEF Snapshots
  <2>3. QED
    BY <2>1, <2>2 DEF Changed
<1>2. dl' = "page" /\ page' # Absent /\ pageRow' \notin crossed' =>
        page' = val'[pageRow']
  BY DEF Snapshots
<1>3. QED
  BY <1>1, <1>2 DEF Snapshots

\* A row that was not crossed by its last commit was held by nobody then.
LEMMA SnapshotsByCommit ==
  ASSUME TypeOK, Snapshots, NEW q \in Row, NEW n, Commit(q, n),
         UNCHANGED <<pc, since, dl, pulls, download>>
  PROVE  Snapshots'
<1>1. UNCHANGED <<pc, since, dl, unread, resp, page, pageRow>>
  BY DEF pulls, download
<1>2. ASSUME NEW r \in Row \ crossed'
      PROVE  \/ ~Held(r)
             \/ r \notin crossed /\ UNCHANGED <<val[r], upd[r]>>
  <2>1. CASE r = q
    BY <1>2, <2>1 DEF Commit
  <2>2. CASE r # q
    BY <1>2, <2>2 DEF Commit, TypeOK, ServerTyped
  <2>3. QED
    BY <2>1, <2>2
<1>3. ASSUME NEW c \in Cycle, pc'[c] = "asked",
             NEW r \in Row \ (unread'[c] \cup crossed')
      PROVE  resp'[c][r] = IF Changed(r, since[c])' THEN val'[r] ELSE Absent
  <2>1. Held(r)
    BY <1>1, <1>3 DEF Held
  <2>2. r \notin crossed /\ UNCHANGED <<val[r], upd[r]>>
    BY <1>2, <1>3, <2>1
  <2>3. resp[c][r] = IF Changed(r, since[c]) THEN val[r] ELSE Absent
    BY <1>1, <1>3, <2>2 DEF Snapshots
  <2>4. QED
    BY <1>1, <2>2, <2>3 DEF Changed
<1>4. dl' = "page" /\ page' # Absent /\ pageRow' \notin crossed' =>
        page' = val'[pageRow']
  <2> SUFFICES ASSUME dl = "page", page # Absent, pageRow \notin crossed'
               PROVE  page = val'[pageRow]
    BY <1>1
  <2>1. pageRow \in Row /\ Held(pageRow)
    BY DEF Held, TypeOK, PullsTyped
  <2>2. pageRow \notin crossed /\ val'[pageRow] = val[pageRow]
    BY <1>2, <2>1
  <2>3. QED
    BY <2>2 DEF Snapshots
<1>5. QED
  BY <1>3, <1>4 DEF Snapshots

LEMMA SnapshotsBySelect ==
  ASSUME TypeOK, Snapshots, NEW c \in Cycle, NEW q \in Row, ServerSelects(c, q)
  PROVE  Snapshots'
<1>1. /\ unread' = [unread EXCEPT ![c] = unread[c] \ {q}]
      /\ resp' = [resp EXCEPT ![c] = [resp[c] EXCEPT ![q] =
                    IF Changed(q, since[c]) THEN val[q] ELSE Absent]]
      /\ UNCHANGED <<val, upd, crossed, pc, since, dl, page, pageRow>>
  BY DEF ServerSelects, TypeOK, PullsTyped, postgres, memory, download
<1>2. ASSUME NEW x \in Cycle, pc'[x] = "asked",
             NEW r \in Row \ (unread'[x] \cup crossed')
      PROVE  resp'[x][r] = IF Changed(r, since[x])' THEN val'[r] ELSE Absent
  <2>1. Changed(r, since[x])' <=> Changed(r, since[x])
    BY <1>1 DEF Changed
  <2>2. CASE x = c /\ r = q
    BY <1>1, <2>1, <2>2 DEF TypeOK, PullsTyped
  <2>3. CASE x # c \/ r # q
    <3>1. resp'[x][r] = resp[x][r] /\ r \in Row \ unread[x]
      BY <1>1, <1>2, <2>3 DEF TypeOK, PullsTyped
    <3>2. QED
      BY <1>1, <1>2, <2>1, <3>1 DEF Snapshots
  <2>4. QED
    BY <2>2, <2>3
<1>3. dl' = "page" /\ page' # Absent /\ pageRow' \notin crossed' =>
        page' = val'[pageRow']
  BY <1>1 DEF Snapshots
<1>4. QED
  BY <1>2, <1>3 DEF Snapshots

LEMMA SnapshotsByNext ==
  ASSUME TypeOK, Snapshots, [Next]_vars
  PROVE  Snapshots'
<1>1. ASSUME NEW r \in Row, RemoteWrite(r) \/ LocalEdit(r) PROVE Snapshots'
  <2>1. CASE RemoteWrite(r)
    BY <2>1, SnapshotsByCommit DEF RemoteWrite, memory
  <2>2. CASE LocalEdit(r)
    BY <2>2, SnapshotsFrame DEF LocalEdit, memory, pulls, download
  <2>3. QED
    BY <1>1, <2>1, <2>2
<1>2. ASSUME NEW c \in Cycle, Drain(c) \/ Fails(c) PROVE Snapshots'
  <2> USE DEF TypeOK, MemoryTyped
  <2>1. CASE StartCycle(c) \/ PostEdits(c)
    BY <2>1, SnapshotsFrame
       DEF StartCycle, PostEdits, postgres, pulls, download
  <2>2. CASE NothingToPush(c) \/ PushAnswered(c) \/ Fails(c)
    BY <2>2, SnapshotsFrame DEF NothingToPush, PushAnswered, Fails, PushLost, PushRejected,
       EndDrain, postgres, pulls, download
  <2>3. ASSUME NEW e \in todo[c], ServerApplies(c, e) PROVE Snapshots'
    <3>1. e.row \in Row
      BY DEF PushesTyped, Edit
    <3>2. QED
      BY <2>3, <3>1, SnapshotsByCommit DEF ServerApplies, memory
  <2>4. ASSUME NEW e \in todo[c], ServerRefuses(c, e) \/ ServerDefers(c, e)
        PROVE  Snapshots'
    BY <2>4, SnapshotsFrame
       DEF ServerRefuses, ServerDefers, postgres, memory, pulls, download
  <2>5. QED
    BY <1>2, <2>1, <2>2, <2>3, <2>4 DEF Drain
<1>3. ASSUME NEW c \in Cycle, Pull(c) \/ PullFails(c) PROVE Snapshots'
  <2> USE DEF TypeOK, MemoryTyped, PullsTyped
  <2>1. CASE AskPull(c)
    BY <2>1, SnapshotsFrame DEF AskPull, postgres, download
  <2>2. ASSUME NEW r \in Row, ServerSelects(c, r) PROVE Snapshots'
    BY <2>2, SnapshotsBySelect
  <2>3. CASE ApplyPull(c) \/ PullFails(c)
    BY <2>3, SnapshotsFrame
       DEF ApplyPull, PullFails, EndCycle, postgres, download
  <2>4. QED
    BY <1>3, <2>1, <2>2, <2>3 DEF Pull
<1>4. CASE StartDownload \/ PageIsRead \/ ApplyPage \/ DownloadFails
  BY <1>4, SnapshotsFrame DEF StartDownload, PageIsRead, ApplyPage,
     DownloadFails, postgres, memory, pulls
<1>5. CASE Relaunch
  BY <1>5, SnapshotsFrame DEF Relaunch, postgres
<1>8. CASE RetryFailedOutbox
  BY <1>8, SnapshotsFrame
     DEF RetryFailedOutbox, postgres, memory, pulls, download
<1>6. CASE UNCHANGED vars
  BY <1>6, SnapshotsFrame DEF vars, postgres, memory, pulls, download
<1>7. QED
  BY <1>1, <1>2, <1>3, <1>4, <1>5, <1>6, <1>8 DEF Next, Benign, Fails

-------------------------------------------------------------------------------
(* Numbered: an edit being made has a number no other edit has. *)

LEMMA NumberedFrame ==
  ASSUME TypeOK, Numbered, writes <= writes', writes' \in Nat,
         \A e \in pending' : e \in pending \/ e.id = writes',
         \A c \in Cycle : \A e \in todo'[c] \cup okd'[c] \cup bad'[c] :
           e \in pending \cup todo[c] \cup okd[c] \cup bad[c]
  PROVE  Numbered'
<1>1. writes \in Nat /\ \A e \in Edit : e.id \in Nat
  BY ContentFacts DEF TypeOK, ServerTyped, Content, Edit
<1>2. pending \subseteq Edit
  BY DEF TypeOK, DeviceTyped
<1>3. \A c \in Cycle : todo[c] \cup okd[c] \cup bad[c] \subseteq Edit
  BY DEF TypeOK, PushesTyped
<1>4. \A e \in pending' : e.id <= writes'
  BY <1>1, <1>2 DEF Numbered
<1>5. ASSUME NEW c \in Cycle, NEW e \in todo'[c] \cup okd'[c] \cup bad'[c]
      PROVE  e.id <= writes'
  <2>1. e \in Edit /\ e.id <= writes
    BY <1>2, <1>3 DEF Numbered
  <2>2. QED
    BY <1>1, <2>1
<1>6. QED
  BY <1>4, <1>5 DEF Numbered

LEMMA NumberedByNext ==
  ASSUME TypeOK, Numbered, [Next]_vars
  PROVE  Numbered'
<1> writes \in Nat
  BY ContentFacts DEF TypeOK, ServerTyped, Content
<1>1. ASSUME NEW r \in Row, RemoteWrite(r) \/ LocalEdit(r) PROVE Numbered'
  <2>1. CASE RemoteWrite(r)
    BY <2>1, NumberedFrame DEF RemoteWrite, deviceDb, pushes
  <2>2. CASE LocalEdit(r)
    BY <2>2, NumberedFrame DEF LocalEdit, pushes
  <2>3. QED
    BY <1>1, <2>1, <2>2
<1>2. ASSUME NEW c \in Cycle, Drain(c) \/ Fails(c) PROVE Numbered'
  <2> USE DEF TypeOK, PushesTyped
  <2>1. CASE StartCycle(c) \/ PostEdits(c)
    BY <2>1, NumberedFrame
       DEF StartCycle, PostEdits, Active, postgres, deviceDb, pushes
  <2>2. CASE NothingToPush(c) \/ PushAnswered(c) \/ Fails(c)
    BY <2>2, NumberedFrame DEF NothingToPush, PushAnswered, Fails, PushLost, PushRejected,
       EndDrain, postgres, deviceDb
  <2>3. ASSUME NEW e \in todo[c],
               \/ ServerApplies(c, e) \/ ServerRefuses(c, e)
               \/ ServerDefers(c, e)
        PROVE  Numbered'
    BY <2>3, NumberedFrame
       DEF ServerApplies, ServerRefuses, ServerDefers, postgres, deviceDb
  <2>4. QED
    BY <1>2, <2>1, <2>2, <2>3 DEF Drain
<1>3. ASSUME NEW c \in Cycle, Pull(c) \/ PullFails(c) PROVE Numbered'
  <2>1. UNCHANGED <<writes, pending, pushes>>
    BY <1>3 DEF Pull, AskPull, ServerSelects, ApplyPull, PullFails, postgres,
       deviceDb
  <2>2. QED
    BY <2>1, NumberedFrame DEF pushes
<1>4. CASE StartDownload \/ PageIsRead \/ ApplyPage \/ DownloadFails
  <2>1. UNCHANGED <<writes, pending, pushes>>
    BY <1>4 DEF StartDownload, PageIsRead, ApplyPage, DownloadFails, postgres,
       deviceDb
  <2>2. QED
    BY <2>1, NumberedFrame DEF pushes
<1>5. CASE Relaunch
  BY <1>5, NumberedFrame DEF Relaunch, postgres, deviceDb
<1>8. CASE RetryFailedOutbox
  BY <1>8, NumberedFrame DEF RetryFailedOutbox, postgres, pushes
<1>6. CASE UNCHANGED vars
  BY <1>6, NumberedFrame DEF vars, postgres, deviceDb, pushes
<1>7. QED
  BY <1>1, <1>2, <1>3, <1>4, <1>5, <1>6, <1>8 DEF Next, Benign, Fails

-------------------------------------------------------------------------------
(* Explained: why a device that differs from the server will hear of it. *)

LEMMA ExplainedAtInit == Init => \A r \in Row : Explained(r)
BY DEF Init, Explained, Changed

\* A row that is not touched stays explained if its edits stay open.
LEMMA ExplainedFrame ==
  ASSUME NEW r \in Row, Explained(r),
         UNCHANGED <<local[r], val[r], upd[r], mark>>,
         \A e \in pending : Open(e) /\ e.row = r /\ e.id = local[r] =>
           e \in pending' /\ \A c \in Cycle : e \notin okd'[c]
  PROVE  Explained(r)'
<1>1. CASE local[r] = val[r]
  BY <1>1 DEF Explained
<1>2. CASE Changed(r, mark)
  BY <1>2 DEF Explained, Changed
<1>3. ASSUME NEW e \in pending, Open(e), e.row = r, e.id = local[r]
      PROVE  Explained(r)'
  <2>1. e \in pending' /\ Open(e)' /\ e.id = local'[r]
    BY <1>3 DEF Open
  <2>2. QED
    BY <1>3, <2>1 DEF Explained
<1>4. QED
  BY <1>1, <1>2, <1>3 DEF Explained

\* A row committed uncrossed is ahead of the watermark.
LEMMA CommittedIsChanged ==
  ASSUME TypeOK, NEW q \in Row, NEW n, Commit(q, n), q \notin crossed',
         UNCHANGED mark
  PROVE  Explained(q)'
<1>1. upd'[q] = clock + 1
  BY DEF Commit, TypeOK, ServerTyped
<1>2. clock + 1 > mark
  <2>1. ~(clock + 1 <= mark)
    BY DEF Commit
  <2>2. QED
    BY <2>1, TimesAreInts
<1>3. QED
  BY <1>1, <1>2 DEF Explained, Changed

\* A commit of edit e, or of somebody else's write.
LEMMA ExplainedByCommit ==
  ASSUME TypeOK, NEW q \in Row, NEW n, Commit(q, n),
         NEW r \in Row \ crossed', r # q => Explained(r),
         UNCHANGED <<local, mark, pending>>,
         \A c \in Cycle : \A e \in okd'[c] : e \in okd[c] \/ e.row = q
  PROVE  Explained(r)'
<1>1. CASE r = q
  BY <1>1, CommittedIsChanged
<1>2. CASE r # q
  <2>1. UNCHANGED <<val[r], upd[r]>> /\ local'[r] = local[r] /\ mark' = mark
    BY <1>2 DEF Commit, TypeOK, ServerTyped
  <2>2. \A e \in pending : Open(e) /\ e.row = r /\ e.id = local[r] =>
          e \in pending' /\ \A c \in Cycle : e \notin okd'[c]
    BY <1>2 DEF Open
  <2>3. Explained(r)
    BY <1>2
  <2>4. QED
    BY <2>1, <2>2, <2>3, ExplainedFrame
<1>3. QED
  BY <1>1, <1>2

\* The new edit explains the row it was made on.
LEMMA ExplainedByEdit ==
  ASSUME TypeOK, Numbered, NEW q \in Row, LocalEdit(q),
         NEW r \in Row, r = q \/ Explained(r)
  PROVE  Explained(r)'
<1>1. CASE r = q
  <2>0. PICK new \in pending' : new = [row |-> q, id |-> writes']
    BY DEF LocalEdit
  <2>1. new.row = r /\ new.id = writes' /\ new.id = local'[r]
    BY <1>1, <2>0 DEF LocalEdit, TypeOK, DeviceTyped
  <2>2. \A c \in Cycle : new \notin okd'[c]
    <3>1. writes \in Nat /\ writes' = writes + 1 /\ okd' = okd
      BY ContentFacts
         DEF LocalEdit, TypeOK, ServerTyped, Content, pushes
    <3>2. \A c \in Cycle : \A e \in okd[c] : e.id <= writes
      BY DEF Numbered
    <3>3. ~(writes' <= writes)
      BY <3>1
    <3>4. ~(new.id <= writes)
      BY <2>1, <3>3, Zenon
    <3>5. QED
      BY <3>1, <3>2, <3>4, Zenon
  <2>3. Open(new)'
    BY <2>2 DEF Open
  <2>4. QED
    BY <2>1, <2>3 DEF Explained
<1>2. CASE r # q
  <2>1. UNCHANGED <<local[r], val[r], upd[r], mark>>
    BY <1>2 DEF LocalEdit, TypeOK, DeviceTyped
  <2>2. QED
    BY <1>2, <2>1, ExplainedFrame DEF LocalEdit, Open, pushes
<1>3. QED
  BY <1>1, <1>2

\* The edit that explains a row is not delivered by this answer; if it is
\* denied, the row is one the server refused.
LEMMA ExplainedByAnswer ==
  ASSUME TypeOK, NEW c \in Cycle, PushAnswered(c),
         NEW r \in Row \ refused', Explained(r)
  PROVE  Explained(r)'
<1>1. UNCHANGED <<local, val, upd, mark>>
  BY DEF PushAnswered, postgres
<1>2. ASSUME NEW e \in pending, Open(e), e.row = r, e.id = local[r]
      PROVE  e \in pending' /\ \A x \in Cycle : e \notin okd'[x]
  <2>1. e \notin bad[c]
    BY <1>2 DEF PushAnswered
  <2>2. e \in pending'
    BY <1>2, <2>1 DEF Open, PushAnswered
  <2>3. okd' = [okd EXCEPT ![c] = {}]
    BY DEF PushAnswered, EndDrain
  <2>4. QED
    BY <1>2, <2>2, <2>3 DEF Open, TypeOK, PushesTyped
<1>3. QED
  BY <1>1, <1>2, ExplainedFrame

\* What the answer leaves out had not changed since the watermark before it.
LEMMA ExplainedByPull ==
  ASSUME TypeOK, Times, Snapshots, NEW c \in Cycle, ApplyPull(c),
         NEW r \in Row \ (refused' \cup crossed), r \in refused \/ Explained(r)
  PROVE  Explained(r)'
<1>1. /\ UNCHANGED <<val, upd, pending, okd>>
      /\ local'[r] = IF resp[c][r] = Absent THEN local[r] ELSE resp[c][r]
  BY DEF ApplyPull, postgres, pushes
<1>2. resp[c][r] = IF Changed(r, since[c]) THEN val[r] ELSE Absent
  BY DEF ApplyPull, Snapshots
<1>3. CASE Changed(r, since[c])
  <2>1. val[r] # Absent
    BY ContentFacts DEF TypeOK, ServerTyped
  <2>2. local'[r] = val'[r]
    BY <1>1, <1>2, <1>3, <2>1
  <2>3. QED
    BY <2>2 DEF Explained
<1>4. CASE ~Changed(r, since[c])
  <2>1. r \notin refused /\ local'[r] = local[r]
    BY <1>1, <1>2, <1>4 DEF ApplyPull
  <2>2. since[c] <= 0 \/ since[c] <= mark
    BY DEF ApplyPull, Times
  <2>3. ~Changed(r, mark)
    BY <1>4, <2>2, TimesAreInts DEF Changed, Times
  <2>4. \/ local[r] = val[r]
        \/ \E e \in pending : Open(e) /\ e.row = r /\ e.id = local[r]
    BY <2>1, <2>3 DEF Explained
  <2>5. QED
    BY <1>1, <2>1, <2>4 DEF Explained, Open
<1>5. QED
  BY <1>3, <1>4

LEMMA ExplainedByPage ==
  ASSUME TypeOK, Snapshots, ApplyPage, NEW r \in Row \ crossed, Explained(r)
  PROVE  Explained(r)'
<1>1. CASE r = pageRow
  <2>1. local'[r] = val[r] /\ val' = val
    BY <1>1 DEF ApplyPage, Snapshots, TypeOK, DeviceTyped, postgres
  <2>2. QED
    BY <2>1 DEF Explained
<1>2. CASE r # pageRow
  <2>1. UNCHANGED <<local[r], val[r], upd[r], mark, pending, okd>>
    BY <1>2 DEF ApplyPage, TypeOK, DeviceTyped, postgres, pushes
  <2>2. QED
    BY <2>1, ExplainedFrame DEF Open
<1>3. QED
  BY <1>1, <1>2

LEMMA ExplainedByNext ==
  ASSUME CompleteInv, [Next]_vars
  PROVE  (\A r \in Row \ (refused \cup crossed) : Explained(r))'
<1> SUFFICES ASSUME NEW r \in Row \ (refused' \cup crossed') PROVE Explained(r)'
  BY DEF CompleteInv
<1> TypeOK /\ Times /\ Snapshots /\ Numbered
  BY DEF CompleteInv
<1>0. r \notin refused /\ r \notin crossed => Explained(r)
  BY DEF CompleteInv
<1> DEFINE Quiet ==
      /\ UNCHANGED <<local, val, upd, crossed, mark, pending, refused>>
      /\ \A c \in Cycle : okd'[c] \subseteq okd[c]
<1>1. Quiet => Explained(r)'
  BY <1>0, ExplainedFrame DEF Open
<1>2. ASSUME NEW q \in Row, RemoteWrite(q) PROVE Explained(r)'
  <2>1. r # q => r \notin crossed
    BY <1>2 DEF RemoteWrite, Commit
  <2>2. PICK n : Commit(q, n)
    BY <1>2 DEF RemoteWrite
  <2>3. r # q => Explained(r)
    BY <1>2, <2>1, <1>0 DEF RemoteWrite, deviceDb
  <2>4. QED
    BY <1>2, <2>2, <2>3, ExplainedByCommit DEF RemoteWrite, deviceDb, pushes
<1>3. ASSUME NEW q \in Row, LocalEdit(q) PROVE Explained(r)'
  <2>1. r = q \/ Explained(r)
    BY <1>3, <1>0 DEF LocalEdit
  <2>2. QED
    BY <1>3, <2>1, ExplainedByEdit
<1>4. ASSUME NEW c \in Cycle, Drain(c) \/ Fails(c) PROVE Explained(r)'
  <2> USE DEF TypeOK, PushesTyped
  <2>1. CASE StartCycle(c) \/ PostEdits(c)
    BY <2>1, <1>1 DEF StartCycle, PostEdits, postgres, deviceDb, pushes
  <2>2. CASE NothingToPush(c) \/ Fails(c)
    BY <2>2, <1>1 DEF NothingToPush, Fails, PushLost, PushRejected, EndDrain, postgres, deviceDb
  <2>3. ASSUME NEW e \in todo[c], ServerApplies(c, e) PROVE Explained(r)'
    <3>1. e.row \in Row
      BY DEF Edit
    <3>2. UNCHANGED <<local, mark, pending, refused>>
      BY <2>3 DEF ServerApplies, deviceDb
    <3>3. \A x \in Cycle : \A f \in okd'[x] : f \in okd[x] \/ f = e
      BY <2>3 DEF ServerApplies
    <3>4. Commit(e.row, e.id)
      BY <2>3 DEF ServerApplies
    <3>5. r # e.row => Explained(r)
      BY <3>2, <3>4, <1>0 DEF Commit
    <3>6. \A x \in Cycle : \A f \in okd'[x] : f \in okd[x] \/ f.row = e.row
      BY <3>3
    <3>7. QED
      BY <3>1, <3>2, <3>4, <3>5, <3>6, ExplainedByCommit
  <2>4. ASSUME NEW e \in todo[c], ServerRefuses(c, e) \/ ServerDefers(c, e)
        PROVE  Explained(r)'
    BY <2>4, <1>1 DEF ServerRefuses, ServerDefers, postgres, deviceDb
  <2>5. CASE PushAnswered(c)
    <3>1. r \notin crossed /\ r \notin refused
      BY <2>5 DEF PushAnswered, postgres
    <3>2. QED
      BY <2>5, <3>1, <1>0, ExplainedByAnswer
  <2>6. QED
    BY <1>4, <2>1, <2>2, <2>3, <2>4, <2>5 DEF Drain
<1>5. ASSUME NEW c \in Cycle, Pull(c) \/ PullFails(c) PROVE Explained(r)'
  <2>1. CASE AskPull(c) \/ PullFails(c)
    BY <2>1, <1>1 DEF AskPull, PullFails, postgres, deviceDb, pushes
  <2>2. ASSUME NEW q \in Row, ServerSelects(c, q) PROVE Explained(r)'
    BY <2>2, <1>1 DEF ServerSelects, postgres, deviceDb, pushes
  <2>3. CASE ApplyPull(c)
    <3>1. r \notin crossed
      BY <2>3 DEF ApplyPull, postgres
    <3>2. QED
      BY <2>3, <3>1, <1>0, ExplainedByPull
  <2>4. QED
    BY <1>5, <2>1, <2>2, <2>3 DEF Pull
<1>6. CASE StartDownload \/ PageIsRead \/ DownloadFails
  BY <1>6, <1>1
     DEF StartDownload, PageIsRead, DownloadFails, postgres, deviceDb, pushes
<1>7. CASE ApplyPage
  <2>1. r \notin crossed /\ r \notin refused
    BY <1>7 DEF ApplyPage, postgres
  <2>2. QED
    BY <1>7, <2>1, <1>0, ExplainedByPage
<1>8. CASE Relaunch
  BY <1>8, <1>1 DEF Relaunch, postgres, deviceDb
<1>11. CASE RetryFailedOutbox
  BY <1>11, <1>1 DEF RetryFailedOutbox, postgres, pushes
<1>9. CASE UNCHANGED vars
  BY <1>9, <1>1 DEF vars, postgres, deviceDb, pushes
<1>10. QED
  BY <1>2, <1>3, <1>4, <1>5, <1>6, <1>7, <1>8, <1>9, <1>11
     DEF Next, Benign, Fails

\* Whatever the number of rows, of overlapping cycles and of failures, and
\* whatever the clocks: a change the incremental pull skips is of a row the
\* server refused or of a row whose last commit crossed a reader that held it or
\* a watermark that was already ahead of it.
THEOREM PullIsComplete == Spec => []NothingSkipped
<1>1. Init => CompleteInv
  BY TypesAtInit, InitTimes, ExplainedAtInit DEF CompleteInv
<1>2. CompleteInv /\ [Next]_vars => CompleteInv'
  <2> SUFFICES ASSUME CompleteInv, [Next]_vars PROVE CompleteInv'
    OBVIOUS
  <2>1. TypeOK' /\ Times' /\ Snapshots' /\ Numbered'
    BY TypesByNext, TimesByNext, SnapshotsByNext, NumberedByNext
       DEF CompleteInv
  <2>2. QED
    BY <2>1, ExplainedByNext DEF CompleteInv
<1>3. CompleteInv => NothingSkipped
  BY DEF CompleteInv, NothingSkipped, Accounted, Explained, OwnEdit
<1>4. QED
  BY <1>1, <1>2, <1>3, PTL DEF Spec

===============================================================================
