--------------------------- MODULE LocalStore_proof ----------------------------
(* Proofs about LocalStore, for any tables, screens, subscriptions, saves and  *)
(* depths of nesting.                                                          *)
EXTENDS LocalStore, TLAPS

--------------------------------------------------------------------------------
(* Types. *)

\* One more change of one kind leaves a content a content.
LEMMA CountedIsContent ==
  ASSUME NEW d \in Content, NEW t \in Table
  PROVE  /\ [d EXCEPT ![t].own = @ + 1] \in Content
         /\ [d EXCEPT ![t].queued = @ + 1] \in Content
         /\ [d EXCEPT ![t].raw = @ + 1] \in Content
         /\ [d EXCEPT ![t].lost = @ + 1] \in Content
<1>1. d[t] \in [own : Nat, queued : Nat, raw : Nat, lost : Nat]
  BY DEF Content
<1>2. /\ [d[t] EXCEPT !.own = @ + 1] \in [own : Nat, queued : Nat, raw : Nat, lost : Nat]
      /\ [d[t] EXCEPT !.queued = @ + 1] \in [own : Nat, queued : Nat, raw : Nat, lost : Nat]
      /\ [d[t] EXCEPT !.raw = @ + 1] \in [own : Nat, queued : Nat, raw : Nat, lost : Nat]
      /\ [d[t] EXCEPT !.lost = @ + 1] \in [own : Nat, queued : Nat, raw : Nat, lost : Nat]
  BY <1>1
<1>3. \A r \in [own : Nat, queued : Nat, raw : Nat, lost : Nat] : [d EXCEPT ![t] = r] \in Content
  BY DEF Content
<1>4. QED
  BY <1>2, <1>3

LEMMA RowsAreContent ==
  ASSUME db \in Content, NEW T \in SUBSET Table
  PROVE  Rows(T) \in Content
<1>1. \A t \in Table : [db[t] EXCEPT !.raw = @ + 1] \in [own : Nat, queued : Nat, raw : Nat, lost : Nat]
  BY DEF Content
<1>2. QED
  BY <1>1 DEF Rows, Content

LEMMA EmptyIsContent == Empty \in Content
  BY DEF Empty, Content

LEMMA NoFlowTyped ==
  /\ Zeros \in Counters
  /\ NoFlow \in [db : Content, version : Counters, untold : SUBSET Table]
  BY EmptyIsContent DEF Zeros, NoFlow, Counters

LEMMA BumpedCounts ==
  ASSUME version \in Counters, NEW T
  PROVE  Bumped(T) \in Counters
  BY DEF Bumped, Counters

\* What a screen compares are counters.
LEMMA SnapshotCounts ==
  ASSUME NEW v \in Counters, NEW s \in Screen
  PROVE  Snapshot(v, s) \in [Watches[s] -> Nat]
<1>1. Watches[s] \subseteq Key \cup {All}
  BY LocalStoreAssumption DEF LocalStoreAssumption
<1>2. QED
  BY <1>1 DEF Snapshot, Counters

LEMMA BumpTyped ==
  ASSUME TypeOK, NEW T, Bump(T), status' = status
  PROVE  /\ version' \in Counters /\ woken' \subseteq {s \in Screen : status'[s] = "on"}
         /\ untold' \subseteq Table
  BY BumpedCounts DEF TypeOK, Bump, Hears

\* The parts of TypeOK that one kind of action changes.
TxTyped ==
  /\ db \in Content /\ begun \in Content
  /\ calls \in 0..MaxDepth /\ depth = calls
  /\ touched \subseteq Key
  /\ step \in {"out", "row", "queue", "done"} /\ (step # "out" => calls > 0)
  /\ table \in Table \cup {Null} /\ (table = Null <=> step = "out")
  /\ opened \in 0..MaxCalls
  /\ before \in [db : Content, version : Counters, untold : SUBSET Table]

ScreensTyped ==
  /\ version \in Counters
  /\ status \in [Screen -> {"off", "drawn", "on"}]
  /\ DOMAIN seen = Screen /\ DOMAIN shown = Screen
  /\ \A s \in Screen : status[s] # "off" => seen[s] \in [Watches[s] -> Nat]
  /\ woken \subseteq {s \in Screen : status[s] = "on"}

SavesTyped ==
  /\ save \in [Slot -> SUBSET Content] /\ ahead \in [Slot -> SUBSET Slot]
  /\ stored \subseteq Content /\ reloads \in 0..MaxReloads
  /\ half \subseteq Table /\ untold \subseteq Table /\ past \subseteq Content
  /\ late \subseteq Slot

Flags ==
  /\ open \in BOOLEAN /\ (open <=> calls # 0)
  /\ dirty \in BOOLEAN /\ disabled \in BOOLEAN /\ overtaken \in BOOLEAN

LEMMA TypeParts == TypeOK <=> Flags /\ TxTyped /\ ScreensTyped /\ SavesTyped
  BY DEF TypeOK, Idle, Flags, TxTyped, ScreensTyped, SavesTyped

LEMMA TypesAtInit == Init => TypeOK
<1> SUFFICES ASSUME Init PROVE Flags /\ TxTyped /\ ScreensTyped /\ SavesTyped
  BY TypeParts
<1> USE LocalStoreAssumption DEF LocalStoreAssumption
<1>1. version \in Counters
  BY NoFlowTyped DEF Init
<1>2. TxTyped
  BY <1>1, EmptyIsContent, NoFlowTyped DEF Init, TxTyped
<1>3. ScreensTyped
  BY <1>1 DEF Init, ScreensTyped
<1>4. SavesTyped
  BY EmptyIsContent DEF Init, SavesTyped
<1>5. Flags
  BY DEF Init, Flags
<1>6. QED
  BY <1>2, <1>3, <1>4, <1>5

LEMMA FrameTyped ==
  ASSUME TypeOK, OpenFrame, db' = db, version' = version, disabled' = disabled
  PROVE  /\ calls' \in 0..MaxDepth /\ depth' = calls' /\ calls' > 0
         /\ begun' \in Content /\ touched' \subseteq Key /\ open' /\ open' \in BOOLEAN
         /\ dirty' \in BOOLEAN /\ opened' \in 0..MaxCalls
         /\ before' \in [db : Content, version : Counters, untold : SUBSET Table]
<1> USE LocalStoreAssumption DEF LocalStoreAssumption
<1>1. calls' \in 0..MaxDepth /\ depth' = calls' /\ calls' > 0 /\ opened' \in 0..MaxCalls
  BY DEF OpenFrame, TypeOK
<1>2. begun' \in Content /\ touched' \subseteq Key
  BY DEF OpenFrame, TypeOK
<1>3. depth > 0 => ~Idle
  BY DEF TypeOK, Idle
<1>4. open' /\ open' \in BOOLEAN
  <2>1. open \in BOOLEAN /\ (open <=> ~Idle)
    BY DEF TypeOK
  <2>2. \/ depth > 0 /\ UNCHANGED open
        \/ open' = TRUE
    BY DEF OpenFrame
  <2>3. QED
    BY <1>3, <2>1, <2>2
<1>5. dirty' \in BOOLEAN
  BY DEF OpenFrame, TypeOK, ScheduleSave
<1>6. before' \in [db : Content, version : Counters, untold : SUBSET Table]
  BY DEF OpenFrame, TypeOK
<1>7. QED
  BY <1>1, <1>2, <1>4, <1>5, <1>6

LEMMA TypesByNext == TypeOK /\ [Next]_vars => TypeOK'
<1> SUFFICES ASSUME TypeOK, Flags, TxTyped, ScreensTyped, SavesTyped, [Next]_vars PROVE TypeOK'
  BY TypeParts
<1> USE LocalStoreAssumption DEF LocalStoreAssumption
<1>0. Flags' /\ TxTyped' /\ ScreensTyped' /\ SavesTyped' => TypeOK'
  BY DEF TypeOK, Idle, Flags, TxTyped, ScreensTyped, SavesTyped
<1>1. CASE BeginFlow
  <2>1. /\ calls' \in 0..MaxDepth /\ depth' = calls' /\ calls' > 0
       /\ begun' \in Content /\ touched' \subseteq Key /\ open' /\ open' \in BOOLEAN
       /\ dirty' \in BOOLEAN /\ opened' \in 0..MaxCalls
       /\ before' \in [db : Content, version : Counters, untold : SUBSET Table]
    BY <1>1, FrameTyped DEF BeginFlow, saveVars, orderVars
  <2>2. TxTyped'
    BY <1>1, <2>1 DEF BeginFlow, screenVars, saveVars, orderVars, TxTyped
  <2>3. ScreensTyped'
    BY <1>1, <2>1 DEF BeginFlow, screenVars, saveVars, orderVars, ScreensTyped
  <2>4. SavesTyped'
    BY <1>1, <2>1 DEF BeginFlow, screenVars, saveVars, orderVars, SavesTyped
  <2>5. Flags'
    BY <1>1, <2>1 DEF BeginFlow, screenVars, saveVars, orderVars, Flags
  <2>6. QED
    BY <2>2, <2>3, <2>4, <2>5, <1>0
<1>2. ASSUME NEW t \in Table, BeginWrite(t) PROVE TypeOK'
  <2>1. /\ calls' \in 0..MaxDepth /\ depth' = calls' /\ calls' > 0
       /\ begun' \in Content /\ touched' \subseteq Key /\ open' /\ open' \in BOOLEAN
       /\ dirty' \in BOOLEAN /\ opened' \in 0..MaxCalls
       /\ before' \in [db : Content, version : Counters, untold : SUBSET Table]
    BY <1>2, FrameTyped DEF BeginWrite, saveVars, orderVars
  <2>2. TxTyped'
    BY <1>2, <2>1 DEF BeginWrite, screenVars, saveVars, orderVars, TxTyped
  <2>3. ScreensTyped'
    BY <1>2, <2>1 DEF BeginWrite, screenVars, saveVars, orderVars, ScreensTyped
  <2>4. SavesTyped'
    BY <1>2, <2>1 DEF BeginWrite, screenVars, saveVars, orderVars, SavesTyped
  <2>5. Flags'
    BY <1>2, <2>1 DEF BeginWrite, screenVars, saveVars, orderVars, Flags
  <2>6. QED
    BY <2>2, <2>3, <2>4, <2>5, <1>0
<1>3. ASSUME NEW t \in Table, ExtraWrite(t) PROVE TypeOK'
  <2>1. db' \in Content
    BY <1>3, CountedIsContent DEF ExtraWrite, TxTyped
  <2>2. touched' = touched \cup {t} /\ UNCHANGED <<version, woken, untold>>
    BY <1>3 DEF ExtraWrite, QueueTableBump, Flags
  <2>3. TxTyped'
    BY <1>3, <2>1, <2>2 DEF ExtraWrite, ScheduleSave, screenVars, saveVars, orderVars, Key, TxTyped
  <2>4. ScreensTyped'
    BY <1>3, <2>1, <2>2 DEF ExtraWrite, ScheduleSave, screenVars, saveVars, orderVars, Key, ScreensTyped
  <2>5. SavesTyped'
    BY <1>3, <2>1, <2>2 DEF ExtraWrite, ScheduleSave, screenVars, saveVars, orderVars, Key, SavesTyped
  <2>6. Flags'
    BY <1>3, <2>1, <2>2 DEF ExtraWrite, ScheduleSave, screenVars, saveVars, orderVars, Key, Flags
  <2>7. QED
    BY <2>3, <2>4, <2>5, <2>6, <1>0
<1>4. ASSUME NEW t \in Table, RawWrite(t) PROVE TypeOK'
  <2>1. db' \in Content
    BY <1>4, CountedIsContent DEF RawWrite, TxTyped
  <2>2. Bump({t}) /\ UNCHANGED touched
    BY <1>4 DEF RawWrite, QueueTableBump, Flags, Idle
  <2>3. /\ version' \in Counters /\ woken' \subseteq {s \in Screen : status'[s] = "on"}
        /\ untold' \subseteq Table
    BY <1>4, <2>2, BumpTyped DEF RawWrite, screenVars
  <2>4. TxTyped'
    BY <1>4, <2>1, <2>2, <2>3 DEF RawWrite, ScheduleSave, screenVars, saveVars, orderVars, TxTyped
  <2>5. ScreensTyped'
    BY <1>4, <2>1, <2>2, <2>3 DEF RawWrite, ScheduleSave, screenVars, saveVars, orderVars, ScreensTyped
  <2>6. SavesTyped'
    BY <1>4, <2>1, <2>2, <2>3 DEF RawWrite, ScheduleSave, screenVars, saveVars, orderVars, SavesTyped
  <2>7. Flags'
    BY <1>4, <2>1, <2>2, <2>3 DEF RawWrite, ScheduleSave, screenVars, saveVars, orderVars, Flags
  <2>8. QED
    BY <2>4, <2>5, <2>6, <2>7, <1>0
<1>5. CASE RowStatement
  <2>1. db' \in Content
    BY <1>5, CountedIsContent DEF RowStatement, TxTyped
  <2>2. TxTyped'
    BY <1>5, <2>1 DEF RowStatement, ScheduleSave, screenVars, saveVars, orderVars, TxTyped
  <2>3. ScreensTyped'
    BY <1>5, <2>1 DEF RowStatement, ScheduleSave, screenVars, saveVars, orderVars, ScreensTyped
  <2>4. SavesTyped'
    BY <1>5, <2>1 DEF RowStatement, ScheduleSave, screenVars, saveVars, orderVars, SavesTyped
  <2>5. Flags'
    BY <1>5, <2>1 DEF RowStatement, ScheduleSave, screenVars, saveVars, orderVars, Flags
  <2>6. QED
    BY <2>2, <2>3, <2>4, <2>5, <1>0
<1>6. CASE AppendOutbox
  <2>1. table \in Table /\ open
    BY <1>6 DEF AppendOutbox, TxTyped, Flags
  <2>2. db' \in Content
    BY <1>6, <2>1, CountedIsContent DEF AppendOutbox, TxTyped
  <2>3. touched' = touched \cup {table, Outbox} /\ UNCHANGED <<version, woken, untold>>
    BY <1>6, <2>1 DEF AppendOutbox, QueueTableBump
  <2>4. TxTyped'
    BY <1>6, <2>1, <2>2, <2>3 DEF AppendOutbox, ScheduleSave, screenVars, saveVars, orderVars, Key, TxTyped
  <2>5. ScreensTyped'
    BY <1>6, <2>1, <2>2, <2>3 DEF AppendOutbox, ScheduleSave, screenVars, saveVars, orderVars, Key, ScreensTyped
  <2>6. SavesTyped'
    BY <1>6, <2>1, <2>2, <2>3 DEF AppendOutbox, ScheduleSave, screenVars, saveVars, orderVars, Key, SavesTyped
  <2>7. Flags'
    BY <1>6, <2>1, <2>2, <2>3 DEF AppendOutbox, ScheduleSave, screenVars, saveVars, orderVars, Key, Flags
  <2>8. QED
    BY <2>4, <2>5, <2>6, <2>7, <1>0
<1>7. CASE LeaveNested
  <2>1. TxTyped'
    BY <1>7 DEF LeaveNested, screenVars, saveVars, orderVars, TxTyped
  <2>2. ScreensTyped'
    BY <1>7 DEF LeaveNested, screenVars, saveVars, orderVars, ScreensTyped
  <2>3. SavesTyped'
    BY <1>7 DEF LeaveNested, screenVars, saveVars, orderVars, SavesTyped
  <2>4. calls # 0 /\ calls' # 0
    BY <1>7 DEF LeaveNested, TxTyped
  <2>5. Flags'
    BY <1>7, <2>4 DEF LeaveNested, screenVars, saveVars, orderVars, Flags
  <2>6. QED
    BY <2>1, <2>2, <2>3, <2>5, <1>0
<1>8. CASE Commit
  <2>1. /\ version' \in Counters /\ woken' \subseteq {s \in Screen : status'[s] = "on"}
        /\ untold' \subseteq Table
    BY <1>8, BumpTyped DEF Commit, screenVars
  <2>2. TxTyped'
    BY <1>8, <2>1, EmptyIsContent, NoFlowTyped DEF Commit, ScheduleSave, screenVars, saveVars, orderVars, TxTyped
  <2>3. ScreensTyped'
    BY <1>8, <2>1 DEF Commit, ScheduleSave, screenVars, saveVars, orderVars, ScreensTyped
  <2>4. SavesTyped'
    BY <1>8, <2>1 DEF Commit, ScheduleSave, TxTyped, screenVars, saveVars, orderVars, SavesTyped
  <2>5. Flags'
    BY <1>8, <2>1 DEF Commit, ScheduleSave, screenVars, saveVars, orderVars, Flags
  <2>6. QED
    BY <2>2, <2>3, <2>4, <2>5, <1>0
<1>9. CASE Throw
  <2>1. TxTyped'
    BY <1>9, EmptyIsContent, NoFlowTyped DEF Throw, ScheduleSave, screenVars, saveVars, orderVars, TxTyped
  <2>2. ScreensTyped'
    BY <1>9 DEF Throw, ScheduleSave, screenVars, saveVars, orderVars, ScreensTyped
  <2>3. SavesTyped'
    BY <1>9 DEF Throw, ScheduleSave, screenVars, saveVars, orderVars, TxTyped, SavesTyped
  <2>4. Flags'
    BY <1>9 DEF Throw, ScheduleSave, screenVars, saveVars, orderVars, Flags
  <2>5. QED
    BY <2>1, <2>2, <2>3, <2>4, <1>0
<1>10. ASSUME NEW T \in SUBSET Table, PullApplies(T) PROVE TypeOK'
  <2>1. db' \in Content
    BY <1>10, RowsAreContent DEF PullApplies, TxTyped
  <2>2. /\ version' \in Counters /\ woken' \subseteq {s \in Screen : status'[s] = "on"}
        /\ untold' \subseteq Table
    BY <1>10, BumpTyped DEF PullApplies, screenVars
  <2>3. TxTyped'
    BY <1>10, <2>1, <2>2 DEF PullApplies, ScheduleSave, txVars, screenVars, saveVars, orderVars, TxTyped
  <2>4. ScreensTyped'
    BY <1>10, <2>1, <2>2 DEF PullApplies, ScheduleSave, txVars, screenVars, saveVars, orderVars, ScreensTyped
  <2>5. SavesTyped'
    BY <1>10, <2>1, <2>2 DEF PullApplies, ScheduleSave, txVars, screenVars, saveVars, orderVars, SavesTyped
  <2>6. Flags'
    BY <1>10, <2>1, <2>2 DEF PullApplies, ScheduleSave, txVars, screenVars, saveVars, orderVars, Flags
  <2>7. QED
    BY <2>3, <2>4, <2>5, <2>6, <1>0
<1>11. ASSUME NEW T \in SUBSET Table, PullBreaks(T) PROVE TypeOK'
  <2>1. db' \in Content
    BY <1>11, RowsAreContent DEF PullBreaks, TxTyped
  <2>2. TxTyped'
    BY <1>11, <2>1 DEF PullBreaks, ScheduleSave, txVars, screenVars, saveVars, orderVars, TxTyped
  <2>3. ScreensTyped'
    BY <1>11, <2>1 DEF PullBreaks, ScheduleSave, txVars, screenVars, saveVars, orderVars, ScreensTyped
  <2>4. SavesTyped'
    BY <1>11, <2>1 DEF PullBreaks, ScheduleSave, txVars, screenVars, saveVars, orderVars, SavesTyped
  <2>5. Flags'
    BY <1>11, <2>1 DEF PullBreaks, ScheduleSave, txVars, screenVars, saveVars, orderVars, Flags
  <2>6. QED
    BY <2>2, <2>3, <2>4, <2>5, <1>0
<1>12. ASSUME NEW s \in Screen, Mount(s) \/ Draw(s) PROVE TypeOK'
  <2>1. Snapshot(version, s) \in [Watches[s] -> Nat]
    BY SnapshotCounts DEF ScreensTyped
  <2>2. TxTyped'
    BY <1>12, <2>1 DEF Mount, Draw, txVars, saveVars, orderVars, TxTyped
  <2>3. ScreensTyped'
    BY <1>12, <2>1 DEF Mount, Draw, txVars, saveVars, orderVars, ScreensTyped
  <2>4. SavesTyped'
    BY <1>12, <2>1 DEF Mount, Draw, txVars, saveVars, orderVars, SavesTyped
  <2>5. Flags'
    BY <1>12, <2>1 DEF Mount, Draw, txVars, saveVars, orderVars, Flags
  <2>6. QED
    BY <2>2, <2>3, <2>4, <2>5, <1>0
<1>13. ASSUME NEW s \in Screen, Subscribe(s) \/ Unmount(s) PROVE TypeOK'
  <2>1. TxTyped'
    BY <1>13 DEF Subscribe, Unmount, txVars, saveVars, orderVars, TxTyped
  <2>2. ScreensTyped'
    BY <1>13 DEF Subscribe, Unmount, txVars, saveVars, orderVars, ScreensTyped
  <2>3. SavesTyped'
    BY <1>13 DEF Subscribe, Unmount, txVars, saveVars, orderVars, SavesTyped
  <2>4. Flags'
    BY <1>13 DEF Subscribe, Unmount, txVars, saveVars, orderVars, Flags
  <2>5. QED
    BY <2>1, <2>2, <2>3, <2>4, <1>0
<1>14. ASSUME NEW x \in Slot, Flush(x) \/ Store(x) \/ SaveFails(x) PROVE TypeOK'
  <2>1. TxTyped'
    BY <1>14 DEF Flush, Store, PutSave, SaveFails, txVars, screenVars, TxTyped
  <2>2. ScreensTyped'
    BY <1>14 DEF Flush, Store, PutSave, SaveFails, txVars, screenVars, ScreensTyped
  <2>3. SavesTyped'
    BY <1>14 DEF Flush, Store, PutSave, SaveFails, EndSave, TxTyped, SavesTyped
  <2>4. Flags'
    <3>1. CASE Flush(x)
      BY <3>1 DEF Flush, txVars, Flags
    <3>2. CASE Store(x)
      BY <3>2 DEF Store, PutSave, txVars, Flags
    <3>3. CASE SaveFails(x)
      BY <3>3 DEF SaveFails, txVars, Flags
    <3>4. QED
      BY <1>14, <3>1, <3>2, <3>3
  <2>5. QED
    BY <2>1, <2>2, <2>3, <2>4, <1>0
<1>15. CASE Reload
  <2>1. PICK c \in stored \cup {Empty} : db' = c /\ past' = {c}
    BY <1>15 DEF Reload
  <2>2. c \in Content
    BY EmptyIsContent DEF SavesTyped
  <2>4. TxTyped'
    BY <1>15, <2>1, <2>2, EmptyIsContent, NoFlowTyped DEF Reload, TxTyped
  <2>5. ScreensTyped'
    BY <1>15, NoFlowTyped DEF Reload, ScreensTyped
  <2>6. SavesTyped'
    BY <1>15, <2>1, <2>2 DEF Reload, SavesTyped
  <2>7. Flags'
    BY <1>15 DEF Reload, Flags
  <2>8. QED
    BY <2>4, <2>5, <2>6, <2>7, <1>0
<1>16. CASE UNCHANGED vars
  <2>1. TxTyped'
    BY <1>16 DEF vars, txVars, screenVars, saveVars, orderVars, TxTyped
  <2>2. ScreensTyped'
    BY <1>16 DEF vars, txVars, screenVars, saveVars, orderVars, ScreensTyped
  <2>3. SavesTyped'
    BY <1>16 DEF vars, txVars, screenVars, saveVars, orderVars, SavesTyped
  <2>4. Flags'
    BY <1>16 DEF vars, txVars, screenVars, saveVars, orderVars, Flags
  <2>5. QED
    BY <2>1, <2>2, <2>3, <2>4, <1>0
<1>17. CASE Swallow
  <2>1. step # "done" /\ UNCHANGED <<begun, touched, before, opened>>
    BY <1>17 DEF Swallow
  <2>2. PICK n \in 1..(calls - 1) : calls' = calls - n /\ depth' = depth - n
    BY <1>17 DEF Swallow
  <2>3. calls' \in 0..MaxDepth /\ depth' = calls' /\ calls' # 0 /\ calls # 0
    BY <2>2 DEF TxTyped
  <2>4. db' \in Content /\ untold' \subseteq Table
    BY <1>17, CountedIsContent DEF Swallow, TxTyped, SavesTyped
  <2>5. TxTyped'
    BY <1>17, <2>1, <2>3, <2>4 DEF Swallow, TxTyped
  <2>6. ScreensTyped'
    BY <1>17 DEF Swallow, screenVars, ScreensTyped
  <2>7. SavesTyped'
    BY <1>17, <2>4 DEF Swallow, saveVars, orderVars, SavesTyped
  <2>8. Flags'
    BY <1>17, <2>3 DEF Swallow, saveVars, orderVars, Flags
  <2>9. QED
    BY <2>5, <2>6, <2>7, <2>8, <1>0
<1>18. QED
  BY <1>1, <1>2, <1>3, <1>4, <1>5, <1>6, <1>7, <1>8, <1>9, <1>10, <1>11, <1>12, <1>13,
     <1>14, <1>15, <1>16, <1>17 DEF Next, FlowStep, ScreenStep, SaveStep

\* The variables of the transaction keep their shape, whatever nests and throws.
THEOREM TypeCorrect == Spec => []TypeOK
  BY TypesAtInit, TypesByNext, PTL DEF Spec

--------------------------------------------------------------------------------
(* No drift between a row and its outbox row. *)

LEMMA CountedFields ==
  ASSUME NEW d \in Content, NEW t \in Table, NEW u \in Table
  PROVE  LET own    == [d EXCEPT ![t].own = @ + 1]
             queued == [d EXCEPT ![t].queued = @ + 1]
             raw    == [d EXCEPT ![t].raw = @ + 1]
             lost   == [d EXCEPT ![t].lost = @ + 1]
         IN  /\ own[u].own = (IF u = t THEN d[u].own + 1 ELSE d[u].own)
             /\ own[u].queued = d[u].queued /\ own[u].raw = d[u].raw
             /\ own[u].lost = d[u].lost
             /\ queued[u].queued = (IF u = t THEN d[u].queued + 1 ELSE d[u].queued)
             /\ queued[u].own = d[u].own /\ queued[u].raw = d[u].raw
             /\ queued[u].lost = d[u].lost
             /\ raw[u].own = d[u].own /\ raw[u].queued = d[u].queued
             /\ raw[u].lost = d[u].lost
             /\ lost[u].lost = (IF u = t THEN d[u].lost + 1 ELSE d[u].lost)
             /\ lost[u].own = d[u].own /\ lost[u].queued = d[u].queued
             /\ lost[u].raw = d[u].raw
             /\ u # t => raw[u].raw = d[u].raw
  BY DEF Content

LEMMA RowsFields ==
  ASSUME db \in Content, NEW T \in SUBSET Table, NEW u \in Table
  PROVE  /\ Rows(T)[u].own = db[u].own /\ Rows(T)[u].queued = db[u].queued
         /\ Rows(T)[u].lost = db[u].lost
         /\ u \notin T => Rows(T)[u].raw = db[u].raw
  BY DEF Content, Rows

LEMMA EmptyIsPaired == Paired(Empty)
  BY DEF Paired, Empty

\* The one table that is ahead of its outbox is that of a write between its
\* two statements.
Balanced ==
  /\ \A t \in Table : ~(step = "queue" /\ t = table) => db[t].own = db[t].queued + db[t].lost
  /\ step = "queue" => db[table].own = db[table].queued + db[table].lost + 1

Kept ==
  /\ \A x \in Slot : \A d \in save[x] : Paired(d)
  /\ \A d \in stored : Paired(d)

DriftInv == TypeOK /\ Balanced /\ Paired(begun) /\ Kept

LEMMA DriftByNext == DriftInv /\ [Next]_vars => Balanced' /\ Paired(begun)' /\ Kept'
<1> SUFFICES ASSUME DriftInv, [Next]_vars
             PROVE  Balanced' /\ Paired(begun)' /\ Kept'
  OBVIOUS
<1>0. /\ TypeOK /\ Balanced /\ Paired(begun) /\ Kept
      /\ db \in Content /\ (table = Null <=> step = "out") /\ table \in Table \cup {Null}
      /\ \A t \in Table : db[t].own \in Nat /\ db[t].queued \in Nat /\ db[t].lost \in Nat
  BY DEF DriftInv, TypeOK, Content
<1>1. ASSUME UNCHANGED <<db, save, stored>>, OpenFrame, step = "out",
             step' = "out" \/ step' = "row"
      PROVE  Balanced' /\ Paired(begun)' /\ Kept'
  <2>1. Paired(db)
    BY <1>0, <1>1 DEF Balanced, Paired
  <2>2. begun' = begun \/ begun' = db
    BY <1>1 DEF OpenFrame
  <2>3. QED
    BY <1>0, <1>1, <2>1, <2>2 DEF Balanced, Paired, Kept
<1>2. CASE BeginFlow \/ \E t \in Table : BeginWrite(t)
  BY <1>1, <1>2 DEF BeginFlow, BeginWrite, saveVars, orderVars
<1>3. ASSUME NEW t \in Table, ExtraWrite(t) \/ RawWrite(t)
      PROVE  Balanced' /\ Paired(begun)' /\ Kept'
  <2>1. /\ db' = [db EXCEPT ![t].raw = @ + 1] /\ UNCHANGED <<begun, step, table, save, stored>>
    BY <1>3 DEF ExtraWrite, RawWrite, saveVars, orderVars
  <2>2. \A u \in Table : /\ db'[u].own = db[u].own /\ db'[u].queued = db[u].queued
                         /\ db'[u].lost = db[u].lost
    BY <1>0, <2>1, CountedFields
  <2>3. step = "queue" => table \in Table
    BY <1>0
  <2>4. QED
    BY <1>0, <2>1, <2>2, <2>3 DEF Balanced, Paired, Kept
<1>4. CASE RowStatement
  <2>1. /\ step = "row" /\ step' = "queue" /\ table \in Table
        /\ db' = [db EXCEPT ![table].own = @ + 1]
        /\ UNCHANGED <<begun, table, save, stored>>
    BY <1>0, <1>4 DEF RowStatement, saveVars, orderVars
  <2>2. \A u \in Table : /\ db'[u].own = (IF u = table THEN db[u].own + 1 ELSE db[u].own)
                         /\ db'[u].queued = db[u].queued /\ db'[u].lost = db[u].lost
    BY <1>0, <2>1, CountedFields
  <2>3. QED
    BY <1>0, <2>1, <2>2 DEF Balanced, Paired, Kept
<1>5. CASE AppendOutbox
  <2>1. /\ step = "queue" /\ step' = "done" /\ table \in Table
        /\ db' = [db EXCEPT ![table].queued = @ + 1]
        /\ UNCHANGED <<begun, table, save, stored>>
    BY <1>0, <1>5 DEF AppendOutbox, saveVars, orderVars
  <2>2. \A u \in Table : /\ db'[u].queued = (IF u = table THEN db[u].queued + 1 ELSE db[u].queued)
                         /\ db'[u].own = db[u].own /\ db'[u].lost = db[u].lost
    BY <1>0, <2>1, CountedFields
  <2>3. QED
    BY <1>0, <2>1, <2>2 DEF Balanced, Paired, Kept
<1>6. CASE LeaveNested \/ Commit
  BY <1>0, <1>6, EmptyIsPaired DEF LeaveNested, Commit, saveVars, orderVars, Balanced, Paired, Kept
<1>7. CASE Throw
  BY <1>0, <1>7, EmptyIsPaired DEF Throw, saveVars, orderVars, Balanced, Paired, Kept
<1>8. ASSUME NEW T \in SUBSET Table, PullApplies(T) \/ PullBreaks(T)
      PROVE  Balanced' /\ Paired(begun)' /\ Kept'
  <2>1. db' = Rows(T) /\ UNCHANGED <<begun, step, table, save, stored>>
    BY <1>8 DEF PullApplies, PullBreaks, txVars, saveVars, orderVars
  <2>2. \A u \in Table : /\ db'[u].own = db[u].own /\ db'[u].queued = db[u].queued
                         /\ db'[u].lost = db[u].lost
    BY <1>0, <2>1, RowsFields
  <2>3. step = "queue" => table \in Table
    BY <1>0
  <2>4. QED
    BY <1>0, <2>1, <2>2, <2>3 DEF Balanced, Paired, Kept
<1>9. CASE ScreenStep \/ UNCHANGED vars
  <2>1. UNCHANGED <<db, begun, step, table, save, stored>>
    BY <1>9 DEF ScreenStep, Mount, Subscribe, Draw, Unmount, vars, txVars, saveVars, orderVars
  <2>2. QED
    BY <1>0, <2>1 DEF Balanced, Paired, Kept
<1>10. ASSUME NEW x \in Slot, Flush(x)
       PROVE  Balanced' /\ Paired(begun)' /\ Kept'
  <2>1. step = "out" /\ Paired(db)
    BY <1>0, <1>10 DEF Flush, Idle, TypeOK, Balanced, Paired
  <2>2. /\ save' = [save EXCEPT ![x] = {db}]
        /\ UNCHANGED <<db, begun, step, table, stored>>
    BY <1>10 DEF Flush, txVars
  <2>3. save \in [Slot -> SUBSET Content]
    BY <1>0 DEF TypeOK
  <2>4. QED
    BY <1>0, <2>1, <2>2, <2>3 DEF Balanced, Paired, Kept
<1>11. ASSUME NEW x \in Slot, Store(x) \/ SaveFails(x)
       PROVE  Balanced' /\ Paired(begun)' /\ Kept'
  <2>1. /\ save' = [save EXCEPT ![x] = {}] /\ stored' \in {stored, save[x]}
        /\ UNCHANGED <<db, begun, step, table>>
    BY <1>11 DEF Store, PutSave, SaveFails, EndSave, txVars
  <2>2. save \in [Slot -> SUBSET Content]
    BY <1>0 DEF TypeOK
  <2>3. QED
    BY <1>0, <2>1, <2>2 DEF Balanced, Paired, Kept
<1>12. CASE Reload
  <2>1. PICK c \in stored \cup {Empty} : db' = c
    BY <1>12 DEF Reload
  <2>2. Paired(c)
    BY <1>0, EmptyIsPaired DEF Kept
  <2>3. QED
    BY <1>0, <1>12, <2>1, <2>2, EmptyIsPaired DEF Reload, Balanced, Paired, Kept
<1>13. CASE Swallow
  <2>1. UNCHANGED <<begun, save, stored>> /\ step' = "out" /\ step # "done"
    BY <1>13 DEF Swallow, saveVars
  <2>2. CASE step = "queue"
    <3>1. table \in Table /\ db' = [db EXCEPT ![table].lost = @ + 1]
      BY <1>0, <1>13, <2>2 DEF Swallow
    <3>2. \A u \in Table : /\ db'[u].lost = (IF u = table THEN db[u].lost + 1 ELSE db[u].lost)
                           /\ db'[u].own = db[u].own /\ db'[u].queued = db[u].queued
      BY <1>0, <3>1, CountedFields
    <3>3. QED
      BY <1>0, <2>1, <2>2, <3>1, <3>2 DEF Balanced, Paired, Kept
  <2>3. CASE step # "queue"
    <3>1. db' = db
      BY <1>13, <2>3 DEF Swallow
    <3>2. QED
      BY <1>0, <2>1, <2>3, <3>1 DEF Balanced, Paired, Kept
  <2>4. QED
    BY <2>2, <2>3
<1>14. QED
  BY <1>2, <1>3, <1>4, <1>5, <1>6, <1>7, <1>8, <1>9, <1>10, <1>11, <1>12, <1>13
     DEF Next, FlowStep, SaveStep

\* A local row and its outbox row exist together, in the database between
\* flows and in every snapshot, whatever throws or dies, but for the rows whose
\* refused outbox row a caller swallowed, which are counted exactly.
THEOREM DriftNever == Spec => []NoDrift
<1>1. Init => DriftInv
  BY TypesAtInit, EmptyIsPaired DEF Init, DriftInv, Balanced, Paired, Kept
<1>2. DriftInv /\ [Next]_vars => DriftInv'
  BY TypesByNext, DriftByNext DEF DriftInv
<1>3. DriftInv => NoDrift
  BY DEF DriftInv, NoDrift, Balanced, Paired, Kept, Idle, TypeOK
<1>4. QED
  BY <1>1, <1>2, <1>3, PTL DEF Spec

--------------------------------------------------------------------------------
(* All or nothing. *)

\* A statement changes what the screens of its own table and key read.
LEMMA ViewsAfterOwn ==
  ASSUME NEW d \in Content, NEW t \in Table, NEW k \in Key, k # t
  PROVE  View([d EXCEPT ![t].own = @ + 1], k) = View(d, k)
  BY CountedFields DEF View, Key

LEMMA ViewsAfterQueued ==
  ASSUME NEW d \in Content, NEW t \in Table, NEW k \in Key, k # Outbox
  PROVE  View([d EXCEPT ![t].queued = @ + 1], k) = View(d, k)
  BY CountedFields DEF View, Key

LEMMA ViewsAfterRaw ==
  ASSUME NEW d \in Content, NEW t \in Table, NEW k \in Key, k # t
  PROVE  View([d EXCEPT ![t].raw = @ + 1], k) = View(d, k)
  BY CountedFields DEF View, Key

LEMMA ViewsAfterRows ==
  ASSUME db \in Content, NEW T \in SUBSET Table, NEW k \in Key, k \notin T
  PROVE  View(Rows(T), k) = View(db, k)
  BY RowsFields DEF View, Key

\* What was lost stays counted.
LostStays ==
  \A t \in Table : /\ before.db[t].lost <= db[t].lost
                   /\ before.db[t].lost # db[t].lost => t \in untold

\* Inside a flow nobody has been told anything, ROLLBACK returns to where the
\* flow began, and every key whose rows differ from there is in the set, or is
\* the table of the write that is about to put it there, or of one that was
\* swallowed.
FlowInv ==
  calls > 0 =>
    /\ begun = before.db /\ version = before.version /\ before.untold \subseteq untold
    /\ LostStays
    /\ \A k \in Key : \/ View(db, k) = View(before.db, k)
                      \/ k \in touched
                      \/ step = "queue" /\ k = table
                      \/ k \in LostIn(before.db, db)

\* A statement that loses nothing keeps the accounts of what was lost.
LEMMA LostKept ==
  ASSUME LostStays, UNCHANGED <<before, untold>>, \A u \in Table : db'[u].lost = db[u].lost
  PROVE  LostStays' /\ LostIn(before.db, db)' = LostIn(before.db, db)
  BY DEF LostStays, LostIn

LEMMA FlowByNext == TypeOK /\ FlowInv /\ [Next]_vars => FlowInv'
<1> SUFFICES ASSUME TypeOK, FlowInv, [Next]_vars PROVE FlowInv'
  OBVIOUS
<1>0. /\ db \in Content /\ (calls > 0 => open) /\ calls \in Nat /\ depth = calls
      /\ table \in Table \cup {Null} /\ (table = Null <=> step = "out")
  BY LocalStoreAssumption DEF LocalStoreAssumption, TypeOK, Idle
<1>1. ASSUME OpenFrame, UNCHANGED <<db, version, untold>>, step = "out" PROVE FlowInv'
  <2>1. CASE calls = 0
    <3>1. begun' = db' /\ before' = [db |-> db', version |-> version', untold |-> untold']
      BY <1>0, <1>1, <2>1 DEF OpenFrame, Idle
    <3>2. \A t \in Table : db'[t].lost \in Nat
      BY <1>0, <1>1 DEF Content
    <3>3. LostStays'
      BY <3>1, <3>2 DEF LostStays
    <3>4. QED
      BY <3>1, <3>3 DEF FlowInv
  <2>2. CASE calls > 0
    <3>1. depth # 0 /\ ~Idle
      BY <1>0, <2>2 DEF Idle
    <3>2. UNCHANGED <<begun, touched, before>>
      BY <1>1, <3>1 DEF OpenFrame
    <3>3. QED
      BY <1>1, <2>2, <3>2 DEF FlowInv, LostStays, LostIn
  <2>3. QED
    BY <1>0, <2>1, <2>2
<1>2. CASE BeginFlow \/ \E t \in Table : BeginWrite(t)
  BY <1>1, <1>2 DEF BeginFlow, BeginWrite
<1>3. ASSUME NEW t \in Table, ExtraWrite(t) PROVE FlowInv'
  <2>1. /\ calls > 0 /\ step = "out" /\ db' = [db EXCEPT ![t].raw = @ + 1]
        /\ touched' = touched \cup {t}
        /\ UNCHANGED <<begun, before, calls, version, step, table, untold>>
    BY <1>0, <1>3 DEF ExtraWrite, QueueTableBump
  <2>2. \A k \in Key : k # t => View(db', k) = View(db, k)
    BY <1>0, <2>1, ViewsAfterRaw
  <2>3. \A u \in Table : db'[u].lost = db[u].lost
    BY <1>0, <2>1, CountedFields
  <2>4. FlowInv
    OBVIOUS
  <2>5. LostStays' /\ LostIn(before.db, db)' = LostIn(before.db, db)
    BY <2>1, <2>3, <2>4, LostKept DEF FlowInv
  <2>6. QED
    BY <2>1, <2>2, <2>5 DEF FlowInv
<1>4. CASE RowStatement
  <2>1. /\ step = "row" /\ step' = "queue" /\ table \in Table
        /\ db' = [db EXCEPT ![table].own = @ + 1]
        /\ UNCHANGED <<begun, before, calls, version, touched, table, untold>>
    BY <1>0, <1>4 DEF RowStatement
  <2>2. \A k \in Key : k # table => View(db', k) = View(db, k)
    BY <1>0, <2>1, ViewsAfterOwn
  <2>3. \A u \in Table : db'[u].lost = db[u].lost
    BY <1>0, <2>1, CountedFields
  <2>4. calls > 0
    BY <2>1 DEF TypeOK
  <2>5. LostStays' /\ LostIn(before.db, db)' = LostIn(before.db, db)
    BY <2>1, <2>3, <2>4, LostKept DEF FlowInv
  <2>6. QED
    BY <2>1, <2>2, <2>4, <2>5 DEF FlowInv
<1>5. CASE AppendOutbox
  <2>1. /\ step = "queue" /\ step' = "done" /\ table \in Table /\ open
        /\ db' = [db EXCEPT ![table].queued = @ + 1]
        /\ UNCHANGED <<begun, before, calls, table>>
    BY <1>0, <1>5 DEF AppendOutbox, TypeOK
  <2>2. touched' = touched \cup {table, Outbox} /\ UNCHANGED <<version, untold>>
    BY <1>5, <2>1 DEF AppendOutbox, QueueTableBump
  <2>3. \A k \in Key : k # Outbox => View(db', k) = View(db, k)
    BY <1>0, <2>1, ViewsAfterQueued
  <2>4. \A u \in Table : db'[u].lost = db[u].lost
    BY <1>0, <2>1, CountedFields
  <2>5. calls > 0
    BY <2>1 DEF TypeOK
  <2>6. LostStays' /\ LostIn(before.db, db)' = LostIn(before.db, db)
    BY <2>1, <2>2, <2>4, <2>5, LostKept DEF FlowInv
  <2>7. QED
    BY <2>1, <2>2, <2>3, <2>5, <2>6 DEF FlowInv
<1>6. CASE LeaveNested
  BY <1>0, <1>6 DEF LeaveNested, FlowInv, LostStays, LostIn
<1>7. CASE Commit \/ Throw \/ Reload
  BY <1>7 DEF Commit, Throw, Reload, FlowInv
<1>8. ASSUME Idle, UNCHANGED calls PROVE FlowInv'
  BY <1>8 DEF Idle, FlowInv
<1>9. CASE (\E t \in Table : RawWrite(t)) \/ (\E T \in SUBSET Table : PullApplies(T) \/ PullBreaks(T))
  BY <1>8, <1>9 DEF RawWrite, PullApplies, PullBreaks, txVars
<1>10. CASE ScreenStep
  BY <1>8, <1>10 DEF ScreenStep, Mount, Subscribe, Draw, Unmount, txVars
<1>11. CASE SaveStep \/ UNCHANGED vars
  <2>1. UNCHANGED <<db, begun, before, calls, version, touched, step, table, untold>>
    BY <1>11 DEF SaveStep, Flush, Store, PutSave, SaveFails, vars, txVars
  <2>2. QED
    BY <2>1 DEF FlowInv, LostStays, LostIn
<1>12. CASE Swallow
  <2>1. /\ calls > 0 /\ step' = "out" /\ UNCHANGED <<begun, before, version, touched>>
        /\ \A t \in Table : before.db[t].lost \in Nat /\ db[t].lost \in Nat
    BY <1>0, <1>12 DEF Swallow, TypeOK, Content
  <2>2. CASE step = "queue"
    <3>1. /\ table \in Table /\ db' = [db EXCEPT ![table].lost = @ + 1]
          /\ untold' = untold \cup {table}
      BY <1>0, <1>12, <2>2 DEF Swallow
    <3>2. \A u \in Table : /\ db'[u].lost = (IF u = table THEN db[u].lost + 1 ELSE db[u].lost)
                           /\ db'[u].own = db[u].own /\ db'[u].queued = db[u].queued
                           /\ db'[u].raw = db[u].raw
      BY <1>0, <3>1, CountedFields
    <3>3. \A k \in Key : View(db', k) = View(db, k)
      BY <3>2 DEF View, Key
    <3>4. LostStays'
      BY <2>1, <3>1, <3>2 DEF LostStays, FlowInv
    <3>5. LostIn(before.db, db)' = LostIn(before.db, db) \cup {table}
      BY <2>1, <3>1, <3>2 DEF LostStays, FlowInv, LostIn
    <3>6. before'.untold \subseteq untold'
      BY <2>1, <3>1 DEF FlowInv
    <3>7. QED
      BY <2>1, <2>2, <3>3, <3>4, <3>5, <3>6 DEF FlowInv
  <2>3. CASE step # "queue"
    <3>1. UNCHANGED <<db, untold>>
      BY <1>12, <2>3 DEF Swallow
    <3>2. LostStays' /\ LostIn(before.db, db)' = LostIn(before.db, db)
      BY <2>1, <3>1, LostKept DEF FlowInv
    <3>3. QED
      BY <2>1, <2>3, <3>1, <3>2 DEF FlowInv
  <2>4. QED
    BY <2>2, <2>3
<1>13. QED
  BY <1>2, <1>3, <1>4, <1>5, <1>6, <1>7, <1>9, <1>10, <1>11, <1>12 DEF Next, FlowStep

--------------------------------------------------------------------------------
(* Screens. *)

Committed == IF Idle THEN db ELSE before.db

\* What no screen has been told of: rows of a broken pull, swallowed writes.
Hidden == half \cup (IF Idle THEN untold ELSE before.untold)

\* What a screen was drawn with is not ahead of the counters; a subscribed
\* screen that is behind them is to be drawn again; one that is not behind shows
\* what is committed, but for what is hidden.
Behind(s) == Snapshot(version, s) # seen[s]
Fresh(s) ==
  status[s] # "off" =>
    /\ \A k \in Watches[s] : seen[s][k] <= version[k]
    /\ status[s] = "on" /\ Behind(s) => s \in woken
    /\ ~Behind(s) => \A k \in Reads(s) \ Hidden : shown[s][k] = View(Committed, k)

LEMMA SameSnapshot ==
  ASSUME NEW s \in Screen, NEW v \in Counters, NEW f \in [Watches[s] -> Nat],
         \A k \in Watches[s] : v[k] = f[k]
  PROVE  Snapshot(v, s) = f
  BY SnapshotCounts DEF Snapshot

\* Whoever reads one of the tables a bump tells of falls behind by it, and if he
\* is subscribed he hears of it; nobody else falls behind.
LEMMA BumpTells ==
  ASSUME TypeOK, NEW T \in SUBSET Key, Bump(T), UNCHANGED <<status, seen>>,
         NEW s \in Screen, status[s] # "off", Fresh(s)
  PROVE  /\ \A k \in Watches[s] : seen'[s][k] <= version'[k]
         /\ status'[s] = "on" /\ Behind(s)' => s \in woken'
         /\ ~Behind(s)' => /\ ~Behind(s)
                           /\ \A k \in Reads(s) : k \notin T
<1>0. /\ Watches[s] \subseteq Key \cup {All} /\ (Watches[s] = {All} \/ Watches[s] \subseteq Key)
      /\ version \in Counters /\ seen[s] \in [Watches[s] -> Nat]
      /\ version' = Bumped(T) /\ version' \in Counters
  BY LocalStoreAssumption, BumpedCounts DEF LocalStoreAssumption, TypeOK, Bump
<1>1. \A k \in Watches[s] :
        version'[k] = (IF T # {} /\ k \in T \cup {All} THEN version[k] + 1 ELSE version[k])
  BY <1>0 DEF Bumped
<1>2. \A k \in Watches[s] : version[k] \in Nat /\ seen[s][k] \in Nat /\ seen[s][k] <= version[k]
  BY <1>0 DEF Counters, Fresh
<1>3. \A k \in Watches[s] : seen'[s][k] <= version'[k]
  BY <1>1, <1>2
<1>4. ASSUME status'[s] = "on", Behind(s)' PROVE s \in woken'
  <2>1. CASE Hears(s, T)
    BY <1>4, <2>1 DEF Bump, Behind
  <2>2. CASE ~Hears(s, T)
    <3>1. \A k \in Watches[s] : version'[k] = version[k]
      BY <1>1, <1>4, <2>2 DEF Hears
    <3>2. Snapshot(version', s) = Snapshot(version, s)
      BY <3>1 DEF Snapshot
    <3>3. Behind(s)
      BY <1>4, <3>2 DEF Behind
    <3>4. QED
      BY <1>4, <3>3 DEF Fresh, Bump
  <2>3. QED
    BY <2>1, <2>2
<1>5. ASSUME ~Behind(s)' PROVE ~Behind(s) /\ \A k \in Reads(s) : k \notin T
  <2>1. \A k \in Watches[s] : version'[k] = seen[s][k]
    BY <1>5 DEF Behind, Snapshot
  <2>2. \A k \in Watches[s] : version[k] = seen[s][k] /\ ~(T # {} /\ k \in T \cup {All})
    BY <1>1, <1>2, <2>1
  <2>3. ~Behind(s)
    BY <1>0, <2>2, SameSnapshot DEF Behind
  <2>4. \A k \in Reads(s) : k \notin T
    BY <1>0, <2>2 DEF Reads
  <2>5. QED
    BY <2>3, <2>4
<1>6. QED
  BY <1>3, <1>4, <1>5

ScreenInv == TypeOK /\ FlowInv /\ \A s \in Screen : Fresh(s)

\* Steps that change neither what is committed nor anything of the screens.
LEMMA FreshIfSame ==
  ASSUME NEW s \in Screen, Fresh(s),
         UNCHANGED <<status, seen, shown, version, woken>>,
         Hidden \subseteq Hidden',
         \A k \in Key \ Hidden' : View(Committed', k) = View(Committed, k),
         Reads(s) \subseteq Key
  PROVE  Fresh(s)'
  BY DEF Fresh, Behind, Snapshot, Reads

LEMMA ReadsAreKeys ==
  ASSUME NEW s \in Screen PROVE Reads(s) \subseteq Key
  BY LocalStoreAssumption DEF LocalStoreAssumption, Reads

\* A bump of the keys that have changed, or that were kept from the screens.
LEMMA FreshIfTold ==
  ASSUME TypeOK, NEW T \in SUBSET Key, Bump(T), UNCHANGED <<status, seen, shown>>,
         NEW s \in Screen, Fresh(s),
         \A k \in Key : k \notin T \cup Hidden' =>
           k \notin Hidden /\ View(Committed', k) = View(Committed, k)
  PROVE  Fresh(s)'
<1>1. CASE status[s] = "off"
  BY <1>1 DEF Fresh
<1>2. CASE status[s] # "off"
  <2>1. /\ \A k \in Watches[s] : seen'[s][k] <= version'[k]
        /\ status'[s] = "on" /\ Behind(s)' => s \in woken'
        /\ ~Behind(s)' => ~Behind(s) /\ \A k \in Reads(s) : k \notin T
    BY <1>2, BumpTells
  <2>2. ASSUME ~Behind(s)', NEW k \in Reads(s) \ Hidden'
        PROVE  shown'[s][k] = View(Committed', k)
    BY <1>2, <2>1, <2>2, ReadsAreKeys DEF Fresh
  <2>3. Reads(s)' = Reads(s)
    BY DEF Reads
  <2>4. QED
    BY <2>1, <2>2, <2>3 DEF Fresh
<1>3. QED
  BY <1>1, <1>2

LEMMA FreshByNext ==
  ASSUME ScreenInv, [Next]_vars, NEW s \in Screen
  PROVE  Fresh(s)'
<1>0. /\ TypeOK /\ FlowInv /\ Fresh(s) /\ Reads(s) \subseteq Key
      /\ calls \in Nat /\ (calls > 0 => open) /\ db \in Content
      /\ table \in Table \cup {Null} /\ (table = Null <=> step = "out")
  BY ReadsAreKeys, LocalStoreAssumption DEF LocalStoreAssumption, ScreenInv, TypeOK, Idle
\* Within a flow nothing is committed and nobody is told.
<1>1. ASSUME calls > 0, calls' > 0, UNCHANGED <<before, version, woken, screenVars, half>>
      PROVE  Fresh(s)'
  <2>1. Committed' = Committed /\ Hidden' = Hidden
    BY <1>1 DEF Committed, Hidden, Idle
  <2>2. QED
    BY <1>0, <1>1, <2>1, FreshIfSame DEF screenVars
<1>2. CASE BeginFlow \/ \E t \in Table : BeginWrite(t)
  <2>1. OpenFrame /\ UNCHANGED <<db, version, woken, screenVars, half, untold>>
    BY <1>2 DEF BeginFlow, BeginWrite
  <2>2. calls' > 0
    BY <1>0, <2>1 DEF OpenFrame
  <2>3. Committed' = Committed /\ Hidden' = Hidden
    BY <1>0, <2>1, <2>2 DEF OpenFrame, Committed, Hidden, Idle
  <2>4. QED
    BY <1>0, <2>1, <2>3, FreshIfSame DEF screenVars
<1>3. CASE (\E t \in Table : ExtraWrite(t)) \/ AppendOutbox
  <2>1. calls > 0 /\ UNCHANGED <<before, calls, screenVars, half>>
    BY <1>0, <1>3 DEF ExtraWrite, AppendOutbox, TypeOK
  <2>2. UNCHANGED <<version, woken>>
    BY <1>0, <1>3, <2>1 DEF ExtraWrite, AppendOutbox, QueueTableBump
  <2>3. QED
    BY <1>1, <2>1, <2>2
<1>4. CASE RowStatement \/ LeaveNested \/ Swallow
  <2>1. calls > 0 /\ calls' > 0 /\ UNCHANGED <<before, version, woken, screenVars, half>>
    BY <1>0, <1>4 DEF RowStatement, LeaveNested, Swallow, TypeOK
  <2>2. QED
    BY <1>1, <2>1
<1>5. CASE Commit
  <2>1. /\ calls = 1 /\ calls' = 0 /\ Bump(touched) /\ db' = db
        /\ step # "queue" /\ UNCHANGED <<screenVars, half>>
    BY <1>5 DEF Commit
  <2>2. Committed = before.db /\ Committed' = db
    BY <2>1 DEF Committed, Idle
  <2>3. \A k \in Key : k \notin touched \cup untold => View(db, k) = View(before.db, k)
    BY <1>0, <2>1 DEF FlowInv, LostIn, LostStays
  <2>4. /\ Hidden = half \cup before.untold /\ Hidden' = half \cup (untold \ touched)
        /\ before.untold \subseteq untold
    BY <1>0, <2>1 DEF Hidden, Idle, Bump, FlowInv
  <2>6. /\ touched \in SUBSET Key
        /\ \A k \in Key : k \notin touched \cup Hidden' =>
             k \notin Hidden /\ View(Committed', k) = View(Committed, k)
    BY <1>0, <2>1, <2>2, <2>3, <2>4 DEF TypeOK
  <2>5. QED
    BY <1>0, <2>1, <2>6, FreshIfTold DEF screenVars
<1>6. CASE Throw
  <2>1. /\ calls > 0 /\ calls' = 0 /\ db' = begun /\ untold' = before.untold
        /\ UNCHANGED <<version, woken, screenVars, half>>
    BY <1>6 DEF Throw
  <2>2. Committed' = Committed /\ Hidden' = Hidden
    BY <2>1, <1>0 DEF Committed, Hidden, Idle, FlowInv
  <2>3. QED
    BY <1>0, <2>1, <2>2, FreshIfSame DEF screenVars
<1>7. ASSUME NEW t \in Table, RawWrite(t) PROVE Fresh(s)'
  <2>1. /\ Bump({t}) /\ db' = [db EXCEPT ![t].raw = @ + 1] /\ calls = 0 /\ calls' = 0
        /\ UNCHANGED <<screenVars, half>>
    BY <1>7 DEF RawWrite, QueueTableBump, TypeOK, ScreenInv, Idle
  <2>2. Committed = db /\ Committed' = db'
    BY <2>1 DEF Committed, Idle
  <2>5. Hidden = half \cup untold /\ Hidden' = half \cup (untold \ {t})
    BY <2>1 DEF Hidden, Idle, Bump
  <2>3. /\ {t} \in SUBSET Key
        /\ \A k \in Key : k \notin {t} \cup Hidden' =>
             k \notin Hidden /\ View(Committed', k) = View(Committed, k)
    BY <1>0, <2>1, <2>2, <2>5, ViewsAfterRaw DEF Key
  <2>4. QED
    BY <1>0, <2>1, <2>3, FreshIfTold DEF screenVars
<1>8. ASSUME NEW T \in SUBSET Table, PullApplies(T) PROVE Fresh(s)'
  <2>1. /\ Bump(T \cup half) /\ db' = Rows(T) /\ calls = 0 /\ calls' = 0
        /\ half' = {} /\ UNCHANGED screenVars
    BY <1>8 DEF PullApplies, txVars, Idle
  <2>2. Committed = db /\ Committed' = db'
    BY <2>1 DEF Committed, Idle
  <2>5. Hidden = half \cup untold /\ Hidden' = untold \ (T \cup half)
    BY <2>1 DEF Hidden, Idle, Bump
  <2>3. /\ T \cup half \in SUBSET Key
        /\ \A k \in Key : k \notin (T \cup half) \cup Hidden' =>
             k \notin Hidden /\ View(Committed', k) = View(Committed, k)
    BY <1>0, <2>1, <2>2, <2>5, ViewsAfterRows DEF Key, TypeOK
  <2>4. QED
    BY <1>0, <2>1, <2>3, FreshIfTold DEF screenVars
<1>9. ASSUME NEW T \in SUBSET Table, PullBreaks(T) PROVE Fresh(s)'
  <2>1. /\ db' = Rows(T) /\ calls = 0 /\ calls' = 0
        /\ half' = half \cup T /\ UNCHANGED <<version, woken, screenVars, untold>>
    BY <1>9 DEF PullBreaks, txVars, Idle
  <2>2. Committed = db /\ Committed' = db'
    BY <2>1 DEF Committed, Idle
  <2>5. Hidden = half \cup untold /\ Hidden' = half \cup T \cup untold
    BY <2>1 DEF Hidden, Idle
  <2>3. \A k \in Key \ Hidden' : View(Committed', k) = View(Committed, k)
    BY <1>0, <2>1, <2>2, <2>5, ViewsAfterRows
  <2>4. QED
    BY <1>0, <2>1, <2>3, <2>5, FreshIfSame DEF screenVars
<1>10. ASSUME NEW r \in Screen, Mount(r) \/ Draw(r) PROVE Fresh(s)'
  <2>1. /\ Idle /\ UNCHANGED <<db, calls, version, half, untold>>
        /\ seen' = [seen EXCEPT ![r] = Snapshot(version, r)]
        /\ shown' = [shown EXCEPT ![r] = Reading(db, r)]
        /\ \A q \in Screen : q # r => status'[q] = status[q] /\ (q \in woken' <=> q \in woken)
        /\ DOMAIN seen = Screen /\ DOMAIN shown = Screen
    BY <1>0, <1>10 DEF Mount, Draw, txVars, TypeOK
  <2>2. Committed = db /\ Committed' = db /\ Hidden' = Hidden
    BY <2>1 DEF Committed, Hidden, Idle
  <2>3. CASE s = r
    <3>1. seen'[s] = Snapshot(version, s) /\ shown'[s] = Reading(db, s)
      BY <2>1, <2>3
    <3>2. ~Behind(s)'
      BY <2>1, <3>1 DEF Behind, Snapshot
    <3>3. \A k \in Watches[s] : seen'[s][k] <= version'[k]
      <4>1. \A k \in Watches[s] : version[k] \in Nat /\ seen'[s][k] = version[k]
        BY <1>0, <3>1, LocalStoreAssumption DEF Snapshot, TypeOK, Counters, LocalStoreAssumption
      <4>2. QED
        BY <2>1, <4>1
    <3>4. \A k \in Reads(s) : shown'[s][k] = View(db, k)
      BY <3>1 DEF Reading
    <3>5. QED
      BY <2>2, <3>2, <3>3, <3>4 DEF Fresh, Reads
  <2>4. CASE s # r
    BY <1>0, <2>1, <2>2, <2>4 DEF Fresh, Behind, Snapshot, Reads
  <2>5. QED
    BY <2>3, <2>4
<1>11. ASSUME NEW r \in Screen, Subscribe(r) PROVE Fresh(s)'
  <2>1. /\ UNCHANGED <<db, calls, before, version, half, untold, seen, shown>> /\ status[r] = "drawn"
        /\ woken' = woken \cup {q \in {r} : Snapshot(version, q) # seen[q]}
        /\ status' = [status EXCEPT ![r] = "on"]
        /\ status \in [Screen -> {"off", "drawn", "on"}]
    BY <1>0, <1>11 DEF Subscribe, txVars, TypeOK
  <2>2. Committed' = Committed /\ Hidden' = Hidden
    BY <2>1 DEF Committed, Hidden, Idle
  <2>3. Behind(s)' = Behind(s) /\ Reads(s)' = Reads(s)
    BY <2>1 DEF Behind, Snapshot, Reads
  <2>4. status'[s] = "on" /\ Behind(s) => s \in woken'
    BY <1>0, <2>1 DEF Fresh, Behind
  <2>5. QED
    BY <1>0, <2>1, <2>2, <2>3, <2>4 DEF Fresh
<1>12. ASSUME NEW r \in Screen, Unmount(r) PROVE Fresh(s)'
  <2>1. /\ UNCHANGED <<db, calls, before, version, half, untold>>
        /\ status' = [status EXCEPT ![r] = "off"]
        /\ seen' = [seen EXCEPT ![r] = Null] /\ shown' = [shown EXCEPT ![r] = Null]
        /\ woken' = woken \ {r}
        /\ DOMAIN seen = Screen /\ DOMAIN shown = Screen
        /\ status \in [Screen -> {"off", "drawn", "on"}]
    BY <1>0, <1>12 DEF Unmount, txVars, TypeOK
  <2>2. Committed' = Committed /\ Hidden' = Hidden
    BY <2>1 DEF Committed, Hidden, Idle
  <2>3. CASE s = r
    BY <2>1, <2>3 DEF Fresh
  <2>4. CASE s # r
    BY <1>0, <2>1, <2>2, <2>4 DEF Fresh, Behind, Snapshot, Reads
  <2>5. QED
    BY <2>3, <2>4
<1>13. CASE SaveStep \/ UNCHANGED vars
  <2>1. UNCHANGED <<db, calls, before, version, woken, screenVars, half, untold>>
    BY <1>13 DEF SaveStep, Flush, Store, PutSave, SaveFails, vars, txVars
  <2>2. Committed' = Committed /\ Hidden' = Hidden
    BY <2>1 DEF Committed, Hidden, Idle
  <2>3. QED
    BY <1>0, <2>1, <2>2, FreshIfSame DEF screenVars
<1>14. CASE Reload
  BY <1>14 DEF Reload, Fresh
<1>15. QED
  BY <1>2, <1>3, <1>4, <1>5, <1>6, <1>7, <1>8, <1>9, <1>10, <1>11, <1>12, <1>13, <1>14
     DEF Next, FlowStep, ScreenStep

LEMMA ScreenInvariant == Spec => []ScreenInv
<1>1. Init => ScreenInv
  BY TypesAtInit DEF Init, ScreenInv, FlowInv, Fresh
<1>2. ScreenInv /\ [Next]_vars => ScreenInv'
  BY TypesByNext, FlowByNext, FreshByNext DEF ScreenInv
<1>3. QED
  BY <1>1, <1>2, PTL DEF Spec

\* A subscribed screen that is not about to be drawn again shows what the
\* database holds, whatever it subscribes to and whenever it was written; but
\* for rows of a broken pull and swallowed writes of which nobody was told.
THEOREM ScreensAreFresh == Spec => []NoStaleScreen
<1>1. ScreenInv => NoStaleScreen
  BY DEF ScreenInv, NoStaleScreen, Fresh, Committed, Hidden
<1>2. QED
  BY <1>1, ScreenInvariant, PTL

\* A flow ends with nothing changed and nobody told, or with everything it wrote
\* committed and every screen that reads a part of it to be drawn again; but for
\* the writes whose error was swallowed.
THEOREM FlowsAreWhole == Spec => SilentOrWhole
<1> DEFINE
    Told ==
      \A s \in Screen : status[s] = "on" =>
        \A k \in Reads(s) \ (LostIn(before.db, db) \ touched) :
          View(db, k) # View(before.db, k) => s \in woken'
    Whole ==
      calls > 0 /\ calls' = 0 /\ reloads' = reloads =>
        (db' = before.db /\ version' = before.version) \/ (db' = db /\ Told)
<1>1. ASSUME ScreenInv, [Next]_vars, calls > 0, calls' = 0, reloads' = reloads
      PROVE  (db' = before.db /\ version' = before.version) \/ (db' = db /\ Told)
  <2>0. calls \in Nat /\ depth = calls /\ reloads \in Nat
    BY <1>1, LocalStoreAssumption DEF LocalStoreAssumption, ScreenInv, TypeOK
  <2>1. CASE Throw
    BY <1>1, <2>1 DEF Throw, ScreenInv, FlowInv
  <2>2. CASE Commit
    <3>1. /\ db' = db /\ Bump(touched) /\ step # "queue" /\ UNCHANGED <<status, seen>>
          /\ touched \in SUBSET Key /\ TypeOK
      BY <1>1, <2>2 DEF Commit, screenVars, ScreenInv, TypeOK
    <3>2. ASSUME NEW s \in Screen, status[s] = "on",
                 NEW k \in Reads(s) \ (LostIn(before.db, db) \ touched),
                 View(db, k) # View(before.db, k)
          PROVE  s \in woken'
      <4>2. k \in touched
        BY <1>1, <3>1, <3>2, ReadsAreKeys DEF ScreenInv, FlowInv
      <4>3. Behind(s)'
        BY <1>1, <3>1, <3>2, <4>2, BumpTells DEF ScreenInv
      <4>4. QED
        BY <1>1, <3>1, <3>2, <4>3, BumpTells DEF ScreenInv
    <3>3. QED
      BY <3>1, <3>2
  <2>3. CASE ~Throw /\ ~Commit
    <3>1. CASE (\E t \in Table : BeginWrite(t)) \/ BeginFlow
      BY <1>1, <2>0, <3>1 DEF BeginWrite, BeginFlow, OpenFrame
    <3>2. CASE (\E t \in Table : ExtraWrite(t) \/ RawWrite(t)) \/ RowStatement \/ AppendOutbox
      <4>1. calls' = calls
        BY <3>2 DEF ExtraWrite, RawWrite, RowStatement, AppendOutbox
      <4>2. QED
        BY <1>1, <2>0, <4>1
    <3>3. CASE LeaveNested \/ Swallow
      BY <1>1, <2>0, <3>3 DEF LeaveNested, Swallow
    <3>4. CASE (\E T \in SUBSET Table : PullApplies(T) \/ PullBreaks(T)) \/ ScreenStep
      <4>1. calls' = calls
        BY <3>4 DEF PullApplies, PullBreaks, ScreenStep, Mount, Subscribe, Draw, Unmount, txVars
      <4>2. QED
        BY <1>1, <2>0, <4>1
    <3>5. CASE SaveStep \/ UNCHANGED vars
      BY <1>1, <3>5 DEF SaveStep, Flush, Store, PutSave, SaveFails, vars, txVars
    <3>6. CASE Reload
      BY <1>1, <2>0, <3>6 DEF Reload
    <3>7. QED
      BY <1>1, <2>3, <3>1, <3>2, <3>3, <3>4, <3>5, <3>6 DEF Next, FlowStep
  <2>4. QED
    BY <2>1, <2>2, <2>3
<1>2. ScreenInv /\ [Next]_vars => [Whole]_vars
  BY <1>1
<1>3. QED
  BY <1>2, ScreenInvariant, PTL DEF Spec, SilentOrWhole

--------------------------------------------------------------------------------
(* The snapshots. *)

Now == IF Idle THEN db ELSE begun

\* What is committed is one of the contents committed since the page was
\* loaded, and so is what a save carries.
SaveInv ==
  /\ Now \in past
  /\ \A x \in Slot : save[x] = {} \/ \E c \in past : save[x] = {c}

LEMMA SaveStepByStep ==
  TypeOK /\ SaveInv /\ [Next]_vars =>
    SaveInv' /\ [Contents!Next]_<<Now, past, stored>>
<1> SUFFICES ASSUME TypeOK, SaveInv, [Next]_vars
             PROVE  SaveInv' /\ [Contents!Next]_<<Now, past, stored>>
  OBVIOUS
<1>0. /\ db \in Content /\ calls \in Nat /\ depth = calls
      /\ save \in [Slot -> SUBSET Content] /\ past \subseteq Content
  BY LocalStoreAssumption DEF LocalStoreAssumption, TypeOK
<1>1. ASSUME UNCHANGED <<Now, past, stored, save>>
      PROVE  SaveInv' /\ [Contents!Next]_<<Now, past, stored>>
  BY <1>1 DEF SaveInv
<1>2. ASSUME Now' \in Content, past' = past \cup {Now'}, UNCHANGED <<stored, save>>
      PROVE  SaveInv' /\ [Contents!Next]_<<Now, past, stored>>
  <2>1. Contents!Commit
    BY <1>2 DEF Contents!Commit, Now
  <2>2. SaveInv'
    BY <1>2 DEF SaveInv
  <2>3. QED
    BY <2>1, <2>2 DEF Contents!Next
<1>3. CASE BeginFlow \/ \E t \in Table : BeginWrite(t)
  <2>1. OpenFrame /\ UNCHANGED <<db, past, stored, save>>
    BY <1>3 DEF BeginFlow, BeginWrite, saveVars, orderVars
  <2>2. Now' = Now
    BY <1>0, <2>1 DEF OpenFrame, Now, Idle
  <2>3. QED
    BY <1>1, <2>1, <2>2
<1>4. CASE (\E t \in Table : ExtraWrite(t)) \/ RowStatement \/ AppendOutbox
           \/ LeaveNested \/ Swallow
  <2>1. step # "out" => calls > 0
    BY DEF TypeOK
  <2>2. calls > 0 /\ calls' > 0 /\ UNCHANGED <<begun, past, stored, save>>
    <3>1. CASE LeaveNested \/ Swallow
      BY <1>0, <3>1 DEF LeaveNested, Swallow, saveVars, orderVars
    <3>2. CASE (\E t \in Table : ExtraWrite(t)) \/ RowStatement \/ AppendOutbox
      BY <1>0, <2>1, <3>2 DEF ExtraWrite, RowStatement, AppendOutbox, saveVars, orderVars
    <3>3. QED
      BY <1>4, <3>1, <3>2
  <2>3. Now' = Now
    BY <2>2 DEF Now, Idle
  <2>4. QED
    BY <1>1, <2>2, <2>3
<1>5. CASE Throw
  <2>1. calls > 0 /\ calls' = 0 /\ db' = begun /\ UNCHANGED <<past, stored, save>>
    BY <1>5 DEF Throw, saveVars, orderVars
  <2>2. Now' = Now
    BY <2>1 DEF Now, Idle
  <2>3. QED
    BY <1>1, <2>1, <2>2
<1>6. CASE Commit
  <2>1. calls' = 0 /\ db' = db /\ past' = past \cup {db} /\ UNCHANGED <<stored, save>>
    BY <1>6 DEF Commit, saveVars, orderVars
  <2>2. Now' = db
    BY <2>1 DEF Now, Idle
  <2>3. QED
    BY <1>0, <1>2, <2>1, <2>2
<1>7. ASSUME db' \in Content, Idle, calls' = calls, past' = past \cup {db'},
             UNCHANGED <<stored, save>>
      PROVE  SaveInv' /\ [Contents!Next]_<<Now, past, stored>>
  <2>1. Now' = db'
    BY <1>7 DEF Now, Idle
  <2>2. QED
    BY <1>2, <1>7, <2>1
<1>8. ASSUME NEW t \in Table, RawWrite(t)
      PROVE  SaveInv' /\ [Contents!Next]_<<Now, past, stored>>
  <2>1. db' \in Content
    BY <1>0, <1>8, CountedIsContent DEF RawWrite
  <2>2. QED
    BY <1>7, <1>8, <2>1 DEF RawWrite, saveVars, orderVars
<1>9. ASSUME NEW T \in SUBSET Table, PullApplies(T) \/ PullBreaks(T)
      PROVE  SaveInv' /\ [Contents!Next]_<<Now, past, stored>>
  <2>1. db' \in Content
    BY <1>0, <1>9, RowsAreContent DEF PullApplies, PullBreaks
  <2>2. QED
    BY <1>7, <1>9, <2>1 DEF PullApplies, PullBreaks, txVars, saveVars, orderVars
<1>10. CASE ScreenStep \/ UNCHANGED vars
  <2>1. UNCHANGED <<db, calls, begun, past, stored, save>>
    BY <1>10 DEF ScreenStep, Mount, Subscribe, Draw, Unmount, vars, txVars, saveVars, orderVars
  <2>2. QED
    BY <1>1, <2>1 DEF Now, Idle
<1>11. ASSUME NEW x \in Slot, Flush(x)
       PROVE  SaveInv' /\ [Contents!Next]_<<Now, past, stored>>
  <2>1. /\ Idle /\ save' = [save EXCEPT ![x] = {db}]
        /\ UNCHANGED <<db, calls, begun, past, stored>>
    BY <1>11 DEF Flush, txVars
  <2>2. Now = db /\ Now' = Now
    BY <2>1 DEF Now, Idle
  <2>3. SaveInv'
    BY <1>0, <2>1, <2>2 DEF SaveInv
  <2>4. QED
    BY <2>1, <2>2, <2>3
<1>12. ASSUME NEW x \in Slot, Store(x)
       PROVE  SaveInv' /\ [Contents!Next]_<<Now, past, stored>>
  <2>1. /\ save[x] # {} /\ stored' = save[x] /\ save' = [save EXCEPT ![x] = {}]
        /\ UNCHANGED <<db, calls, begun, past>>
    BY <1>12 DEF Store, PutSave, EndSave, txVars
  <2>2. Now' = Now
    BY <2>1 DEF Now, Idle
  <2>3. Contents!Keep
    BY <2>1, <2>2 DEF SaveInv, Contents!Keep, Now
  <2>4. SaveInv'
    BY <1>0, <2>1, <2>2 DEF SaveInv
  <2>5. QED
    BY <2>3, <2>4 DEF Contents!Next
<1>13. ASSUME NEW x \in Slot, SaveFails(x)
       PROVE  SaveInv' /\ [Contents!Next]_<<Now, past, stored>>
  <2>1. /\ save' = [save EXCEPT ![x] = {}]
        /\ UNCHANGED <<db, calls, begun, past, stored>>
    BY <1>13 DEF SaveFails, EndSave, txVars
  <2>2. Now' = Now
    BY <2>1 DEF Now, Idle
  <2>3. SaveInv'
    BY <1>0, <2>1, <2>2 DEF SaveInv
  <2>4. QED
    BY <2>1, <2>2, <2>3
<1>14. CASE Reload
  <2>1. PICK c \in stored \cup {Empty} : db' = c /\ past' = {c}
    BY <1>14 DEF Reload
  <2>2. /\ Now' = c /\ UNCHANGED stored /\ save' = [x \in Slot |-> {}]
    BY <1>14, <2>1 DEF Reload, Now, Idle
  <2>3. Contents!Start
    BY <2>1, <2>2 DEF Contents!Start, Now
  <2>4. SaveInv'
    BY <2>1, <2>2 DEF SaveInv
  <2>5. QED
    BY <2>3, <2>4 DEF Contents!Next
<1>15. QED
  BY <1>3, <1>4, <1>5, <1>6, <1>8, <1>9, <1>10, <1>11, <1>12, <1>13, <1>14
     DEF Next, FlowStep, SaveStep

\* The local database implements the abstract store: what a start finds was
\* committed as a whole since the start before, or is nothing.
THEOREM StoreIsWhole == Spec => StoresWhole
<1>1. Init => TypeOK /\ SaveInv /\ Contents!Init
  BY TypesAtInit DEF Init, SaveInv, Now, Idle, Contents!Init
<1>2. TypeOK /\ SaveInv /\ [Next]_vars => (TypeOK /\ SaveInv)'
  BY TypesByNext, SaveStepByStep
<1>3. TypeOK /\ SaveInv /\ [Next]_vars => [Contents!Next]_(Contents!vars)
  BY SaveStepByStep DEF Contents!vars, Now
<1>4. QED
  BY <1>1, <1>2, <1>3, PTL DEF Spec, StoresWhole, Contents!Spec
================================================================================
