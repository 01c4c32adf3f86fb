----------------------------- MODULE Vehicles_proof -----------------------------
(***************************************************************************)
(* Three theorems about Vehicles, for any people, sessions, handlers and   *)
(* bounds: its types, that the lock changes only in the name of somebody   *)
(* entitled to change it, and that a session somebody ended is closed once *)
(* all is delivered.                                                       *)
(*                                                                         *)
(* The second needs more than the types, because the guard and the         *)
(* statement are two steps: that what the guard found still holds of the   *)
(* entry that is written next (Checked), for which that entry must be the  *)
(* only one of its number (Numbered).  The third needs that every end      *)
(* either waits in a queue or has come to something (EndsKept), and that a *)
(* handler reports only ends that have (Reported).                         *)
(***************************************************************************)
EXTENDS Vehicles, TLAPS

\* No two of the entries have the same number, and none a number to come.
Distinct(S) == \A x, y \in S : x.id = y.id => x = y
Past(S)     == \A x \in S : x.id <= writes
First(e, S) == \A x \in S : e.id <= x.id

Numbered == \A p \in Person : Distinct(queue[p]) /\ Past(queue[p])

\* A change of the lock that a handler in state s is about to write passed
\* the guard.
Passed(s, e) ==
  e.op \in {"state", "row"} /\ e.lock.on # s.saw.on => MayLift(s.by, s.saw)

Sound(s) ==
  s # Rest =>
    /\ Distinct(s.todo)
    /\ s.pc = "write" => \A e \in s.todo : First(e, s.todo) => Passed(s, e)

Checked == \A h \in Handler : Sound(handler[h])

IInv == TypeOK /\ Numbered /\ Checked

-----------------------------------------------------------------------------
(* Types.                                                                  *)

LEMMA UnlockedTyped == Unlocked \in Lock
  BY DEF Unlocked, Lock

LEMMA RestNotActive == Rest \notin Active
  BY DEF Rest, Active

\* What an entry carries.
LEMMA EntryFields ==
  ASSUME NEW e \in Entry
  PROVE  /\ e.id \in Nat
         /\ e.op \in {"state", "row", "open", "close"}
         /\ e.op \in {"state", "row"} => e.lock \in Lock
         /\ e.op = "row" => e.lock = Unlocked
         /\ e.op \in {"open", "close"} => e.session \in Session
  BY UnlockedTyped DEF Entry

LEMMA StateEntryTyped ==
  ASSUME writes \in Nat, NEW l \in Lock
  PROVE  /\ StateEntry("state", l) \in Entry
         /\ StateEntry("row", Unlocked) \in Entry
         /\ StateEntry("state", l).id = writes + 1
         /\ StateEntry("row", Unlocked).id = writes + 1
  BY DEF StateEntry, Entry

LEMMA SessionEntryTyped ==
  ASSUME writes \in Nat, NEW n \in Nat, NEW op \in {"open", "close"},
         NEW s \in Session
  PROVE  SessionEntry(n, op, s) \in Entry /\ SessionEntry(n, op, s).id = writes + n
  BY DEF SessionEntry, Entry

LEMMA QueueTyped ==
  ASSUME TypeOK, NEW p \in Person, NEW es \in SUBSET Entry, NEW n \in Nat,
         Queue(p, es, n)
  PROVE  writes' \in 0..MaxWrites /\ queue' \in [Person -> SUBSET Entry]
  BY VehiclesAssumption DEF VehiclesAssumption, TypeOK, Queue

LEMMA SaveStateTyped ==
  ASSUME TypeOK, NEW p \in Person, NEW l \in Lock, SaveState(p, l)
  PROVE  TypeOK'
<1>1. writes \in Nat
  BY VehiclesAssumption DEF VehiclesAssumption, TypeOK
<1>2. {StateEntry("state", l)} \in SUBSET Entry
  BY <1>1, StateEntryTyped
<1>3. writes' \in 0..MaxWrites /\ queue' \in [Person -> SUBSET Entry]
  BY <1>2, QueueTyped DEF SaveState
<1>4. copy' \in [Person -> Lock]
  BY DEF SaveState, TypeOK
<1> QED BY <1>3, <1>4 DEF SaveState, TypeOK, server, history

\* A handler that is busy has entries of the right type, and stays typed when
\* it decides one, goes on to its statement, or leaves it for another request.
LEMMA AtWork ==
  ASSUME TypeOK, NEW h \in Handler, Busy(h)
  PROVE  /\ handler[h] \in Active
         /\ handler[h].by \in Person
         /\ handler[h].todo \in SUBSET Entry
         /\ handler[h].saw \in Lock
  BY DEF TypeOK, Busy, Active

LEMMA GotoTyped ==
  ASSUME TypeOK, NEW h \in Handler, NEW s \in Active \cup {Rest}, Goto(h, s)
  PROVE  handler' \in [Handler -> {Rest} \cup Active]
  BY DEF TypeOK, Goto

LEMMA DecideTyped ==
  ASSUME TypeOK, NEW h \in Handler, Busy(h), NEW e \in handler[h].todo, Decide(h, e)
  PROVE  handler' \in [Handler -> {Rest} \cup Active]
<1>1. handler[h] \in Active /\ e \in Entry
  BY AtWork
<1>2. [handler[h] EXCEPT !.pc = "guard", !.saw = Unlocked, !.todo = @ \ {e},
         !.decided = @ \cup {x \in {e} : handler[h].heard}] \in Active
  BY <1>1, UnlockedTyped DEF Active
<1> QED BY <1>2, GotoTyped DEF Decide

LEMMA ProceedTyped ==
  ASSUME TypeOK, NEW h \in Handler, Busy(h), NEW l \in Lock, Proceed(h, l)
  PROVE  handler' \in [Handler -> {Rest} \cup Active]
<1>1. [handler[h] EXCEPT !.pc = "write", !.saw = l] \in Active
  BY AtWork DEF Active
<1> QED BY <1>1, GotoTyped DEF Proceed

LEMMA LockerTyped ==
  ASSUME TypeOK, NEW h \in Handler, Busy(h), NEW e \in handler[h].todo,
         e.op \in {"state", "row"}
  PROVE  /\ [on |-> e.lock.on, by |-> Locker(h, e)] \in Lock
         /\ e.lock.on = handler[h].saw.on =>
              Locker(h, e) = IF e.op = "state" THEN handler[h].saw.by ELSE lock.by
<1>0. /\ handler[h].by \in Person
      /\ handler[h].saw \in Lock
      /\ lock \in Lock
      /\ e.lock \in Lock
      /\ e.op = "row" => e.lock.on = FALSE
  BY AtWork, EntryFields DEF TypeOK, Unlocked
<1>1. e.lock.on \in BOOLEAN /\ handler[h].saw.on \in BOOLEAN
  BY <1>0 DEF Lock
<1>2. handler[h].by # NoOne
  BY <1>0, VehiclesAssumption DEF VehiclesAssumption
<1>3. CASE e.lock.on /\ ~handler[h].saw.on
  <2>1. Locker(h, e) = handler[h].by
    BY <1>0, <1>1, <1>3 DEF Locker, Lock
  <2> QED BY <2>1, <1>0, <1>1, <1>2, <1>3 DEF Lock
<1>4. CASE e.lock.on = handler[h].saw.on /\ e.op = "state"
  <2>1. Locker(h, e) = handler[h].saw.by
    BY <1>0, <1>1, <1>4 DEF Locker, Lock
  <2> QED BY <2>1, <1>0, <1>1, <1>4 DEF Lock
<1>5. CASE e.op = "row"
  <2>1. Locker(h, e) = lock.by
    BY <1>0, <1>1, <1>5 DEF Locker, Lock
  <2> QED BY <2>1, <1>0, <1>1, <1>5 DEF Lock
<1>6. CASE ~e.lock.on /\ handler[h].saw.on /\ e.op = "state"
  <2>1. Locker(h, e) = e.lock.by
    BY <1>0, <1>1, <1>6 DEF Locker, Lock
  <2> QED BY <2>1, <1>0, <1>1, <1>6 DEF Lock
<1> QED BY <1>0, <1>1, <1>3, <1>4, <1>5, <1>6 DEF Lock

LEMMA TypesAtInit == Init => TypeOK
  BY VehiclesAssumption, UnlockedTyped DEF VehiclesAssumption, Init, TypeOK, Phase

LEMMA TypesByUser ==
  ASSUME TypeOK, NEW p \in Person, User(p)
  PROVE  TypeOK'
<1> USE DEF server, local, counts, history
<1>0. writes \in Nat /\ 1 \in Nat /\ 2 \in Nat
  BY VehiclesAssumption DEF VehiclesAssumption, TypeOK
<1>1. CASE Ensure(p)
  <2>1. {StateEntry("row", Unlocked)} \in SUBSET Entry
    BY <1>0, StateEntryTyped, UnlockedTyped
  <2>2. writes' \in 0..MaxWrites /\ queue' \in [Person -> SUBSET Entry]
    BY <1>0, <1>1, <2>1, QueueTyped DEF Ensure
  <2> QED BY <1>1, <2>2 DEF Ensure, TypeOK
<1>2. CASE Edit(p)
  BY <1>2, SaveStateTyped DEF Edit, TypeOK
<1>3. CASE LockOn(p)
  <2>1. [on |-> TRUE, by |-> p] \in Lock
    BY VehiclesAssumption DEF VehiclesAssumption, Lock
  <2> QED BY <1>3, <2>1, SaveStateTyped DEF LockOn
<1>4. CASE LockOff(p)
  BY <1>4, UnlockedTyped, SaveStateTyped DEF LockOff
<1>5. ASSUME NEW s \in Session, CheckOut(p, s) PROVE TypeOK'
  <2>1. {SessionEntry(1, "open", s)} \in SUBSET Entry
    BY <1>0, SessionEntryTyped
  <2>2. writes' \in 0..MaxWrites /\ queue' \in [Person -> SUBSET Entry]
    BY <1>0, <1>5, <2>1, QueueTyped DEF CheckOut
  <2> QED BY <1>5, <2>2 DEF CheckOut, TypeOK, Phase
<1>6. ASSUME NEW s \in Session, CheckIn(p, s) PROVE TypeOK'
  <2>1. {SessionEntry(1, "close", s)} \in SUBSET Entry
    BY <1>0, SessionEntryTyped
  <2>2. writes' \in 0..MaxWrites /\ queue' \in [Person -> SUBSET Entry]
    BY <1>0, <1>6, <2>1, QueueTyped DEF CheckIn
  <2> QED BY <1>6, <2>2 DEF CheckIn, TypeOK, Phase
<1>7. ASSUME NEW s \in Session, NEW t \in Session, TakeOver(p, t, s) PROVE TypeOK'
  <2>1. {SessionEntry(1, "close", t), SessionEntry(2, "open", s)} \in SUBSET Entry
    BY <1>0, SessionEntryTyped
  <2>2. writes' \in 0..MaxWrites /\ queue' \in [Person -> SUBSET Entry]
    BY <1>0, <1>7, <2>1, QueueTyped DEF TakeOver
  <2> QED BY <1>7, <2>2 DEF TakeOver, TypeOK, Phase
<1> QED BY <1>1, <1>2, <1>3, <1>4, <1>5, <1>6, <1>7 DEF User

LEMMA PullTyped ==
  ASSUME TypeOK, NEW p \in Person, Pull(p)
  PROVE  TypeOK'
<1>1. copy' \in [Person -> Lock]
  BY DEF Pull, TypeOK
<1>2. PICK new \in SUBSET Session :
        known' = [known EXCEPT ![p] =
                   [s \in Session |-> IF s \in new THEN session[s] ELSE known[p][s]]]
  BY DEF Pull
<1>3. known' \in [Person -> [Session -> Phase]]
  BY <1>2 DEF TypeOK
<1> QED BY <1>1, <1>3 DEF Pull, TypeOK, server, counts, history

LEMMA PostTyped ==
  ASSUME TypeOK, NEW p \in Person, NEW h \in Handler, Post(p, h)
  PROVE  TypeOK'
<1>1. [pc |-> "guard", by |-> p, todo |-> queue[p], decided |-> {},
       saw |-> Unlocked, heard |-> TRUE] \in Active
  BY UnlockedTyped DEF Active, TypeOK
<1>2. ASSUME NEW g \in Handler PROVE Given(p, g) \in {Rest} \cup Active
  <2>1. CASE Busy(g) /\ handler[g].by = p
    <3>1. [handler[g] EXCEPT !.heard = FALSE, !.decided = {}] \in Active
      BY <2>1, AtWork DEF Active
    <3> QED BY <2>1, <3>1 DEF Given
  <2>2. CASE ~(Busy(g) /\ handler[g].by = p)
    BY <2>2 DEF Given, TypeOK
  <2> QED BY <2>1, <2>2
<1>3. handler' \in [Handler -> {Rest} \cup Active]
  BY <1>1, <1>2 DEF Post
<1>4. posts' \in 0..MaxPosts
  BY VehiclesAssumption DEF VehiclesAssumption, Post, TypeOK
<1> QED BY <1>3, <1>4 DEF Post, TypeOK, server, local, history

LEMMA FaultTyped ==
  ASSUME TypeOK, Fault
  PROVE  faults' \in 0..MaxFaults
  BY VehiclesAssumption DEF VehiclesAssumption, TypeOK, Fault

LEMMA EndTyped ==
  ASSUME TypeOK, NEW h \in Handler, Dies(h) \/ Answer(h)
  PROVE  TypeOK'
<1>1. CASE Dies(h)
  <2>1. handler' \in [Handler -> {Rest} \cup Active]
    BY <1>1, GotoTyped DEF Dies
  <2> QED BY <1>1, <2>1, FaultTyped DEF Dies, TypeOK, server, local, history
<1>2. CASE Answer(h)
  <2>1. handler' \in [Handler -> {Rest} \cup Active]
    BY <1>2, GotoTyped DEF Answer
  <2>2. queue' \in [Person -> SUBSET Entry]
    BY <1>2 DEF Answer, TypeOK
  <2> QED BY <1>2, <2>1, <2>2 DEF Answer, TypeOK, server, local, counts, history
<1> QED BY <1>1, <1>2

LEMMA TypesByServe ==
  ASSUME TypeOK, NEW h \in Handler, Busy(h), NEW e \in handler[h].todo, Serve(h, e)
  PROVE  TypeOK'
<1> USE VehiclesAssumption DEF VehiclesAssumption, server, local, counts, history
<1>0. e \in Entry /\ (e.op \in {"open", "close"} => e.session \in Session)
  BY AtWork, EntryFields
<1>1. CASE GuardState(h, e)
  <2>1. handler' \in [Handler -> {Rest} \cup Active]
    BY <1>1, DecideTyped, ProceedTyped DEF GuardState, TypeOK
  <2> QED BY <1>1, <2>1 DEF GuardState, TypeOK
<1>2. CASE GuardClose(h, e)
  <2>1. handler' \in [Handler -> {Rest} \cup Active]
    BY <1>2, DecideTyped, ProceedTyped, UnlockedTyped DEF GuardClose
  <2>2. lost' \subseteq Session
    BY <1>0, <1>2 DEF GuardClose, TypeOK
  <2> QED BY <1>2, <2>1, <2>2 DEF GuardClose, TypeOK
<1>3. CASE GuardFails(h, e)
  <2>1. handler' \in [Handler -> {Rest} \cup Active]
    BY <1>3, DecideTyped DEF GuardFails
  <2>2. lost' \subseteq Session
    BY <1>0, <1>3 DEF GuardFails, TypeOK
  <2> QED BY <1>3, <2>1, <2>2, FaultTyped DEF GuardFails, TypeOK
<1>4. CASE WriteState(h, e)
  <2>1. handler' \in [Handler -> {Rest} \cup Active]
    BY <1>4, DecideTyped DEF WriteState
  <2>2. lock' \in Lock
    BY <1>4, LockerTyped DEF WriteState
  <2> QED BY <1>4, <2>1, <2>2 DEF WriteState, TypeOK
<1>5. CASE WriteOpen(h, e)
  <2>1. handler' \in [Handler -> {Rest} \cup Active]
    BY <1>5, DecideTyped DEF WriteOpen
  <2>2. session' \in [Session -> Phase] /\ reopened' \subseteq Session
    BY <1>0, <1>5 DEF WriteOpen, TypeOK, Phase
  <2> QED BY <1>5, <2>1, <2>2 DEF WriteOpen, TypeOK
<1>6. CASE WriteClose(h, e)
  <2>1. handler' \in [Handler -> {Rest} \cup Active]
    BY <1>6, DecideTyped DEF WriteClose
  <2>2. session' \in [Session -> Phase] /\ reopened' \subseteq Session
    BY <1>6 DEF WriteClose, TypeOK, Phase
  <2> QED BY <1>6, <2>1, <2>2 DEF WriteClose, TypeOK
<1>7. CASE WriteFails(h, e)
  <2>1. [handler[h] EXCEPT !.pc = "guard", !.saw = Unlocked, !.todo = @ \ {e}] \in Active
    BY AtWork, UnlockedTyped DEF Active
  <2>2. handler' \in [Handler -> {Rest} \cup Active]
    BY <1>7, <2>1, GotoTyped DEF WriteFails
  <2> QED BY <1>7, <2>2, FaultTyped DEF WriteFails, TypeOK
<1> QED BY <1>1, <1>2, <1>3, <1>4, <1>5, <1>6, <1>7 DEF Serve

LEMMA TypesByNext == TypeOK /\ [Next]_vars => TypeOK'
<1> SUFFICES ASSUME TypeOK, [Next]_vars PROVE TypeOK'
  OBVIOUS
<1>1. ASSUME NEW p \in Person, User(p) \/ Pull(p) \/ \E h \in Handler : Post(p, h)
      PROVE  TypeOK'
  BY <1>1, TypesByUser, PullTyped, PostTyped
<1>2. ASSUME NEW h \in Handler, Dies(h) \/ Answer(h)
      PROVE  TypeOK'
  BY <1>2, EndTyped
<1>3. ASSUME NEW h \in Handler, Busy(h), NEW e \in handler[h].todo, Serve(h, e)
      PROVE  TypeOK'
  BY <1>3, TypesByServe
<1>4. CASE UNCHANGED vars
  BY <1>4 DEF vars, server, local, counts, history, TypeOK
<1> QED BY <1>1, <1>2, <1>3, <1>4 DEF Next

\* The types, for any number of people, sessions, handlers and faults.
THEOREM TypeCorrect == Spec => []TypeOK
  BY TypesAtInit, TypesByNext, PTL DEF Spec

-----------------------------------------------------------------------------
(* The numbers of the entries.                                             *)

LEMMA OnlyFirst ==
  ASSUME NEW S \in SUBSET Entry, Distinct(S), NEW e \in S, NEW x \in S,
         First(e, S), First(x, S)
  PROVE  x = e
<1>1. e.id \in Nat /\ x.id \in Nat /\ e.id <= x.id /\ x.id <= e.id
  BY EntryFields DEF First
<1> QED BY <1>1 DEF Distinct

LEMMA QueueNumbered ==
  ASSUME TypeOK, Numbered, NEW p \in Person, NEW es \in SUBSET Entry, NEW n \in Nat,
         Distinct(es), \A x \in es : x.id > writes /\ x.id <= writes + n,
         Queue(p, es, n)
  PROVE  Numbered'
<1>1. writes \in Nat /\ writes' = writes + n
  BY VehiclesAssumption DEF VehiclesAssumption, TypeOK, Queue
<1>2. ASSUME NEW q \in Person PROVE Distinct(queue'[q]) /\ Past(queue[q])'
  <2>1. /\ queue[q] \in SUBSET Entry
        /\ \A x \in queue[q] : x.id \in Nat
        /\ \A x \in es : x.id \in Nat
    BY EntryFields DEF TypeOK
  <2>2. Distinct(queue[q]) /\ \A x \in queue[q] : x.id <= writes
    BY DEF Numbered, Past
  <2>3. CASE q = p
    <3>1. queue'[q] = queue[q] \cup es
      BY <2>3 DEF Queue, TypeOK
    <3>2. \A x \in queue[q] : \A y \in es : x.id # y.id
      BY <1>1, <2>1, <2>2
    <3>3. Distinct(queue'[q])
      BY <2>2, <3>1, <3>2 DEF Distinct
    <3>4. \A x \in queue'[q] : x.id <= writes'
      BY <1>1, <2>1, <2>2, <3>1
    <3> QED BY <3>3, <3>4 DEF Past
  <2>4. CASE q # p
    <3>1. queue'[q] = queue[q]
      BY <2>4 DEF Queue, TypeOK
    <3>2. \A x \in queue'[q] : x.id <= writes'
      BY <1>1, <2>1, <2>2, <3>1
    <3> QED BY <2>2, <3>1, <3>2 DEF Past
  <2> QED BY <2>3, <2>4
<1> QED BY <1>2 DEF Numbered

LEMMA SaveStateNumbered ==
  ASSUME TypeOK, Numbered, NEW p \in Person, NEW l \in Lock, SaveState(p, l)
  PROVE  Numbered'
<1>1. writes \in Nat
  BY VehiclesAssumption DEF VehiclesAssumption, TypeOK
<1>2. /\ {StateEntry("state", l)} \in SUBSET Entry
      /\ Distinct({StateEntry("state", l)})
      /\ \A x \in {StateEntry("state", l)} : x.id > writes /\ x.id <= writes + 1
  BY <1>1, StateEntryTyped DEF Distinct
<1> QED BY <1>2, QueueNumbered DEF SaveState

LEMMA NumberedByUser ==
  ASSUME TypeOK, Numbered, NEW p \in Person, User(p)
  PROVE  Numbered'
<1>0. writes \in Nat /\ 1 \in Nat /\ 2 \in Nat
  BY VehiclesAssumption DEF VehiclesAssumption, TypeOK
<1>1. CASE Ensure(p)
  <2>1. /\ {StateEntry("row", Unlocked)} \in SUBSET Entry
        /\ Distinct({StateEntry("row", Unlocked)})
        /\ \A x \in {StateEntry("row", Unlocked)} : x.id > writes /\ x.id <= writes + 1
    BY <1>0, StateEntryTyped, UnlockedTyped DEF Distinct
  <2> QED BY <1>0, <1>1, <2>1, QueueNumbered DEF Ensure
<1>2. CASE Edit(p)
  BY <1>2, SaveStateNumbered DEF Edit, TypeOK
<1>3. CASE LockOn(p)
  <2>1. [on |-> TRUE, by |-> p] \in Lock
    BY VehiclesAssumption DEF VehiclesAssumption, Lock
  <2> QED BY <1>3, <2>1, SaveStateNumbered DEF LockOn
<1>4. CASE LockOff(p)
  BY <1>4, UnlockedTyped, SaveStateNumbered DEF LockOff
<1>5. ASSUME NEW s \in Session, NEW op \in {"open", "close"},
             Queue(p, {SessionEntry(1, op, s)}, 1)
      PROVE  Numbered'
  <2>1. /\ {SessionEntry(1, op, s)} \in SUBSET Entry
        /\ Distinct({SessionEntry(1, op, s)})
        /\ \A x \in {SessionEntry(1, op, s)} : x.id > writes /\ x.id <= writes + 1
    BY <1>0, SessionEntryTyped DEF Distinct
  <2> QED BY <1>0, <1>5, <2>1, QueueNumbered
<1>6. ASSUME NEW s \in Session, CheckOut(p, s) \/ CheckIn(p, s) PROVE Numbered'
  BY <1>5, <1>6 DEF CheckOut, CheckIn
<1>7. ASSUME NEW s \in Session, NEW t \in Session, TakeOver(p, t, s) PROVE Numbered'
  <2> DEFINE a == SessionEntry(1, "close", t)
             b == SessionEntry(2, "open", s)
  <2>1. a \in Entry /\ b \in Entry /\ a.id = writes + 1 /\ b.id = writes + 2
    BY <1>0, SessionEntryTyped
  <2>2. Queue(p, {a, b}, 2)
    BY <1>7 DEF TakeOver
  <2> HIDE DEF a, b
  <2>3. Distinct({a, b}) /\ \A x \in {a, b} : x.id > writes /\ x.id <= writes + 2
    BY <1>0, <2>1 DEF Distinct
  <2> QED BY <1>0, <2>1, <2>2, <2>3, QueueNumbered
<1> QED BY <1>1, <1>2, <1>3, <1>4, <1>6, <1>7 DEF User

\* Numbers are given on the devices only; an answer takes entries away.
LEMMA NumberedElsewhere ==
  ASSUME TypeOK, Numbered, writes' = writes,
         \A p \in Person : queue'[p] \subseteq queue[p]
  PROVE  Numbered'
  BY DEF Numbered, Distinct, Past

-----------------------------------------------------------------------------
(* What the handlers have checked.                                         *)

LEMMA OthersSound ==
  ASSUME TypeOK, Checked, NEW h \in Handler, NEW s, Goto(h, s), Sound(s)
  PROVE  Checked'
<1>1. \A g \in Handler : handler'[g] = IF g = h THEN s ELSE handler[g]
  BY DEF Goto, TypeOK
<1>2. \A g \in Handler : Sound(handler'[g])
  BY <1>1 DEF Checked
<1> QED BY <1>2 DEF Checked

\* At a guard there is nothing to have checked.
LEMMA GuardSound ==
  ASSUME NEW s \in Active, s.pc = "guard", Distinct(s.todo)
  PROVE  Sound(s)
  BY DEF Sound

LEMMA DecideSound ==
  ASSUME TypeOK, Checked, NEW h \in Handler, Busy(h), NEW e \in handler[h].todo,
         Decide(h, e)
  PROVE  Checked'
<1> DEFINE s == [handler[h] EXCEPT !.pc = "guard", !.saw = Unlocked, !.todo = @ \ {e},
                   !.decided = @ \cup {x \in {e} : handler[h].heard}]
<1>1. s.pc = "guard" /\ s.todo = handler[h].todo \ {e}
  BY AtWork DEF Active
<1>2. Distinct(handler[h].todo)
  BY DEF Checked, Sound, Busy
<1>3. Sound(s)
  BY <1>1, <1>2 DEF Sound, Distinct
<1> QED BY <1>3, OthersSound DEF Decide

LEMMA ProceedSound ==
  ASSUME TypeOK, Checked, NEW h \in Handler, Busy(h), NEW e \in handler[h].todo,
         Comes(h, e), NEW l \in Lock, Proceed(h, l),
         e.op \in {"state", "row"} /\ e.lock.on # l.on => MayLift(handler[h].by, l)
  PROVE  Checked'
<1> DEFINE s == [handler[h] EXCEPT !.pc = "write", !.saw = l]
<1>1. s.todo = handler[h].todo /\ s.by = handler[h].by /\ s.saw = l
  BY AtWork DEF Active
<1>2. Distinct(handler[h].todo)
  BY DEF Checked, Sound, Busy
<1>3. Goto(h, s)
  BY DEF Proceed
<1> HIDE DEF s
<1>4. First(e, handler[h].todo) /\ handler[h].todo \in SUBSET Entry
  BY AtWork DEF Comes, First
<1>5. ASSUME NEW x \in s.todo, First(x, s.todo) PROVE Passed(s, x)
  <2>1. x = e
    BY <1>1, <1>2, <1>4, <1>5, OnlyFirst
  <2> QED BY <1>1, <2>1 DEF Passed
<1>6. Sound(s)
  BY <1>1, <1>2, <1>5 DEF Sound
<1> QED BY <1>3, <1>6, OthersSound

LEMMA CheckedByServe ==
  ASSUME TypeOK, Checked, NEW h \in Handler, Busy(h), NEW e \in handler[h].todo,
         Serve(h, e)
  PROVE  Checked'
<1>1. CASE Decide(h, e)
  BY <1>1, DecideSound
<1>2. CASE GuardState(h, e) /\ ~Decide(h, e)
  <2>1. Proceed(h, lock) /\ ~(e.lock.on # lock.on /\ ~MayLift(handler[h].by, lock))
    BY <1>2 DEF GuardState
  <2> QED BY <1>2, <2>1, ProceedSound DEF GuardState, TypeOK
<1>3. CASE GuardClose(h, e) /\ ~Decide(h, e)
  <2>1. Proceed(h, Unlocked) /\ e.op = "close"
    BY <1>3 DEF GuardClose
  <2> QED BY <1>3, <2>1, UnlockedTyped, ProceedSound DEF GuardClose
<1>4. CASE WriteFails(h, e)
  <2> DEFINE s == [handler[h] EXCEPT !.pc = "guard", !.saw = Unlocked, !.todo = @ \ {e}]
  <2>1. s.pc = "guard" /\ s.todo = handler[h].todo \ {e}
    BY AtWork DEF Active
  <2>2. Distinct(handler[h].todo)
    BY DEF Checked, Sound, Busy
  <2>3. Sound(s)
    BY <2>1, <2>2 DEF Sound, Distinct
  <2> QED BY <1>4, <2>3, OthersSound DEF WriteFails
<1>5. GuardFails(h, e) \/ WriteState(h, e) \/ WriteOpen(h, e) \/ WriteClose(h, e)
        => Decide(h, e)
  BY DEF GuardFails, WriteState, WriteOpen, WriteClose
<1> QED BY <1>1, <1>2, <1>3, <1>4, <1>5 DEF Serve

LEMMA CheckedByPost ==
  ASSUME TypeOK, Numbered, Checked, NEW p \in Person, NEW h \in Handler, Post(p, h)
  PROVE  Checked'
<1>1. ASSUME NEW g \in Handler PROVE Sound(handler'[g])
  <2>1. CASE g = h
    <3>1. handler'[g] = [pc |-> "guard", by |-> p, todo |-> queue[p], decided |-> {},
                         saw |-> Unlocked, heard |-> TRUE]
      BY <2>1 DEF Post
    <3> QED BY <3>1 DEF Sound, Numbered
  <2>2. CASE g # h /\ ~(Busy(g) /\ handler[g].by = p)
    <3>1. handler'[g] = handler[g]
      BY <2>2 DEF Post, Given
    <3> QED BY <3>1 DEF Checked
  <2>3. CASE g # h /\ Busy(g) /\ handler[g].by = p
    <3>1. handler'[g] = [handler[g] EXCEPT !.heard = FALSE, !.decided = {}]
      BY <2>3 DEF Post, Given
    <3>2. /\ handler'[g].pc = handler[g].pc /\ handler'[g].todo = handler[g].todo
          /\ handler'[g].by = handler[g].by /\ handler'[g].saw = handler[g].saw
      BY <2>3, <3>1, AtWork DEF Active
    <3>3. Sound(handler[g]) /\ handler[g] # Rest
      BY <2>3 DEF Checked, Busy
    <3> QED BY <3>2, <3>3 DEF Sound, Passed
  <2> QED BY <2>1, <2>2, <2>3
<1> QED BY <1>1 DEF Checked

-----------------------------------------------------------------------------
LEMMA InvAtInit == Init => IInv
<1>1. Init => Numbered /\ Checked
  BY DEF Init, Numbered, Distinct, Past, Checked, Sound
<1> QED BY <1>1, TypesAtInit DEF IInv

LEMMA InvByNext == IInv /\ [Next]_vars => IInv'
<1> SUFFICES ASSUME IInv, [Next]_vars PROVE Numbered' /\ Checked'
  BY TypesByNext DEF IInv
<1> USE DEF IInv
<1> USE DEF server, local, counts, history
<1>1. ASSUME NEW p \in Person, User(p) PROVE Numbered' /\ Checked'
  <2>1. handler' = handler
    BY <1>1 DEF User, Ensure, Edit, LockOn, LockOff, SaveState, CheckOut, CheckIn, TakeOver
  <2>2. Checked'
    BY <2>1 DEF Checked
  <2> QED BY <1>1, <2>2, NumberedByUser
<1>2. ASSUME NEW p \in Person, Pull(p) PROVE Numbered' /\ Checked'
  BY <1>2 DEF Pull, Numbered, Past, Checked
<1>3. ASSUME NEW p \in Person, NEW h \in Handler, Post(p, h) PROVE Numbered' /\ Checked'
  <2>1. writes' = writes /\ queue' = queue
    BY <1>3 DEF Post
  <2> QED BY <1>3, <2>1, CheckedByPost, NumberedElsewhere
<1>4. ASSUME NEW h \in Handler, Dies(h) \/ Answer(h) PROVE Numbered' /\ Checked'
  <2>1. Goto(h, Rest) /\ writes' = writes
    BY <1>4 DEF Dies, Answer
  <2>2. \A p \in Person : queue'[p] \subseteq queue[p]
    BY <1>4 DEF Dies, Answer, TypeOK
  <2>3. Sound(Rest)
    BY DEF Sound
  <2> QED BY <2>1, <2>2, <2>3, OthersSound, NumberedElsewhere
<1>5. ASSUME NEW h \in Handler, Busy(h), NEW e \in handler[h].todo, Serve(h, e)
      PROVE  Numbered' /\ Checked'
  <2>1. writes' = writes /\ queue' = queue
    BY <1>5 DEF Serve, GuardState, GuardClose, GuardFails, WriteState, WriteOpen,
                WriteClose, WriteFails
  <2> QED BY <1>5, <2>1, CheckedByServe, NumberedElsewhere
<1>6. CASE UNCHANGED vars
  BY <1>6 DEF vars, Numbered, Past, Checked
<1> QED BY <1>1, <1>2, <1>3, <1>4, <1>5, <1>6 DEF Next

\* Only one action writes the lock.
LEMMA LockChanges ==
  ASSUME TypeOK, Next, lock' # lock
  PROVE  \E h \in Handler : Busy(h) /\ \E e \in handler[h].todo : WriteState(h, e)
<1> USE DEF server, local, counts, history
<1>1. ~\E p \in Person : User(p) \/ Pull(p) \/ \E h \in Handler : Post(p, h)
  BY DEF User, Ensure, Edit, LockOn, LockOff, SaveState, CheckOut, CheckIn, TakeOver,
         Pull, Post
<1>2. ~\E h \in Handler : Dies(h) \/ Answer(h)
  BY DEF Dies, Answer
<1> QED BY <1>1, <1>2 DEF Next, Serve, GuardState, GuardClose, GuardFails, WriteOpen,
                          WriteClose, WriteFails

\* However old the copies and however many handlers repeat each other's work:
\* the server's lock changes only in the name of somebody who, by the row as it
\* is at that moment or as another write has replaced it, may change it.
THEOREM LocksAreGuarded == Spec => LockIsGuarded
<1> DEFINE InOwnName ==
      lock' # lock =>
        \E h \in Handler :
          /\ Busy(h) /\ handler'[h] # handler[h]
          /\ handler[h].saw # lock \/ Entitled(handler[h].by)
<1>1. IInv /\ [Next]_vars => [InOwnName]_vars
  <2> SUFFICES ASSUME IInv, Next, lock' # lock
               PROVE  \E h \in Handler :
                        /\ Busy(h) /\ handler'[h] # handler[h]
                        /\ handler[h].saw # lock \/ Entitled(handler[h].by)
    OBVIOUS
  <2>1. PICK h \in Handler : Busy(h) /\ \E e \in handler[h].todo : WriteState(h, e)
    BY LockChanges DEF IInv
  <2>2. PICK e \in handler[h].todo : WriteState(h, e)
    BY <2>1
  <2>3. /\ Comes(h, e) /\ handler[h].pc = "write" /\ e.op \in {"state", "row"}
        /\ lock' = [on |-> e.lock.on, by |-> Locker(h, e)]
        /\ Decide(h, e)
    BY <2>2 DEF WriteState
  <2>4. handler'[h] # handler[h]
    <3>1. handler'[h].pc = "guard"
      BY <2>1, <2>3, AtWork DEF Decide, Goto, IInv, TypeOK, Active
    <3> QED BY <2>3, <3>1
  <2>5. ASSUME handler[h].saw = lock PROVE Entitled(handler[h].by)
    <3>1. lock \in Lock /\ e.lock \in Lock
      BY <2>1, <2>3, AtWork, EntryFields DEF IInv, TypeOK
    <3>2. e.lock.on # lock.on
      <4> SUFFICES ASSUME e.lock.on = lock.on PROVE FALSE
        OBVIOUS
      <4>1. Locker(h, e) = lock.by
        BY <2>1, <2>3, <2>5, LockerTyped DEF IInv
      <4>2. lock = [on |-> lock.on, by |-> lock.by]
        BY <3>1 DEF Lock
      <4> QED BY <2>3, <4>1, <4>2
    <3>3. Sound(handler[h]) /\ handler[h] # Rest /\ First(e, handler[h].todo)
      BY <2>1, <2>3 DEF IInv, Checked, Busy, Comes, First
    <3>4. MayLift(handler[h].by, lock)
      BY <2>3, <2>5, <3>2, <3>3 DEF Sound, Passed
    <3> QED BY <3>4 DEF MayLift, Entitled
  <2> QED BY <2>1, <2>4, <2>5
<1> QED BY <1>1, InvAtInit, InvByNext, PTL DEF Spec, LockIsGuarded

-----------------------------------------------------------------------------
(* The ends of sessions.                                                   *)

\* An end has come to something: its session is closed, or is one of the two
\* cases the property names.
Ended(s) == session[s] = "closed" \/ s \in reopened \cup lost

\* Some device still has to send an end of s.
EndWaits(s) == \E p \in Person : \E e \in queue[p] : e.op = "close" /\ e.session = s

\* What a handler may report as decided, and so take off a queue, has come to
\* something.
Reported == \A h \in Handler : Busy(h) =>
              \A e \in handler[h].decided : e.op = "close" => Ended(e.session)

EndsKept == \A s \in ended : Ended(s) \/ EndWaits(s)

EndInv == TypeOK /\ Reported /\ EndsKept

LEMMA EndAtInit == Init => EndInv
<1>1. Init => Reported /\ EndsKept
  BY DEF Init, Reported, Busy, EndsKept
<1> QED BY <1>1, TypesAtInit DEF EndInv

\* A user's write only adds to a queue, and adds the end of what it ends.
LEMMA EndByUser ==
  ASSUME EndInv, NEW p \in Person, User(p)
  PROVE  Reported' /\ EndsKept'
<1> USE DEF server, local, counts, history
<1>1. /\ handler' = handler /\ session' = session
      /\ reopened' = reopened /\ lost' = lost
  BY DEF User, Ensure, Edit, LockOn, LockOff, SaveState, CheckOut, CheckIn, TakeOver
<1>2. ASSUME NEW es, NEW n, Queue(p, es, n)
      PROVE  (\A q \in Person : queue[q] \subseteq queue'[q]) /\ es \subseteq queue'[p]
  BY <1>2 DEF Queue, EndInv, TypeOK
<1>3. /\ \A q \in Person : queue[q] \subseteq queue'[q]
      /\ \A s \in ended' \ ended : EndWaits(s)'
  <2>1. CASE Ensure(p)
    BY <2>1, <1>2 DEF Ensure
  <2>2. ASSUME NEW l, SaveState(p, l)
        PROVE  (\A q \in Person : queue[q] \subseteq queue'[q]) /\ ended' = ended
    BY <2>2, <1>2 DEF SaveState
  <2>3. CASE Edit(p) \/ LockOn(p) \/ LockOff(p)
    BY <2>2, <2>3 DEF Edit, LockOn, LockOff
  <2>4. ASSUME NEW s \in Session, CheckOut(p, s)
        PROVE  (\A q \in Person : queue[q] \subseteq queue'[q]) /\ ended' = ended
    BY <2>4, <1>2 DEF CheckOut
  <2>5. ASSUME NEW s \in Session, NEW n, NEW es,
               Queue(p, es, n), SessionEntry(1, "close", s) \in es,
               ended' = ended \cup {s}
        PROVE  /\ \A q \in Person : queue[q] \subseteq queue'[q]
               /\ \A t \in ended' \ ended : EndWaits(t)'
    <3>1. SessionEntry(1, "close", s).op = "close" /\ SessionEntry(1, "close", s).session = s
      BY DEF SessionEntry
    <3>2. SessionEntry(1, "close", s) \in queue'[p]
      BY <2>5, <1>2
    <3>3. \E e \in queue'[p] : e.op = "close" /\ e.session = s
      BY <3>1, <3>2
    <3>4. EndWaits(s)'
      BY <3>3 DEF EndWaits
    <3> QED BY <2>5, <1>2, <3>4
  <2>6. ASSUME NEW s \in Session, CheckIn(p, s)
        PROVE  /\ \A q \in Person : queue[q] \subseteq queue'[q]
               /\ \A t \in ended' \ ended : EndWaits(t)'
    BY <2>5, <2>6 DEF CheckIn
  <2>7. ASSUME NEW s \in Session, NEW t \in Session, TakeOver(p, t, s)
        PROVE  /\ \A q \in Person : queue[q] \subseteq queue'[q]
               /\ \A u \in ended' \ ended : EndWaits(u)'
    BY <2>5, <2>7 DEF TakeOver
  <2> QED BY <2>1, <2>3, <2>4, <2>6, <2>7 DEF User
<1>4. Reported'
  BY <1>1 DEF EndInv, Reported, Busy, Ended
<1>5. ASSUME NEW s \in ended' PROVE Ended(s)' \/ EndWaits(s)'
  <2>1. CASE s \in ended /\ Ended(s)
    BY <2>1, <1>1 DEF Ended
  <2>2. CASE s \in ended /\ EndWaits(s)
    BY <2>2, <1>3 DEF EndWaits
  <2>3. CASE s \notin ended
    BY <2>3, <1>3
  <2> QED BY <2>1, <2>2, <2>3 DEF EndInv, EndsKept
<1> QED BY <1>4, <1>5 DEF EndsKept

\* Ends that have come to something stay so, whatever the server does: only
\* a repeated creation opens a closed one, and it is recorded as such.
LEMMA EndedStays ==
  ASSUME TypeOK, NEW h \in Handler, Busy(h), NEW e \in handler[h].todo, Serve(h, e)
  PROVE  \A s \in Session : Ended(s) => Ended(s)'
<1>0. e \in Entry /\ (e.op \in {"open", "close"} => e.session \in Session)
  BY AtWork, EntryFields
<1>1. CASE WriteOpen(h, e)
  BY <1>0, <1>1 DEF WriteOpen, Ended, TypeOK
<1>2. CASE WriteClose(h, e)
  BY <1>0, <1>2 DEF WriteClose, Ended, TypeOK
<1>3. CASE GuardClose(h, e) \/ GuardFails(h, e)
  BY <1>3 DEF GuardClose, GuardFails, server, Ended
<1>4. CASE GuardState(h, e) \/ WriteState(h, e) \/ WriteFails(h, e)
  BY <1>4 DEF GuardState, WriteState, WriteFails, server, history, Ended
<1> QED BY <1>1, <1>2, <1>3, <1>4 DEF Serve

\* What a step adds to a handler's decided entries.
LEMMA DecidedGrows ==
  ASSUME TypeOK, NEW h \in Handler, Busy(h), NEW e \in handler[h].todo
  PROVE  /\ Decide(h, e) => handler'[h].decided \subseteq handler[h].decided \cup {e}
         /\ \A l : Proceed(h, l) => handler'[h].decided = handler[h].decided
         /\ WriteFails(h, e) => handler'[h].decided = handler[h].decided
<1>1. handler[h] \in Active /\ handler \in [Handler -> {Rest} \cup Active]
  BY AtWork DEF TypeOK
<1>2. ASSUME Decide(h, e)
      PROVE  handler'[h].decided \subseteq handler[h].decided \cup {e}
  <2>1. handler'[h] = [handler[h] EXCEPT !.pc = "guard", !.saw = Unlocked, !.todo = @ \ {e},
                         !.decided = @ \cup {x \in {e} : handler[h].heard}]
    BY <1>1, <1>2 DEF Decide, Goto
  <2>2. handler'[h].decided = handler[h].decided \cup {x \in {e} : handler[h].heard}
    BY <1>1, <2>1 DEF Active
  <2> QED BY <2>2
<1>3. ASSUME NEW l, Proceed(h, l) PROVE handler'[h].decided = handler[h].decided
  <2>1. handler'[h] = [handler[h] EXCEPT !.pc = "write", !.saw = l]
    BY <1>1, <1>3 DEF Proceed, Goto
  <2> QED BY <1>1, <2>1 DEF Active
<1>4. ASSUME WriteFails(h, e) PROVE handler'[h].decided = handler[h].decided
  <2>1. handler'[h] = [handler[h] EXCEPT !.pc = "guard", !.saw = Unlocked, !.todo = @ \ {e}]
    BY <1>1, <1>4 DEF WriteFails, Goto
  <2> QED BY <1>1, <2>1 DEF Active
<1> QED BY <1>2, <1>3, <1>4

\* An end that is decided now has come to something now.
LEMMA EndDecided ==
  ASSUME TypeOK, NEW h \in Handler, Busy(h), NEW e \in handler[h].todo, Serve(h, e),
         NEW x \in handler'[h].decided, x \notin handler[h].decided, x.op = "close"
  PROVE  Ended(x.session)'
<1>0. e \in Entry /\ (e.op \in {"open", "close"} => e.session \in Session)
  BY AtWork, EntryFields
<1>1. x = e /\ ~(\E l : Proceed(h, l)) /\ ~WriteFails(h, e)
  BY DecidedGrows DEF Serve, GuardState, GuardClose, GuardFails, WriteState, WriteOpen,
                      WriteClose
<1>2. e.op = "close" /\ e.session \in Session
  BY <1>0, <1>1
<1>3. CASE GuardClose(h, e)
  <2>1. ~(session[e.session] # "none" /\ MayEnd(handler[h].by, e.session))
    BY <1>1, <1>3 DEF GuardClose
  <2>2. CASE session[e.session] = "none"
    BY <1>1, <1>3, <2>2 DEF GuardClose, Ended
  <2>3. CASE session[e.session] # "none"
    <3>1. session[e.session] = "closed"
      BY <1>2, <2>1, <2>3 DEF MayEnd, TypeOK, Phase
    <3> QED BY <1>1, <1>3, <3>1 DEF GuardClose, server, Ended
  <2> QED BY <2>2, <2>3
<1>4. CASE GuardFails(h, e)
  BY <1>1, <1>2, <1>4 DEF GuardFails, Ended
<1>5. CASE WriteClose(h, e)
  BY <1>1, <1>2, <1>5 DEF WriteClose, Ended, TypeOK
<1> QED BY <1>1, <1>2, <1>3, <1>4, <1>5 DEF Serve, GuardState, WriteState, WriteOpen

LEMMA EndByServe ==
  ASSUME EndInv, NEW h \in Handler, Busy(h), NEW e \in handler[h].todo, Serve(h, e)
  PROVE  Reported' /\ EndsKept'
<1>0. TypeOK /\ Reported /\ EndsKept
  BY DEF EndInv
<1>1. queue' = queue /\ ended' = ended
  BY DEF Serve, GuardState, GuardClose, GuardFails, WriteState, WriteOpen, WriteClose,
         WriteFails, history
<1>2. \A g \in Handler : g # h => handler'[g] = handler[g]
  BY <1>0 DEF Serve, GuardState, GuardClose, GuardFails, WriteState, WriteOpen, WriteClose,
              WriteFails, Decide, Proceed, Goto, TypeOK
<1>3. ASSUME NEW g \in Handler, handler'[g] # Rest,
             NEW x \in handler'[g].decided, x.op = "close"
      PROVE  Ended(x.session)'
  <2>1. CASE g = h /\ x \notin handler[g].decided
    BY <1>0, <1>3, <2>1, EndDecided
  <2>2. CASE x \in handler[g].decided
    <3>1. Busy(g)
      BY <1>2, <1>3 DEF Busy
    <3>2. x \in Entry
      BY <1>0, <2>2, <3>1, AtWork DEF Active
    <3>3. x.session \in Session /\ Ended(x.session)
      BY <1>0, <1>3, <2>2, <3>1, <3>2, EntryFields DEF Reported
    <3> QED BY <1>0, <3>3, EndedStays
  <2> QED BY <1>2, <1>3, <2>1, <2>2
<1>4. Reported'
  BY <1>3 DEF Reported, Busy
<1>5. ASSUME NEW s \in ended PROVE Ended(s)' \/ EndWaits(s)'
  <2>1. CASE Ended(s)
    BY <1>0, <2>1, EndedStays DEF TypeOK
  <2>2. CASE EndWaits(s)
    BY <1>1, <2>2 DEF EndWaits
  <2> QED BY <1>0, <2>1, <2>2 DEF EndsKept
<1> QED BY <1>1, <1>4, <1>5 DEF EndsKept

\* An answer takes off the queue only what was decided.
LEMMA EndByAnswer ==
  ASSUME EndInv, NEW h \in Handler, Answer(h)
  PROVE  Reported' /\ EndsKept'
<1>0. TypeOK /\ Reported /\ EndsKept
  BY DEF EndInv
<1>1. Busy(h) /\ session' = session /\ reopened' = reopened /\ lost' = lost /\ ended' = ended
  BY DEF Answer, server, history
<1>2. \A g \in Handler : handler'[g] = handler[g] \/ handler'[g] = Rest
  BY <1>0 DEF Answer, Goto, TypeOK
<1>3. Reported'
  BY <1>0, <1>1, <1>2 DEF Reported, Busy, Ended
<1>4. ASSUME NEW s \in ended PROVE Ended(s)' \/ EndWaits(s)'
  <2>1. CASE Ended(s)
    BY <1>1, <2>1 DEF Ended
  <2>2. CASE EndWaits(s) /\ ~Ended(s)
    <3>1. PICK p \in Person : \E e \in queue[p] : e.op = "close" /\ e.session = s
      BY <2>2 DEF EndWaits
    <3>2. PICK e \in queue[p] : e.op = "close" /\ e.session = s
      BY <3>1
    <3>3. e \notin handler[h].decided
      BY <1>0, <1>1, <2>2, <3>2 DEF Reported
    <3>4. e \in queue'[p]
      BY <1>0, <3>2, <3>3 DEF Answer, TypeOK
    <3> QED BY <3>2, <3>4 DEF EndWaits
  <2> QED BY <1>0, <2>1, <2>2 DEF EndsKept
<1> QED BY <1>1, <1>3, <1>4 DEF EndsKept

\* Other steps leave the queues and the sessions alone and forget what was
\* decided, if they touch it at all.
LEMMA EndElsewhere ==
  ASSUME EndInv, server' = server \/ session' = session, queue' = queue,
         history' = history,
         \A g \in Handler : \/ handler'[g] = handler[g]
                            \/ handler'[g] = Rest
                            \/ handler'[g].decided = {}
  PROVE  Reported' /\ EndsKept'
<1>1. session' = session /\ reopened' = reopened /\ lost' = lost /\ ended' = ended
  BY DEF server, history
<1>2. Reported'
  BY <1>1 DEF EndInv, Reported, Busy, Ended
<1>3. EndsKept'
  BY <1>1 DEF EndInv, EndsKept, Ended, EndWaits
<1> QED BY <1>2, <1>3

LEMMA EndByNext == EndInv /\ [Next]_vars => EndInv'
<1> SUFFICES ASSUME EndInv, [Next]_vars PROVE Reported' /\ EndsKept'
  BY TypesByNext DEF EndInv
<1>0. TypeOK
  BY DEF EndInv
<1>1. ASSUME NEW p \in Person, User(p) PROVE Reported' /\ EndsKept'
  BY <1>1, EndByUser
<1>2. ASSUME NEW p \in Person, Pull(p) PROVE Reported' /\ EndsKept'
  BY <1>2, EndElsewhere DEF Pull
<1>3. ASSUME NEW p \in Person, NEW h \in Handler, Post(p, h) PROVE Reported' /\ EndsKept'
  <2>1. ASSUME NEW g \in Handler
        PROVE  handler'[g] = handler[g] \/ handler'[g].decided = {}
    <3>1. CASE g = h
      BY <1>3, <3>1 DEF Post
    <3>2. CASE g # h /\ Busy(g) /\ handler[g].by = p
      <4>1. handler'[g] = [handler[g] EXCEPT !.heard = FALSE, !.decided = {}]
        BY <1>3, <3>2 DEF Post, Given
      <4> QED BY <1>0, <3>2, <4>1, AtWork DEF Active
    <3>3. CASE g # h /\ ~(Busy(g) /\ handler[g].by = p)
      BY <1>3, <3>3 DEF Post, Given
    <3> QED BY <3>1, <3>2, <3>3
  <2> QED BY <1>3, <2>1, EndElsewhere DEF Post
<1>4. ASSUME NEW h \in Handler, Dies(h) PROVE Reported' /\ EndsKept'
  <2>1. \A g \in Handler : handler'[g] = handler[g] \/ handler'[g] = Rest
    BY <1>0, <1>4 DEF Dies, Goto, TypeOK
  <2> QED BY <1>4, <2>1, EndElsewhere DEF Dies
<1>5. ASSUME NEW h \in Handler, Answer(h) PROVE Reported' /\ EndsKept'
  BY <1>5, EndByAnswer
<1>6. ASSUME NEW h \in Handler, Busy(h), NEW e \in handler[h].todo, Serve(h, e)
      PROVE  Reported' /\ EndsKept'
  BY <1>6, EndByServe
<1>7. CASE UNCHANGED vars
  BY <1>7, EndElsewhere DEF vars
<1> QED BY <1>1, <1>2, <1>3, <1>4, <1>5, <1>6, <1>7 DEF Next

\* However many requests repeat each other's work and whichever of their answers
\* are lost: once the queues are empty and no request is under way, a session
\* somebody ended is closed, but for the two cases the property names.
THEOREM EndsArrive == Spec => []EndedSessionsClose
<1>1. EndInv => EndedSessionsClose
  BY DEF EndInv, EndsKept, Ended, EndWaits, EndedSessionsClose
<1> QED BY <1>1, EndAtInit, EndByNext, PTL DEF Spec

===============================================================================
