----------------------------- MODULE Notices_proof -----------------------------
(* Proofs about Notices, for any number of events, people and tasks.         *)
EXTENDS Notices, TLAPS

-----------------------------------------------------------------------------
(* Types, and which kind of event passes through which place.              *)

Fits(s) ==
  /\ s.pc = "free" <=> s = Free
  /\ s.pc # "free" => s.key \in Key
  /\ s.pc = "read" => s.key \in Level
  /\ s.pc \in {"preread", "guard", "write"} => s.key \in Decision
  /\ s.pc = "file" => s.key \in Large
  /\ s.pc = "release" => s.key \in Level \cup Assign
  /\ s.pc = "resolve" => s.key \notin Decision
  /\ s.pc = "deliver" => s.to # {}
  /\ s.pc = "claim" /\ s.key \in Watch \cup Decision => s.to # {}

TypeInv == TypeOK /\ \A t \in Task : Fits(task[t])

LEMMA FreeFits == Free \in TaskState /\ Fits(Free) /\ Free.key = NoKey /\ Free.pc = "free"
  BY NoticesAssumption DEF NoticesAssumption, Free, TaskState, Fits, Place

LEMMA Kinds ==
  ASSUME NEW k \in Key
  PROVE  /\ k \in Level => k \notin Once
         /\ k \in Watch => k \notin Assign /\ k \notin Record /\ k \notin Large /\ k \notin Decision
         /\ k \in Decision => k \notin Assign /\ k \notin Record /\ k \notin Large /\ k \notin Level
         /\ k \in Large => k \notin Assign /\ k \notin Record /\ k \notin Level
         /\ k \in Assign => k \notin Record
         /\ k # NoKey
  BY NoticesAssumption, KindAssumption DEF NoticesAssumption, KindAssumption, Once, Key

\* A handler starts with the step of its kind, and with nobody to tell.
LEMMA BeginFits ==
  ASSUME NEW k \in Key, NEW c \in Person \cup {NoOne}
  PROVE  /\ Begin(k, c) \in TaskState /\ Fits(Begin(k, c))
         /\ Begin(k, c).key = k /\ Begin(k, c).pc = First(k) /\ Begin(k, c).pc # "free"
         /\ First(k) \in {"read", "resolve", "preread", "claim"}
         /\ First(k) = "resolve" => k \in Watch
         /\ First(k) = "claim" => k \notin Decision
<1>1. First(k) \in {"read", "resolve", "preread", "claim"}
      /\ (First(k) = "read" => k \in Level)
      /\ (First(k) = "resolve" => k \in Watch)
      /\ (First(k) = "preread" => k \in Decision)
      /\ (First(k) = "claim" => k \notin Decision /\ k \notin Watch)
  <2>1. CASE k \in Level
    BY <2>1 DEF First
  <2>2. CASE k \in Watch
    BY <2>2, Kinds DEF First, Once
  <2>3. CASE k \in Decision
    BY <2>3, Kinds DEF First
  <2>4. CASE k \notin Level /\ k \notin Watch /\ k \notin Decision
    BY <2>4 DEF First
  <2> QED BY <2>1, <2>2, <2>3, <2>4
<1>2. Begin(k, c).key = k /\ Begin(k, c).pc = First(k) /\ Begin(k, c).to = {}
  BY DEF Begin
<1>3. Begin(k, c) \in TaskState
  BY <1>1 DEF Begin, TaskState, Place
<1>4. Begin(k, c) # Free
  BY <1>1, <1>2 DEF Free
<1>5. Fits(Begin(k, c))
  BY <1>1, <1>2, <1>4, Kinds DEF Fits
<1> QED
  BY <1>1, <1>2, <1>3, <1>5

\* A task that goes on keeps its type if the place fits its event.
LEMMA MoveFits ==
  ASSUME NEW s \in TaskState, NEW p \in Place \ {"free"}, s.key \in Key
  PROVE  /\ [s EXCEPT !.pc = p] \in TaskState
         /\ [s EXCEPT !.pc = p] # Free
         /\ [s EXCEPT !.pc = p].pc = p /\ [s EXCEPT !.pc = p].key = s.key
         /\ [s EXCEPT !.pc = p].to = s.to
  BY DEF TaskState, Free

\* One task moves, the others stay.
LEMMA OneMoves ==
  ASSUME TypeInv, NEW t \in Task, NEW s \in TaskState, Fits(s), s.pc = "deliver" => s.to # {},
         task' = [task EXCEPT ![t] = s]
  PROVE  /\ task' \in [Task -> TaskState]
         /\ \A u \in Task : Fits(task'[u])
         /\ \A u \in Task : task'[u].pc = "deliver" => task'[u].to # {}
<1>1. task \in [Task -> TaskState] /\ \A u \in Task : Fits(task[u])
  BY DEF TypeInv, TypeOK
<1>2. task' \in [Task -> TaskState]
  BY <1>1
<1>3. \A u \in Task : task'[u] = IF u = t THEN s ELSE task[u]
  BY <1>1
<1>4. \A u \in Task : Fits(task'[u])
  BY <1>1, <1>3
<1> QED
  BY <1>2, <1>4 DEF Fits

\* The tables keep their types; only the tasks are left to look at.
Tables ==
  /\ low \in [Level -> BOOLEAN]
  /\ status \in [Request -> {"open"} \cup Verdict]
  /\ filed \in [Large -> Nat]
  /\ staff \subseteq Person
  /\ dedup \subseteq Key /\ begun \subseteq Key /\ moved \subseteq Level
  /\ died \subseteq Key /\ unheard \subseteq Key
  /\ told \in [Key -> [Person -> Nat]] /\ toldBefore \in [Key -> [Person -> Nat]]
  /\ filedBefore \in [Large -> Nat]
  /\ started \in 0..MaxTasks /\ moves \in 0..MaxMoves /\ faults \in 0..MaxFaults

LEMMA Parts ==
  TypeInv <=> /\ Tables
              /\ task \in [Task -> TaskState]
              /\ \A t \in Task : Fits(task[t])
  BY DEF TypeInv, TypeOK, Tables, Fits

LEMMA InitTypes == Init => TypeInv
<1> SUFFICES ASSUME Init PROVE TypeInv
  OBVIOUS
<1>1. Tables
  <2>1. started \in 0..MaxTasks /\ moves \in 0..MaxMoves /\ faults \in 0..MaxFaults
    BY NoticesAssumption DEF NoticesAssumption, Init
  <2>2. /\ low \in [Level -> BOOLEAN]
        /\ status \in [Request -> {"open"} \cup Verdict]
        /\ filed \in [Large -> Nat]
        /\ staff \subseteq Person
        /\ told \in [Key -> [Person -> Nat]]
        /\ toldBefore = told /\ filedBefore = filed
        /\ dedup = {} /\ begun = {} /\ moved = {} /\ died = {} /\ unheard = {}
    BY DEF Init
  <2> QED BY <2>1, <2>2 DEF Tables
<1>2. task \in [Task -> TaskState] /\ \A t \in Task : Fits(task[t])
  BY FreeFits DEF Init
<1> QED BY <1>1, <1>2, Parts

\* The task that is at work, and its event.
LEMMA AtWork ==
  ASSUME TypeInv, NEW t \in Task, task[t].pc # "free"
  PROVE  task[t] \in TaskState /\ Fits(task[t]) /\ task[t].key \in Key /\ task[t] # Free
  BY DEF TypeInv, TypeOK, Fits

LEMMA EndFits ==
  ASSUME TypeInv, NEW t \in Task, End(t)
  PROVE  task' \in [Task -> TaskState] /\ \A u \in Task : Fits(task'[u])
  BY FreeFits, Parts DEF End

LEMMA GotoFits ==
  ASSUME TypeInv, NEW t \in Task, NEW p \in Place \ {"free"}, task[t].pc # "free",
         LET k == task[t].key IN
         /\ p = "read" => k \in Level
         /\ p \in {"preread", "guard", "write"} => k \in Decision
         /\ p = "file" => k \in Large
         /\ p = "release" => k \in Level \cup Assign
         /\ p = "resolve" => k \notin Decision
         /\ p = "deliver" => task[t].to # {}
         /\ p = "claim" /\ k \in Watch \cup Decision => task[t].to # {},
         Goto(t, p)
  PROVE  task' \in [Task -> TaskState] /\ \A u \in Task : Fits(task'[u])
<1> DEFINE s == [task[t] EXCEPT !.pc = p]
<1>1. task[t] \in TaskState /\ task[t].key \in Key
  BY AtWork
<1>2. s \in TaskState /\ s # Free /\ s.pc = p /\ s.key = task[t].key /\ s.to = task[t].to
  BY <1>1, MoveFits
<1>3. task' = [task EXCEPT ![t] = s]
  BY DEF Goto
<1> HIDE DEF s
<1>4. Fits(s)
  BY <1>1, <1>2 DEF Fits
<1> QED BY <1>2, <1>3, <1>4, Parts

-----------------------------------------------------------------------------
(* Each action keeps the types.                                            *)

\* A task of another place is not at "free".
LEMMA NotFree == ASSUME TypeInv, NEW t \in Task PROVE (task[t].pc = "free") <=> (task[t] = Free)
  BY DEF TypeInv, Fits

LEMMA StartTypes ==
  ASSUME TypeInv, NEW t \in Task, NEW k \in Key, NEW c \in Person \cup {NoOne},
         Start(t, k, c), low' \in [Level -> BOOLEAN], moved' \subseteq Level,
         told' \in [Key -> [Person -> Nat]], toldBefore' \in [Key -> [Person -> Nat]],
         unheard' \subseteq Key
  PROVE  TypeInv'
<1>1. Begin(k, c) \in TaskState /\ Fits(Begin(k, c))
  BY BeginFits
<1>2. task' = [task EXCEPT ![t] = Begin(k, c)]
  BY DEF Start
<1>3. task' \in [Task -> TaskState] /\ \A u \in Task : Fits(task'[u])
  BY <1>1, <1>2, Parts
<1>4. started' \in 0..MaxTasks
  BY Parts, NoticesAssumption DEF NoticesAssumption, Tables, Start
<1>5. Tables'
  BY <1>4, Parts DEF Tables, Start
<1> QED BY <1>3, <1>5 DEF TypeInv, TypeOK, Tables, Fits

LEMMA BecomeTypes ==
  ASSUME TypeInv, NEW i \in Level, NEW l \in BOOLEAN, Become(i, l)
  PROVE  /\ low' \in [Level -> BOOLEAN] /\ unheard' \subseteq Key
         /\ told' \in [Key -> [Person -> Nat]] /\ toldBefore' \in [Key -> [Person -> Nat]]
<1>1. [p \in Person |-> 0] \in [Person -> Nat]
  OBVIOUS
<1>2. low' \in [Level -> BOOLEAN]
  BY Parts DEF Become, Tables
<1>3. i \in Key
  BY DEF Key
<1>4. CASE l /\ ~low[i]
  <2>1. /\ told' = [told EXCEPT ![i] = [p \in Person |-> 0]]
        /\ toldBefore' = [toldBefore EXCEPT ![i] = [p \in Person |-> 0]]
        /\ unheard' = unheard \ {i}
    BY <1>4 DEF Become
  <2> QED BY <1>1, <1>2, <1>3, <2>1, Parts DEF Tables
<1>5. CASE ~(l /\ ~low[i])
  BY <1>2, <1>5, Parts DEF Become, Tables
<1> QED BY <1>4, <1>5

LEMMA EventTypes ==
  ASSUME TypeInv, NEW t \in Task,
         \/ \E i \in Level : Touch(t, i)
         \/ \E k \in Once \ Decision : Occur(t, k)
         \/ \E d \in Decision, c \in Person : Decide(t, d, c)
  PROVE  TypeInv'
<1>1. CASE \E i \in Level : Touch(t, i)
  <2>1. PICK i \in Level : Touch(t, i)
    BY <1>1
  <2>2. PICK l \in BOOLEAN : /\ Become(i, l)
                             /\ moved' \subseteq moved \cup {i}
    BY <2>1 DEF Touch
  <2>3. i \in Key /\ Start(t, i, NoOne)
    BY <2>1 DEF Touch, Key
  <2>4. moved' \subseteq Level
    BY <2>2, Parts DEF Tables
  <2> QED BY <2>2, <2>3, <2>4, BecomeTypes, StartTypes
<1>2. CASE \E k \in Once \ Decision : Occur(t, k)
  BY <1>2, StartTypes, Parts DEF Occur, Key, Tables
<1>3. CASE \E d \in Decision, c \in Person : Decide(t, d, c)
  BY <1>3, StartTypes, Parts DEF Decide, Key, Once, Tables
<1> QED BY <1>1, <1>2, <1>3

\* The tasks go on, the tables stay.
LEMMA StepTypes ==
  ASSUME TypeInv, task' \in [Task -> TaskState], \A u \in Task : Fits(task'[u]), Tables'
  PROVE  TypeInv'
  BY DEF TypeInv, TypeOK, Tables, Fits

LEMMA RecountTypes == ASSUME TypeInv, NEW i \in Level, Recount(i) PROVE TypeInv'
<1>1. low[i] \in BOOLEAN /\ (~low[i]) \in BOOLEAN
  BY Parts DEF Tables
<1>2. Become(i, ~low[i])
  BY DEF Recount
<1>3. /\ low' \in [Level -> BOOLEAN] /\ unheard' \subseteq Key
      /\ told' \in [Key -> [Person -> Nat]] /\ toldBefore' \in [Key -> [Person -> Nat]]
  BY <1>1, <1>2, BecomeTypes
<1>4. moved' \subseteq Level /\ moves' \in 0..MaxMoves
  BY Parts, NoticesAssumption DEF NoticesAssumption, Recount, Tables
<1>5. Tables'
  BY <1>3, <1>4, Parts DEF Recount, Tables
<1>6. task' = task
  BY DEF Recount
<1> QED BY <1>5, <1>6, Parts, StepTypes

LEMMA QuietTables ==
  ASSUME TypeInv, UNCHANGED <<low, status, filed, told, staff, started, moves, faults, history>>,
         dedup' \subseteq Key
  PROVE  Tables'
  BY Parts DEF Tables, history, past

LEMMA ReadTypes == ASSUME TypeInv, NEW t \in Task, Read(t) PROVE TypeInv'
<1>1. task[t].pc = "read" /\ task[t].key \in Level
  BY AtWork DEF Read, Fits
<1>2. Tables'
  BY QuietTables, Parts DEF Read, db, Tables
<1>3. task[t].key \in Level => task[t].key \notin Watch \cup Decision
  BY Kinds DEF Key, Once
<1>4. Goto(t, "claim") \/ Goto(t, "release")
  BY DEF Read
<1>5. task' \in [Task -> TaskState] /\ \A u \in Task : Fits(task'[u])
  BY <1>1, <1>3, <1>4, GotoFits DEF Place
<1> QED BY <1>2, <1>5, StepTypes

LEMMA ReleaseTypes == ASSUME TypeInv, NEW t \in Task, Release(t) PROVE TypeInv'
<1>1. Tables'
  BY QuietTables, Parts DEF Release, Tables
<1> QED BY <1>1, EndFits, StepTypes DEF Release

LEMMA ClaimTypes == ASSUME TypeInv, NEW t \in Task, ClaimEvent(t) PROVE TypeInv'
<1> DEFINE k == task[t].key
<1>1. task[t].pc = "claim" /\ k \in Key
      /\ (k \in Watch \cup Decision => task[t].to # {})
  BY AtWork DEF ClaimEvent, Fits
<1>2. dedup' \subseteq Key
  BY <1>1, Parts DEF ClaimEvent, Tables
<1>3. Tables'
  BY <1>2, QuietTables DEF ClaimEvent
<1>4. /\ AfterClaim(k) = "file" => k \in Large
      /\ AfterClaim(k) = "deliver" => k \in Watch \cup Decision
      /\ AfterClaim(k) = "resolve" => k \notin Decision
      /\ AfterClaim(k) \in {"file", "deliver", "resolve"}
  BY DEF AfterClaim
<1>5. End(t) \/ Goto(t, AfterClaim(k))
  BY DEF ClaimEvent
<1>6. task' \in [Task -> TaskState] /\ \A u \in Task : Fits(task'[u])
  <2>1. CASE End(t)
    BY <2>1, EndFits
  <2>2. CASE Goto(t, AfterClaim(k))
    <3> DEFINE p == AfterClaim(k)
    <3>1. p \in Place \ {"free"}
      BY <1>4 DEF Place
    <3>2. /\ p = "file" => k \in Large
          /\ p = "resolve" => k \notin Decision
          /\ p = "deliver" => task[t].to # {}
          /\ p \notin {"read", "preread", "guard", "write", "release", "claim"}
      BY <1>1, <1>4
    <3>3. Goto(t, p) /\ task[t].pc # "free"
      BY <1>1, <2>2
    <3> HIDE DEF p
    <3> QED BY <3>1, <3>2, <3>3, GotoFits
  <2> QED BY <2>1, <2>2, <1>5
<1> QED BY <1>3, <1>6, StepTypes

LEMMA ResolveTypes == ASSUME TypeInv, NEW t \in Task, Resolve(t) PROVE TypeInv'
<1> DEFINE k == task[t].key
           s == [task[t] EXCEPT !.pc = AfterResolve(k), !.to = staff]
<1>1. task[t].pc = "resolve" /\ k \in Key /\ k \notin Decision /\ task[t] \in TaskState
  BY AtWork DEF Resolve, Fits
<1>2. unheard' \subseteq Key
  BY <1>1, Parts DEF Resolve, Tables
<1>3. Tables'
  BY <1>2, Parts DEF Resolve, Tables, db, past
<1>4. CASE staff # {}
  <2>1. task' = [task EXCEPT ![t] = s]
    BY <1>4 DEF Resolve
  <2>2. AfterResolve(k) \in {"claim", "deliver"}
    BY DEF AfterResolve
  <2>3. s.pc = AfterResolve(k) /\ s.to = staff /\ s.key = k /\ s \in TaskState
    <3>1. staff \in SUBSET Person
      BY Parts DEF Tables
    <3> QED BY <1>1, <2>2, <3>1 DEF TaskState, Place
  <2>4. s # Free
    BY <2>2, <2>3 DEF Free
  <2> HIDE DEF s
  <2>5. Fits(s)
    BY <1>1, <1>4, <2>2, <2>3, <2>4 DEF Fits
  <2>6. task' \in [Task -> TaskState] /\ \A u \in Task : Fits(task'[u])
    BY <2>1, <2>3, <2>5, Parts
  <2> QED BY <1>3, <2>6, StepTypes
<1>5. CASE staff = {}
  <2>1. (k \in Assign /\ Goto(t, "release")) \/ End(t)
    BY <1>5 DEF Resolve, NobodyHome
  <2>2. task' \in [Task -> TaskState] /\ \A u \in Task : Fits(task'[u])
    BY <1>1, <2>1, GotoFits, EndFits DEF Place
  <2> QED BY <1>3, <2>2, StepTypes
<1> QED BY <1>4, <1>5

LEMMA FileTypes == ASSUME TypeInv, NEW t \in Task, FileRequest(t) PROVE TypeInv'
<1>1. task[t].pc = "file" /\ task[t].key \in Large /\ task[t].key \notin Decision
  BY AtWork, Kinds DEF FileRequest, Fits
<1>2. filed' \in [Large -> Nat]
  BY <1>1, Parts DEF FileRequest, Tables
<1>3. Tables'
  BY <1>2, Parts DEF FileRequest, Tables, history, past
<1>4. task' \in [Task -> TaskState] /\ \A u \in Task : Fits(task'[u])
  BY <1>1, GotoFits DEF FileRequest, Place
<1> QED BY <1>3, <1>4, StepTypes

\* The recipients that are left are still people, and still somebody.
LEMMA LessTo ==
  ASSUME NEW s \in TaskState, s.pc = "deliver", NEW p \in s.to, s.to # {p}, Fits(s)
  PROVE  /\ [s EXCEPT !.to = @ \ {p}] \in TaskState /\ Fits([s EXCEPT !.to = @ \ {p}])
         /\ [s EXCEPT !.to = @ \ {p}].pc = s.pc /\ [s EXCEPT !.to = @ \ {p}].key = s.key
         /\ [s EXCEPT !.to = @ \ {p}].to = s.to \ {p}
<1> DEFINE r == [s EXCEPT !.to = @ \ {p}]
<1>1. r.pc = s.pc /\ r.key = s.key /\ r.to = s.to \ {p} /\ r \in TaskState
  BY DEF TaskState
<1>2. r.to # {}
  BY <1>1
<1>3. r # Free
  BY <1>1 DEF Free
<1> HIDE DEF r
<1>4. Fits(r)
  BY <1>1, <1>2, <1>3 DEF Fits
<1> QED BY <1>1, <1>4 DEF r

LEMMA DeliverTypes == ASSUME TypeInv, NEW t \in Task, Deliver(t) PROVE TypeInv'
<1>1. task[t].pc = "deliver" /\ task[t] \in TaskState /\ Fits(task[t]) /\ task[t].key \in Key
  BY AtWork DEF Deliver
<1>2. PICK p \in task[t].to :
        /\ told' = [told EXCEPT ![task[t].key][p] = @ + 1]
        /\ IF task[t].to = {p} THEN End(t)
           ELSE task' = [task EXCEPT ![t].to = @ \ {p}]
  BY DEF Deliver
<1>3. p \in Person
  BY <1>1 DEF TaskState
<1>4. told' \in [Key -> [Person -> Nat]]
  BY <1>1, <1>2, <1>3, Parts DEF Tables
<1>5. Tables'
  BY <1>4, Parts DEF Deliver, Tables, history, past
<1>6. task' \in [Task -> TaskState] /\ \A u \in Task : Fits(task'[u])
  <2>1. CASE task[t].to = {p}
    BY <1>2, <2>1, EndFits
  <2>2. CASE task[t].to # {p}
    <3> DEFINE s == [task[t] EXCEPT !.to = @ \ {p}]
    <3>1. s \in TaskState /\ Fits(s)
      BY <1>1, <2>2, LessTo
    <3>2. task' = [task EXCEPT ![t] = s]
      BY <1>2, <2>2
    <3> QED BY <3>1, <3>2, Parts
  <2> QED BY <2>1, <2>2
<1> QED BY <1>5, <1>6, StepTypes

\* A decision is a request and a verdict.
LEMMA DecisionParts ==
  ASSUME NEW d \in Decision PROVE d[1] \in Request /\ d[2] \in Verdict
  BY DEF Decision

LEMMA PrereadTypes == ASSUME TypeInv, NEW t \in Task, Preread(t) PROVE TypeInv'
<1> DEFINE o == status[task[t].key[1]] = "open"
           s == [task[t] EXCEPT !.pc = "guard", !.open = o]
<1>1. task[t].pc = "preread" /\ task[t] \in TaskState /\ task[t].key \in Decision
  BY AtWork DEF Preread, Fits
<1>2. task' = [task EXCEPT ![t] = s]
  BY DEF Preread
<1>3. o \in BOOLEAN
  OBVIOUS
<1>4. s.pc = "guard" /\ s.key = task[t].key /\ s.to = task[t].to /\ s \in TaskState
  BY <1>1, <1>3 DEF TaskState, Place
<1>5. s # Free
  BY <1>4 DEF Free
<1> HIDE DEF s
<1>6. Fits(s)
  BY <1>1, <1>4, <1>5 DEF Fits, Key, Once
<1>7. task' \in [Task -> TaskState] /\ \A u \in Task : Fits(task'[u])
  BY <1>2, <1>4, <1>6, Parts
<1>8. Tables'
  BY Parts DEF Preread, Tables, history, past, db
<1> QED BY <1>7, <1>8, StepTypes

LEMMA GuardTypes == ASSUME TypeInv, NEW t \in Task, Guard(t) PROVE TypeInv'
<1>1. task[t].pc = "guard" /\ task[t].key \in Decision
  BY AtWork DEF Guard, Fits
<1>2. Goto(t, "write") \/ End(t)
  BY DEF Guard
<1>3. task' \in [Task -> TaskState] /\ \A u \in Task : Fits(task'[u])
  BY <1>1, <1>2, GotoFits, EndFits DEF Place
<1>4. Tables'
  BY Parts DEF Guard, Tables, history, past, db
<1> QED BY <1>3, <1>4, StepTypes

LEMMA WriteTypes == ASSUME TypeInv, NEW t \in Task, Write(t) PROVE TypeInv'
<1> DEFINE s == [task[t] EXCEPT !.pc = "claim", !.to = {Requester}]
<1>1. task[t].pc = "write" /\ task[t] \in TaskState /\ task[t].key \in Decision
  BY AtWork DEF Write, Fits
<1>2. status' \in [Request -> {"open"} \cup Verdict]
  BY <1>1, DecisionParts, Parts DEF Write, Tables
<1>3. Tables'
  BY <1>2, Parts DEF Write, Tables, history, past
<1>4. CASE Tells(t)
  <2>1. task' = [task EXCEPT ![t] = s]
    BY <1>4 DEF Write
  <2>2. s.pc = "claim" /\ s.key = task[t].key /\ s.to = {Requester} /\ s \in TaskState
    BY <1>1, NoticesAssumption DEF NoticesAssumption, TaskState, Place
  <2>3. s # Free
    BY <2>2 DEF Free
  <2> HIDE DEF s
  <2>4. Fits(s)
    BY <1>1, <2>2, <2>3 DEF Fits, Key, Once
  <2>5. task' \in [Task -> TaskState] /\ \A u \in Task : Fits(task'[u])
    BY <2>1, <2>2, <2>4, Parts
  <2> QED BY <1>3, <2>5, StepTypes
<1>5. CASE ~Tells(t)
  BY <1>3, <1>5, EndFits, StepTypes DEF Write
<1> QED BY <1>4, <1>5

LEMMA FailsTypes == ASSUME TypeInv, NEW t \in Task, Fails(t) PROVE TypeInv'
<1>1. task[t].pc # "free" /\ task[t].key \in Key
      /\ (task[t].pc = "preread" => task[t].key \in Decision)
  BY AtWork, NotFree DEF Fails, Fits
<1>2. faults' \in 0..MaxFaults
  BY Parts, NoticesAssumption DEF NoticesAssumption, Fails, Tables
<1>3. Tables'
  BY <1>1, <1>2, Parts DEF Fails, Tables, db, past
<1>4. (task[t].pc = "preread" /\ Goto(t, "write")) \/ End(t)
  BY DEF Fails
<1>5. task' \in [Task -> TaskState] /\ \A u \in Task : Fits(task'[u])
  BY <1>1, <1>4, GotoFits, EndFits DEF Place
<1> QED BY <1>3, <1>5, StepTypes

LEMMA RestartTypes == ASSUME TypeInv, Restart PROVE TypeInv'
<1>1. PICK again \in SUBSET {t \in Task : task[t] # Free} :
        /\ task' = [t \in Task |-> IF t \in again
                                   THEN Begin(task[t].key, task[t].by) ELSE Free]
        /\ died' = died \cup {task[t].key : t \in {s \in Task :
                     task[s] # Free /\ ~(s \in again /\ Early(s))}}
  BY DEF Restart
<1>2. \A t \in Task : task[t] # Free => task[t].key \in Key /\ task[t].by \in Person \cup {NoOne}
  <2> SUFFICES ASSUME NEW t \in Task, task[t] # Free
               PROVE  task[t].key \in Key /\ task[t].by \in Person \cup {NoOne}
    OBVIOUS
  <2>1. task[t].pc # "free"
    BY NotFree
  <2>2. task[t].key \in Key /\ task[t] \in TaskState
    BY <2>1, AtWork
  <2> QED BY <2>2 DEF TaskState
<1>3. died' \subseteq Key
  BY <1>1, <1>2, Parts DEF Tables
<1>4. faults' \in 0..MaxFaults
  BY Parts, NoticesAssumption DEF NoticesAssumption, Restart, Tables
<1>o. PICK old \in SUBSET dedup : Prune(old)
  BY DEF Restart
<1>p. /\ dedup' \subseteq Key /\ filedBefore' \in [Large -> Nat]
      /\ toldBefore' \in [Key -> [Person -> Nat]]
  BY <1>o, Parts DEF Prune, Tables
<1>5. Tables'
  BY <1>3, <1>4, <1>p, Parts DEF Restart, Tables
<1>6. \A t \in Task : task'[t] \in TaskState /\ Fits(task'[t])
  <2> SUFFICES ASSUME NEW t \in Task PROVE task'[t] \in TaskState /\ Fits(task'[t])
    OBVIOUS
  <2>1. CASE t \in again
    BY <1>1, <1>2, <2>1, BeginFits
  <2>2. CASE t \notin again
    BY <1>1, <2>2, FreeFits
  <2> QED BY <2>1, <2>2
<1>7. task' \in [Task -> TaskState]
  BY <1>1, <1>6
<1> QED BY <1>5, <1>6, <1>7, StepTypes

LEMMA TypeStep == TypeInv /\ [Next]_vars => TypeInv'
<1> SUFFICES ASSUME TypeInv, [Next]_vars PROVE TypeInv'
  OBVIOUS
<1>1. CASE \E S \in SUBSET Person : Restaff(S)
  <2>1. PICK S \in SUBSET Person : Restaff(S)
    BY <1>1
  <2>2. moves' \in 0..MaxMoves
    BY <2>1, Parts, NoticesAssumption DEF NoticesAssumption, Restaff, Tables
  <2> QED BY <2>1, <2>2 DEF Restaff, TypeInv, TypeOK, Fits, db, history, past
<1>2. CASE UNCHANGED vars
  BY <1>2 DEF vars, TypeInv, TypeOK, Fits, db, history, past
<1>3. ASSUME NEW t \in Task, Step(t) PROVE TypeInv'
  BY <1>3, ReadTypes, ReleaseTypes, ClaimTypes, ResolveTypes, FileTypes, DeliverTypes,
     PrereadTypes, GuardTypes, WriteTypes DEF Step
<1>4. ASSUME NEW t \in Task, Fails(t) PROVE TypeInv'
  BY <1>4, FailsTypes
<1>5. CASE Restart
  BY <1>5, RestartTypes
<1>6. CASE \E i \in Level : Recount(i)
  BY <1>6, RecountTypes
<1> QED
  BY <1>1, <1>2, <1>3, <1>4, <1>5, <1>6, EventTypes DEF Next

\* Whatever tasks, failures and restarts interleave, the tables, the places of
\* the tasks and their recipients stay of their types, and nobody ever
\* delivers to an empty list.
THEOREM TypeCorrect == Spec => []TypeOK
<1>1. TypeInv => TypeOK
  BY DEF TypeInv
<1> QED BY <1>1, InitTypes, TypeStep, PTL DEF Spec

-----------------------------------------------------------------------------
(* Who holds a key.                                                        *)

\* A task that won the claim of an event that is due once and is not done.
Owns(s) ==
  /\ s.key \in Once
  /\ s.pc \in {"file", "deliver", "release"} \/ (s.pc = "resolve" /\ s.key \notin Watch)

\* The owner has told nobody it is still to tell.
Untold(s) == \A p \in Person :
               (s.pc = "deliver" => p \in s.to) =>
                 told[s.key][p] = toldBefore[s.key][p]

\* An owner's key is held, by it alone; of a key that is not held nobody was
\* told since it was last pruned.  Alone, "nobody is told twice" is not inductive: it needs to know
\* who may still tell, and that this task is the only one.
Holders ==
  /\ \A t \in Task : Owns(task[t]) => task[t].key \in dedup /\ Untold(task[t])
  /\ \A t, u \in Task : Owns(task[t]) /\ Owns(task[u]) /\ task[t].key = task[u].key => t = u
  /\ \A k \in Once \ dedup : Fresh(k)

HolderInv == TypeInv /\ Holders

LEMMA FreeOwnsNothing == ~Owns(Free)
  BY DEF Owns, Free

LEMMA BegunOwnsNothing ==
  ASSUME NEW k \in Key, NEW c \in Person \cup {NoOne} PROVE ~Owns(Begin(k, c))
  BY BeginFits DEF Owns

\* The keys that are due once are as they were, and so are the notices of them.
Same == /\ dedup' \cap Once = dedup \cap Once
        /\ \A k \in Once : told'[k] = told[k] /\ toldBefore'[k] = toldBefore[k]

\* Then a task may own what it owned, as long as it has not begun to tell.
LEMMA Frame ==
  ASSUME HolderInv, Same,
         \A u \in Task : Owns(task'[u]) =>
           \/ task'[u] = task[u]
           \/ Owns(task[u]) /\ task[u].key = task'[u].key /\ task[u].pc # "deliver"
  PROVE  Holders'
<1>1. \A u \in Task : Owns(task'[u]) => Owns(task[u]) /\ task[u].key = task'[u].key
  OBVIOUS
<1>2. ASSUME NEW u \in Task, Owns(task'[u])
      PROVE  task'[u].key \in dedup' /\ Untold(task[u])'
  <2>1. task'[u].key \in Once /\ task[u].key \in dedup /\ Untold(task[u])
    BY <1>1, <1>2 DEF HolderInv, Holders, Owns
  <2>2. /\ told'[task'[u].key] = told[task'[u].key] /\ task'[u].key \in dedup'
        /\ toldBefore'[task'[u].key] = toldBefore[task'[u].key]
    BY <1>1, <1>2, <2>1 DEF Same
  <2>3. CASE task'[u] = task[u]
    BY <2>1, <2>2, <2>3 DEF Untold
  <2>4. CASE task[u].key = task'[u].key /\ task[u].pc # "deliver"
    BY <2>1, <2>2, <2>4 DEF Untold
  <2> QED BY <1>2, <2>2, <2>3, <2>4
<1>3. \A k \in Once \ dedup' : Fresh(k)'
  BY DEF HolderInv, Holders, Same, Fresh
<1>4. \A t, u \in Task : Owns(task'[t]) /\ Owns(task'[u]) /\ task'[t].key = task'[u].key => t = u
  BY <1>1 DEF HolderInv, Holders
<1> QED BY <1>2, <1>3, <1>4 DEF Holders, Owns

\* One task goes on, the others stay.
LEMMA OneGoesOn ==
  ASSUME TypeInv, NEW t \in Task, NEW p \in Place \ {"free"}, Goto(t, p), task[t].pc # "free"
  PROVE  /\ \A u \in Task \ {t} : task'[u] = task[u]
         /\ task'[t].pc = p /\ task'[t].key = task[t].key /\ task'[t].to = task[t].to
<1>1. task[t] \in TaskState /\ task[t].key \in Key /\ task \in [Task -> TaskState]
  BY AtWork, Parts
<1>2. task' = [task EXCEPT ![t] = [task[t] EXCEPT !.pc = p]]
  BY DEF Goto
<1> DEFINE s == [task[t] EXCEPT !.pc = p]
<1>3. s.pc = p /\ s.key = task[t].key /\ s.to = task[t].to
  BY <1>1, MoveFits
<1> HIDE DEF s
<1> QED BY <1>1, <1>2, <1>3 DEF s

LEMMA OneEnds ==
  ASSUME TypeInv, NEW t \in Task, End(t)
  PROVE  (\A u \in Task \ {t} : task'[u] = task[u]) /\ task'[t] = Free
  BY Parts DEF End

\* The three steps that touch a key that is due once.
Wins1(t)     == ClaimEvent(t) /\ task[t].key \in Once \ dedup
Releases1(t) == Release(t) /\ task[t].key \in Once
Delivers1(t) == Deliver(t) /\ task[t].key \in Once

LEMMA StartHolds ==
  ASSUME HolderInv, NEW t \in Task, NEW k \in Key, NEW c \in Person \cup {NoOne},
         Start(t, k, c), \A j \in Once : told'[j] = told[j] /\ toldBefore'[j] = toldBefore[j]
  PROVE  Holders' /\ Same
<1>1. task' = [task EXCEPT ![t] = Begin(k, c)] /\ dedup' = dedup
  BY DEF Start
<1>2. \A u \in Task : Owns(task'[u]) => task'[u] = task[u]
  BY <1>1, BegunOwnsNothing, Parts DEF HolderInv
<1>3. Same
  BY <1>1 DEF Same
<1> QED BY <1>2, <1>3, Frame

\* A level that moves is none of the events that are due once.
LEMMA BecomeApart ==
  ASSUME TypeInv, NEW i \in Level, NEW l, Become(i, l)
  PROVE  /\ \A k \in Key \ {i} : told'[k] = told[k] /\ toldBefore'[k] = toldBefore[k]
         /\ \A k \in Once : told'[k] = told[k] /\ toldBefore'[k] = toldBefore[k]
         /\ \A j \in Level \ {i} : low'[j] = low[j]
         /\ \A k : k # i => (k \in unheard' <=> k \in unheard)
         /\ unheard \cap Once \subseteq unheard'
<1>1. /\ told \in [Key -> [Person -> Nat]] /\ toldBefore \in [Key -> [Person -> Nat]]
      /\ low \in [Level -> BOOLEAN]
  BY Parts DEF Tables
<1>2. /\ told' = [told EXCEPT ![i] = [p \in Person |-> 0]] \/ told' = told
      /\ toldBefore' = [toldBefore EXCEPT ![i] = [p \in Person |-> 0]] \/ toldBefore' = toldBefore
      /\ unheard' = unheard \ {i} \/ unheard' = unheard
      /\ low' = [low EXCEPT ![i] = l]
  BY DEF Become
<1>3. i \notin Once /\ Once \subseteq Key
  BY Kinds DEF Key
<1>4. \A k \in Key \ {i} : told'[k] = told[k] /\ toldBefore'[k] = toldBefore[k]
  BY <1>1, <1>2
<1> QED BY <1>1, <1>2, <1>3, <1>4

LEMMA EventHolds ==
  ASSUME HolderInv, NEW t \in Task,
         \/ \E i \in Level : Touch(t, i)
         \/ \E k \in Once \ Decision : Occur(t, k)
         \/ \E d \in Decision, c \in Person : Decide(t, d, c)
  PROVE  Holders' /\ Same
<1>1. CASE \E i \in Level : Touch(t, i)
  <2>1. PICK i \in Level : Touch(t, i)
    BY <1>1
  <2>2. i \in Key /\ Start(t, i, NoOne)
    BY <2>1 DEF Touch, Key
  <2>3. \A k \in Once : told'[k] = told[k] /\ toldBefore'[k] = toldBefore[k]
    BY <2>1, BecomeApart DEF Touch, HolderInv
  <2> QED BY <2>2, <2>3, StartHolds
<1>2. CASE \E k \in Once \ Decision : Occur(t, k)
  BY <1>2, StartHolds DEF Occur, Key
<1>3. CASE \E d \in Decision, c \in Person : Decide(t, d, c)
  BY <1>3, StartHolds DEF Decide, Key, Once
<1> QED BY <1>1, <1>2, <1>3

\* A step of a task that wins, releases or delivers nothing that is due once.
LEMMA QuietHolds ==
  ASSUME HolderInv, NEW t \in Task, Step(t) \/ Fails(t),
         ~Wins1(t), ~Releases1(t), ~Delivers1(t)
  PROVE  Holders' /\ Same
<1> USE DEF HolderInv
<1>1. ASSUME Same, UNCHANGED task PROVE Holders'
  BY <1>1, Frame
<1>2. ASSUME Same, End(t) PROVE Holders'
  BY <1>2, OneEnds, FreeOwnsNothing, Frame
<1>3. ASSUME Same, NEW p \in Place \ {"free"}, Goto(t, p), task[t].pc # "free",
             p \in {"file", "deliver", "release", "resolve"} /\ task[t].key \in Once
               => Owns(task[t]) /\ task[t].pc # "deliver"
      PROVE  Holders'
  <2>1. \A u \in Task \ {t} : task'[u] = task[u]
    BY <1>3, OneGoesOn
  <2>2. task'[t].pc = p /\ task'[t].key = task[t].key
    BY <1>3, OneGoesOn
  <2>3. Owns(task'[t]) => Owns(task[t]) /\ task[t].key = task'[t].key /\ task[t].pc # "deliver"
    BY <1>3, <2>2 DEF Owns
  <2> QED BY <1>3, <2>1, <2>3, Frame
<1>4. CASE Read(t)
  <2>1. Same
    BY <1>4 DEF Read, Same, db, history, past
  <2>2. task[t].pc = "read" /\ task[t].key \in Level /\ task[t].key \notin Once
    BY <1>4, AtWork, Kinds DEF Read, Fits
  <2>3. Goto(t, "claim") \/ Goto(t, "release")
    BY <1>4 DEF Read
  <2> QED BY <1>3, <2>1, <2>2, <2>3 DEF Place
<1>5. CASE Release(t)
  <2>1. task[t].key \notin Once
    BY <1>5 DEF Releases1
  <2>2. Same
    BY <1>5, <2>1 DEF Release, Same, history, past
  <2> QED BY <1>2, <1>5, <2>2 DEF Release
<1>6. CASE ClaimEvent(t)
  <2>1. CASE task[t].key \in dedup
    <3>1. Same /\ End(t)
      BY <1>6, <2>1 DEF ClaimEvent, Wins, Same, history, past
    <3> QED BY <1>2, <3>1
  <2>2. CASE task[t].key \notin dedup
    <3> DEFINE k == task[t].key
    <3>1. k \notin Once /\ task[t].pc = "claim"
      BY <1>6, <2>2 DEF Wins1, ClaimEvent
    <3>2. Same /\ Goto(t, AfterClaim(k))
      BY <1>6, <2>2, <3>1 DEF ClaimEvent, Wins, Same, history, past
    <3>3. AfterClaim(k) \in Place \ {"free"}
      BY DEF AfterClaim, Place
    <3> QED BY <1>3, <3>1, <3>2, <3>3
  <2> QED BY <2>1, <2>2
<1>7. CASE Resolve(t)
  <2>1. Same /\ task[t].pc = "resolve" /\ task[t] \in TaskState
    BY <1>7, AtWork DEF Resolve, Same, db, history, past
  <2>2. CASE staff # {}
    <3> DEFINE s == [task[t] EXCEPT !.pc = AfterResolve(task[t].key), !.to = staff]
    <3>1. task' = [task EXCEPT ![t] = s]
      BY <1>7, <2>2 DEF Resolve
    <3>2. s.key = task[t].key /\ s.pc = AfterResolve(task[t].key)
      BY <2>1 DEF TaskState
    <3>3. s.pc = "deliver" => s.key \notin Watch
      BY <3>2 DEF AfterResolve
    <3>4. s.pc \in {"claim", "deliver"}
      BY <3>2 DEF AfterResolve
    <3> HIDE DEF s
    <3>5. Owns(s) => Owns(task[t]) /\ task[t].key = s.key /\ task[t].pc # "deliver"
      BY <2>1, <3>2, <3>3, <3>4 DEF Owns
    <3>6. task'[t] = s /\ \A u \in Task \ {t} : task'[u] = task[u]
      BY <3>1, Parts
    <3> QED BY <2>1, <3>5, <3>6, Frame
  <2>3. CASE staff = {}
    <3>1. (task[t].key \in Assign /\ Goto(t, "release")) \/ End(t)
      BY <1>7, <2>3 DEF Resolve, NobodyHome
    <3>2. task[t].key \in Assign => Owns(task[t])
      BY <2>1, AtWork, Kinds DEF Owns, Once
    <3> QED BY <1>2, <1>3, <2>1, <3>1, <3>2 DEF Place
  <2> QED BY <2>1, <2>2, <2>3
<1>8. CASE FileRequest(t)
  <2>1. Same
    BY <1>8 DEF FileRequest, Same, history, past
  <2>2. Owns(task[t]) /\ task[t].pc = "file"
    BY <1>8, AtWork DEF FileRequest, Fits, Owns, Once
  <2> QED BY <1>3, <1>8, <2>1, <2>2 DEF FileRequest, Place
<1>9. CASE Deliver(t)
  <2>1. task[t].key \notin Once /\ task[t].key \in Key /\ task[t].pc = "deliver"
        /\ task[t] \in TaskState
    BY <1>9, AtWork DEF Delivers1, Deliver
  <2>2. PICK p \in task[t].to :
          /\ told' = [told EXCEPT ![task[t].key][p] = @ + 1]
          /\ IF task[t].to = {p} THEN End(t)
             ELSE task' = [task EXCEPT ![t].to = @ \ {p}]
    BY <1>9 DEF Deliver
  <2>3. Same
    <3>1. ASSUME NEW k \in Once PROVE told'[k] = told[k]
      BY <2>1, <2>2, Parts DEF Tables, Key
    <3> QED BY <1>9, <3>1 DEF Deliver, Same, history, past
  <2>4. CASE task[t].to = {p}
    BY <1>2, <2>2, <2>3, <2>4
  <2>5. CASE task[t].to # {p}
    <3> DEFINE s == [task[t] EXCEPT !.to = @ \ {p}]
    <3>1. s.key = task[t].key
      BY <2>1 DEF TaskState
    <3>2. task' = [task EXCEPT ![t] = s]
      BY <2>2, <2>5
    <3> HIDE DEF s
    <3>3. ~Owns(s)
      BY <2>1, <3>1 DEF Owns
    <3>4. task'[t] = s /\ \A u \in Task \ {t} : task'[u] = task[u]
      BY <3>2, Parts
    <3> QED BY <2>3, <3>3, <3>4, Frame
  <2> QED BY <2>3, <2>4, <2>5
<1>10. CASE Preread(t)
  <2> DEFINE s == [task[t] EXCEPT !.pc = "guard", !.open = status[task[t].key[1]] = "open"]
  <2>1. task' = [task EXCEPT ![t] = s] /\ Same
    BY <1>10 DEF Preread, Same, db, history, past
  <2>2. s.pc = "guard"
    BY <1>10, AtWork DEF Preread, TaskState
  <2> HIDE DEF s
  <2>3. ~Owns(s)
    BY <2>2 DEF Owns
  <2>4. task'[t] = s /\ \A u \in Task \ {t} : task'[u] = task[u]
    BY <2>1, Parts
  <2> QED BY <2>1, <2>3, <2>4, Frame
<1>11. CASE Guard(t)
  <2>1. Same /\ task[t].pc = "guard" /\ (Goto(t, "write") \/ End(t))
    BY <1>11 DEF Guard, Same, db, history, past
  <2> QED BY <1>2, <1>3, <2>1 DEF Place
<1>12. CASE Write(t)
  <2>1. Same /\ task[t].pc = "write"
    BY <1>12 DEF Write, Same, history, past
  <2>2. CASE Tells(t)
    <3> DEFINE s == [task[t] EXCEPT !.pc = "claim", !.to = {Requester}]
    <3>1. task' = [task EXCEPT ![t] = s]
      BY <1>12, <2>2 DEF Write
    <3>2. s.pc = "claim"
      BY <2>1, AtWork DEF TaskState
    <3> HIDE DEF s
    <3>3. ~Owns(s)
      BY <3>2 DEF Owns
    <3>4. task'[t] = s /\ \A u \in Task \ {t} : task'[u] = task[u]
      BY <3>1, Parts
    <3> QED BY <2>1, <3>3, <3>4, Frame
  <2>3. CASE ~Tells(t)
    BY <1>2, <1>12, <2>1, <2>3 DEF Write
  <2> QED BY <2>1, <2>2, <2>3
<1>13. CASE Fails(t)
  <2>1. Same /\ ((task[t].pc = "preread" /\ Goto(t, "write")) \/ End(t))
    BY <1>13 DEF Fails, Same, db, history, past
  <2> QED BY <1>2, <1>3, <2>1 DEF Place
<1> QED
  BY <1>4, <1>5, <1>6, <1>7, <1>8, <1>9, <1>10, <1>11, <1>12, <1>13 DEF Step

-----------------------------------------------------------------------------
(* The three steps, and the refinement.                                    *)

LEMMA WinHolds ==
  ASSUME HolderInv, NEW t \in Task, Wins1(t)
  PROVE  Holders' /\ Teller!Claim(task[t].key)
<1> DEFINE k == task[t].key
<1>1. /\ task[t].pc = "claim" /\ k \in Once \ dedup /\ dedup' = dedup \cup {k} /\ told' = told
      /\ toldBefore' = toldBefore /\ Goto(t, AfterClaim(k))
  BY DEF Wins1, ClaimEvent, Wins, history, past
<1>2. Fresh(k) /\ \A u \in Task : ~(Owns(task[u]) /\ task[u].key = k)
  BY <1>1 DEF HolderInv, Holders
<1>3. AfterClaim(k) \in Place \ {"free"}
  BY DEF AfterClaim, Place
<1>4. /\ \A u \in Task \ {t} : task'[u] = task[u]
      /\ task'[t].key = k
  <2> DEFINE p == AfterClaim(k)
  <2>1. p \in Place \ {"free"} /\ Goto(t, p) /\ task[t].pc # "free"
    BY <1>1, <1>3
  <2> HIDE DEF p
  <2> QED BY <2>1, OneGoesOn DEF HolderInv
<1>5. \A u \in Task : Owns(task'[u]) => u = t \/ (Owns(task[u]) /\ task[u].key # k)
  BY <1>2, <1>4
<1>6. ASSUME NEW u \in Task, Owns(task'[u])
      PROVE  task'[u].key \in dedup' /\ Untold(task[u])'
  <2>1. CASE u = t
    BY <1>1, <1>2, <1>4, <2>1 DEF Untold, Fresh
  <2>2. CASE u # t
    <3>1. Owns(task[u]) /\ task'[u] = task[u]
      BY <1>4, <1>6, <2>2
    <3>2. task[u].key \in dedup /\ Untold(task[u])
      BY <3>1 DEF HolderInv, Holders
    <3> QED BY <1>1, <3>1, <3>2 DEF Untold
  <2> QED BY <2>1, <2>2
<1>7. \A u, v \in Task : Owns(task'[u]) /\ Owns(task'[v]) /\ task'[u].key = task'[v].key => u = v
  BY <1>4, <1>5 DEF HolderInv, Holders
<1>8. \A j \in Once \ dedup' : Fresh(j)'
  BY <1>1 DEF HolderInv, Holders, Fresh
<1>9. Holders'
  BY <1>6, <1>7, <1>8 DEF Holders
<1>10. Teller!Claim(k)
  BY <1>1 DEF Teller!Claim
<1> QED BY <1>9, <1>10

LEMMA ReleaseHolds ==
  ASSUME HolderInv, NEW t \in Task, Releases1(t)
  PROVE  Holders' /\ Teller!GiveBack(task[t].key)
<1> DEFINE k == task[t].key
<1>1. task[t].pc = "release" /\ k \in Once /\ dedup' = dedup \ {k} /\ told' = told /\ End(t)
      /\ toldBefore' = toldBefore
  BY DEF Releases1, Release, history, past
<1>2. Owns(task[t])
  BY <1>1 DEF Owns
<1>3. k \in dedup /\ Fresh(k)
  BY <1>1, <1>2 DEF HolderInv, Holders, Untold, Fresh
<1>4. task'[t] = Free /\ \A u \in Task \ {t} : task'[u] = task[u]
  BY <1>1, OneEnds DEF HolderInv
<1>5. ASSUME NEW u \in Task, Owns(task'[u])
      PROVE  task'[u].key \in dedup' /\ Untold(task[u])'
  <2>1. u # t /\ Owns(task[u]) /\ task'[u] = task[u]
    BY <1>4, <1>5, FreeOwnsNothing
  <2>2. task[u].key \in dedup /\ Untold(task[u]) /\ task[u].key # k
    BY <1>2, <2>1 DEF HolderInv, Holders
  <2> QED BY <1>1, <2>1, <2>2 DEF Untold
<1>6. \A u, v \in Task : Owns(task'[u]) /\ Owns(task'[v]) /\ task'[u].key = task'[v].key => u = v
  BY <1>4, FreeOwnsNothing DEF HolderInv, Holders
<1>7. \A j \in Once \ dedup' : Fresh(j)'
  BY <1>1, <1>3 DEF HolderInv, Holders, Fresh
<1>8. Holders'
  BY <1>5, <1>6, <1>7 DEF Holders
<1>9. \A p \in Person : told[k][p] - toldBefore[k][p] = 0
  BY <1>1, <1>3, Parts DEF Fresh, HolderInv, Tables, Key
<1>10. Teller!GiveBack(k)
  BY <1>1, <1>3, <1>9 DEF Teller!GiveBack
<1> QED BY <1>8, <1>10

LEMMA DeliverHolds ==
  ASSUME HolderInv, NEW t \in Task, Delivers1(t)
  PROVE  Holders' /\ \E p \in Person : Teller!Tell(task[t].key, p)
<1> DEFINE k == task[t].key
<1>1. /\ task[t].pc = "deliver" /\ k \in Once /\ dedup' = dedup /\ toldBefore' = toldBefore
      /\ task[t] \in TaskState /\ Fits(task[t]) /\ k \in Key
  BY AtWork DEF Delivers1, Deliver, HolderInv, history, past
<1>2. PICK p \in task[t].to :
        /\ told' = [told EXCEPT ![k][p] = @ + 1]
        /\ IF task[t].to = {p} THEN End(t)
           ELSE task' = [task EXCEPT ![t].to = @ \ {p}]
  BY DEF Delivers1, Deliver
<1>3. p \in Person
  BY <1>1 DEF TaskState
<1>4. Owns(task[t])
  BY <1>1 DEF Owns
<1>5. k \in dedup /\ Untold(task[t])
  BY <1>4 DEF HolderInv, Holders
<1>6. told[k][p] = toldBefore[k][p]
  BY <1>1, <1>2, <1>3, <1>5 DEF Untold
<1>8. /\ told[k] \in [Person -> Nat] /\ told \in [Key -> [Person -> Nat]]
      /\ toldBefore \in [Key -> [Person -> Nat]]
      /\ \A j \in Key, q \in Person : told[j][q] \in Nat /\ toldBefore[j][q] \in Nat
  BY <1>1, Parts DEF Tables, HolderInv
<1>9. /\ \A j \in Key \ {k} : told'[j] = told[j]
      /\ \A q \in Person \ {p} : told'[k][q] = told[k][q]
      /\ told'[k][p] = told[k][p] + 1
  BY <1>1, <1>2, <1>3, <1>8
<1>10. /\ \A u \in Task \ {t} : task'[u] = task[u]
       /\ task'[t] = Free \/ (/\ task'[t].key = k /\ task'[t].pc = "deliver"
                              /\ task'[t].to = task[t].to \ {p})
  <2>1. CASE task[t].to = {p}
    BY <1>2, <2>1, OneEnds DEF HolderInv
  <2>2. CASE task[t].to # {p}
    <3> DEFINE s == [task[t] EXCEPT !.to = @ \ {p}]
    <3>1. s.key = k /\ s.pc = "deliver" /\ s.to = task[t].to \ {p}
      BY <1>1 DEF TaskState
    <3>2. task' = [task EXCEPT ![t] = s]
      BY <1>2, <2>2
    <3> HIDE DEF s
    <3> QED BY <3>1, <3>2, Parts DEF HolderInv
  <2> QED BY <2>1, <2>2
<1>11. ASSUME NEW u \in Task, Owns(task'[u])
       PROVE  task'[u].key \in dedup' /\ Untold(task[u])'
  <2>1. CASE u = t
    <3>1. task'[t].key = k /\ task'[t].pc = "deliver" /\ task'[t].to = task[t].to \ {p}
      BY <1>10, <1>11, <2>1, FreeOwnsNothing
    <3>2. ASSUME NEW q \in Person, q \in task'[t].to PROVE told'[k][q] = toldBefore[k][q]
      <4>1. q # p /\ q \in task[t].to
        BY <3>1, <3>2
      <4>2. told[k][q] = toldBefore[k][q]
        BY <1>1, <1>5, <4>1 DEF Untold
      <4> QED BY <1>9, <4>1, <4>2
    <3> QED BY <1>1, <1>5, <2>1, <3>1, <3>2 DEF Untold
  <2>2. CASE u # t
    <3>1. Owns(task[u]) /\ task'[u] = task[u]
      BY <1>10, <1>11, <2>2
    <3>2. task[u].key \in dedup /\ Untold(task[u]) /\ task[u].key # k
      BY <1>4, <2>2, <3>1 DEF HolderInv, Holders
    <3>3. told'[task[u].key] = told[task[u].key]
      BY <1>9, <3>1, <3>2 DEF Owns, Key
    <3> QED BY <1>1, <3>1, <3>2, <3>3 DEF Untold
  <2> QED BY <2>1, <2>2
<1>12. \A u, v \in Task : Owns(task'[u]) /\ Owns(task'[v]) /\ task'[u].key = task'[v].key => u = v
  <2>1. \A u \in Task : Owns(task'[u]) => Owns(task[u]) /\ task'[u].key = task[u].key
    BY <1>4, <1>10, FreeOwnsNothing
  <2> QED BY <2>1 DEF HolderInv, Holders
<1>13. \A j \in Once \ dedup' : Fresh(j)'
  BY <1>1, <1>5, <1>9 DEF HolderInv, Holders, Fresh, Key
<1>14. Holders'
  BY <1>11, <1>12, <1>13 DEF Holders
<1>15. Teller!Tell(k, p)
  <2> DEFINE h == [j \in Once |-> [q \in Person |-> told[j][q] - toldBefore[j][q]]]
             g == [j \in Once |-> [q \in Person |-> told'[j][q] - toldBefore'[j][q]]]
  <2>1. g = [h EXCEPT ![k] = [h[k] EXCEPT ![p] = 1]]
    <3>1. ASSUME NEW j \in Once, j # k PROVE g[j] = h[j]
      BY <1>1, <1>9, <3>1 DEF Key
    <3>2. g[k] = [h[k] EXCEPT ![p] = 1]
      <4>1. ASSUME NEW q \in Person \ {p} PROVE g[k][q] = h[k][q]
        BY <1>1, <1>9
      <4>2. g[k][p] = 1
        BY <1>1, <1>3, <1>6, <1>8, <1>9
      <4>3. DOMAIN g[k] = Person /\ g[k] = [q \in Person |-> g[k][q]]
        BY <1>1
      <4> QED BY <1>1, <1>3, <4>1, <4>2, <4>3
    <3> QED BY <1>1, <3>1, <3>2
  <2>2. dedup' \cap Once = dedup \cap Once
    BY <1>1
  <2>3. h[k][p] = 0 /\ k \in dedup \cap Once
    BY <1>1, <1>3, <1>5, <1>6, <1>8
  <2> QED BY <2>1, <2>2, <2>3 DEF Teller!Tell
<1> QED BY <1>3, <1>14, <1>15

TellerStep ==
  [Teller!TellerNext]_<<dedup \cap Once,
                        [k \in Once |-> [p \in Person |-> told[k][p] - toldBefore[k][p]]]>>

LEMMA SameStutters == ASSUME Same PROVE TellerStep
<1>1. [k \in Once |-> [p \in Person |-> told[k][p] - toldBefore[k][p]]]' =
        [k \in Once |-> [p \in Person |-> told[k][p] - toldBefore[k][p]]]
  BY DEF Same
<1> QED BY <1>1 DEF Same, TellerStep

\* A restart leaves no owner, and ends the life of the keys it prunes.
LEMMA PruneHolds ==
  ASSUME HolderInv, NEW old \in SUBSET dedup, Prune(old), told' = told,
         \A t \in Task : ~Owns(task'[t])
  PROVE  Holders' /\ TellerStep
<1>1. /\ dedup' = dedup \ old
      /\ toldBefore' = [k \in Key |-> IF k \in old THEN told[k] ELSE toldBefore[k]]
  BY DEF Prune
<1>2. \A j \in Key, q \in Person : told[j][q] \in Nat /\ toldBefore[j][q] \in Nat
  BY Parts DEF Tables, HolderInv
<1>3. ASSUME NEW k \in Once \ dedup' PROVE Fresh(k)'
  <2>1. k \in Key
    BY DEF Key
  <2>2. CASE k \in old
    BY <1>1, <2>1, <2>2 DEF Fresh
  <2>3. CASE k \notin old
    <3>1. Fresh(k) /\ toldBefore'[k] = toldBefore[k]
      BY <1>1, <1>3, <2>1, <2>3 DEF HolderInv, Holders
    <3> QED BY <3>1 DEF Fresh
  <2> QED BY <2>2, <2>3
<1>4. Holders'
  BY <1>3 DEF Holders
<1>5. Teller!Expire(old \cap Once)
  <2> DEFINE h == [j \in Once |-> [q \in Person |-> told[j][q] - toldBefore[j][q]]]
             g == [j \in Once |-> [q \in Person |-> told'[j][q] - toldBefore'[j][q]]]
  <2>1. ASSUME NEW k \in Once
        PROVE  g[k] = IF k \in old \cap Once THEN [p \in Person |-> 0] ELSE h[k]
    <3>1. CASE k \in old
      <4>1. \A q \in Person : told'[k][q] - toldBefore'[k][q] = 0
        BY <1>1, <1>2, <3>1 DEF Key
      <4> QED BY <3>1, <4>1
    <3>2. CASE k \notin old
      BY <1>1, <3>2 DEF Key
    <3> QED BY <3>1, <3>2
  <2>2. g = [k \in Once |-> IF k \in old \cap Once THEN [p \in Person |-> 0] ELSE h[k]]
    BY <2>1
  <2>3. dedup' \cap Once = (dedup \cap Once) \ (old \cap Once)
    BY <1>1
  <2> QED BY <2>2, <2>3 DEF Teller!Expire
<1>6. old \cap Once \in SUBSET (dedup \cap Once)
  OBVIOUS
<1> QED BY <1>4, <1>5, <1>6 DEF TellerStep, Teller!TellerNext

LEMMA HolderStep ==
  ASSUME HolderInv, [Next]_vars
  PROVE  Holders' /\ TellerStep
<1>1. ASSUME NEW t \in Task, Step(t) \/ Fails(t)
      PROVE  Holders' /\ TellerStep
  <2>1. CASE Wins1(t)
    <3>1. Holders' /\ Teller!Claim(task[t].key) /\ task[t].key \in Once
      BY <2>1, WinHolds DEF Wins1
    <3> QED BY <3>1 DEF TellerStep, Teller!TellerNext
  <2>2. CASE Releases1(t)
    <3>1. Holders' /\ Teller!GiveBack(task[t].key) /\ task[t].key \in Once
      BY <2>2, ReleaseHolds DEF Releases1
    <3> QED BY <3>1 DEF TellerStep, Teller!TellerNext
  <2>3. CASE Delivers1(t)
    <3>1. Holders' /\ task[t].key \in Once
      BY <2>3, DeliverHolds DEF Delivers1
    <3>2. \E p \in Person : Teller!Tell(task[t].key, p)
      BY <2>3, DeliverHolds
    <3>3. \E k \in Once : \E p \in Person : Teller!Tell(k, p)
      <4>1. PICK k \in Once : k = task[t].key
        BY <3>1
      <4>2. \E p \in Person : Teller!Tell(k, p)
        BY <3>2, <4>1 DEF Teller!Tell
      <4> QED BY <4>2
    <3>4. Teller!TellerNext
      BY <3>3 DEF Teller!TellerNext
    <3> QED BY <3>1, <3>4 DEF TellerStep
  <2>4. CASE ~Wins1(t) /\ ~Releases1(t) /\ ~Delivers1(t)
    BY <1>1, <2>4, QuietHolds, SameStutters
  <2> QED BY <2>1, <2>2, <2>3, <2>4
<1>2. ASSUME Same, UNCHANGED task PROVE Holders' /\ TellerStep
  BY <1>2, Frame, SameStutters
<1>3. CASE Restart
  <2>1. PICK old \in SUBSET dedup : Prune(old)
    BY <1>3 DEF Restart
  <2>2. PICK again \in SUBSET {t \in Task : task[t] # Free} :
          task' = [t \in Task |-> IF t \in again
                                  THEN Begin(task[t].key, task[t].by) ELSE Free]
    BY <1>3 DEF Restart
  <2>3. ASSUME NEW t \in Task PROVE ~Owns(task'[t])
    <3>1. CASE t \in again
      <4>1. task[t].key \in Key /\ task[t] \in TaskState
        BY <3>1, AtWork, NotFree DEF HolderInv
      <4>2. task[t].by \in Person \cup {NoOne}
        BY <4>1 DEF TaskState
      <4> QED BY <2>2, <3>1, <4>1, <4>2, BegunOwnsNothing
    <3>2. CASE t \notin again
      BY <2>2, <3>2, FreeOwnsNothing
    <3> QED BY <3>1, <3>2
  <2>4. told' = told
    BY <1>3 DEF Restart
  <2> QED BY <2>1, <2>3, <2>4, PruneHolds
<1>4. CASE \E S \in SUBSET Person : Restaff(S)
  BY <1>2, <1>4 DEF Restaff, Same, db, history, past
<1>5. CASE UNCHANGED vars
  BY <1>2, <1>5 DEF vars, Same, db, history, past
<1>6. ASSUME NEW t \in Task,
             \/ \E i \in Level : Touch(t, i)
             \/ \E k \in Once \ Decision : Occur(t, k)
             \/ \E d \in Decision, c \in Person : Decide(t, d, c)
      PROVE  Holders' /\ TellerStep
  BY <1>6, EventHolds, SameStutters
<1>7. ASSUME NEW i \in Level, Recount(i) PROVE Holders' /\ TellerStep
  <2>1. \A k \in Once : told'[k] = told[k] /\ toldBefore'[k] = toldBefore[k]
    BY <1>7, BecomeApart DEF Recount, HolderInv
  <2>2. dedup' = dedup /\ task' = task
    BY <1>7 DEF Recount
  <2> QED BY <1>2, <2>1, <2>2 DEF Same
<1> QED BY <1>1, <1>3, <1>4, <1>5, <1>6, <1>7 DEF Next

LEMMA HolderByNext == HolderInv /\ [Next]_vars => HolderInv'
  BY HolderStep, TypeStep DEF HolderInv

LEMMA HolderAtInit == Init => HolderInv
<1>1. ASSUME Init PROVE Holders
  BY <1>1, FreeOwnsNothing DEF Init, Holders, Fresh, Key
<1> QED BY <1>1, InitTypes DEF HolderInv

\* For any number of handlers, retries, timers, failures and restarts: of an
\* event that is due once one task at a time may tell anybody, nobody is told
\* twice while its key is not pruned, and the key is given back only while
\* nobody has been told.
THEOREM TellsOnceHolds == Spec => TellsOnce
<1>1. Init => HolderInv
  BY HolderAtInit
<1>2. HolderInv /\ [Next]_vars => HolderInv' /\ TellerStep
  BY HolderStep, TypeStep DEF HolderInv
<1>3. Init => Teller!TellerInit
  BY DEF Init, Teller!TellerInit, Key
<1> QED
  BY <1>1, <1>2, <1>3, PTL
     DEF Spec, TellsOnce, Teller!TellerSpec, Teller!tellerVars, TellerStep

-----------------------------------------------------------------------------
(* No claimed key is left behind.                                          *)

\* Why a held key with nothing sent may have no owner.
Excused(k) == k \in died \/ (k \in Record \cup Large /\ k \in unheard)

\* The same after a step, of a key that the step does not rename.
ExcusedNext(k) == k \in died' \/ (k \in Record \cup Large /\ k \in unheard')
ToldNext(k)    == \E p \in Person : told'[k][p] # toldBefore'[k][p]

\* A held key nobody was told of since it was last pruned has an owner, or an
\* excuse.
Served ==
  \A k \in dedup \cap (Once \ Decision) :
    Fresh(k) => Excused(k) \/ \E t \in Task : Owns(task[t]) /\ task[t].key = k

\* Nothing new is held; an owner stays one, or its key needs none any more.
LEMMA ServedFrame ==
  ASSUME Served,
         dedup' \cap Once \subseteq dedup,
         died \subseteq died', unheard \cap Once \subseteq unheard',
         \A k \in Once \cap dedup' : Fresh(k)' => Fresh(k),
         \A t \in Task : Owns(task[t]) /\ task[t].key \notin Decision =>
           \/ Owns(task'[t]) /\ task'[t].key = task[t].key
           \/ task[t].key \notin dedup'
           \/ ToldNext(task[t].key)
           \/ ExcusedNext(task[t].key)
  PROVE  Served'
<1>1. ASSUME NEW k \in Once PROVE Excused(k) => Excused(k)'
  BY <1>1 DEF Excused
<1>2. ASSUME NEW k \in dedup' \cap (Once \ Decision), Fresh(k)'
      PROVE  Excused(k)' \/ \E t \in Task : Owns(task'[t]) /\ task'[t].key = k
  <2>1. k \in dedup /\ Fresh(k)
    BY <1>2
  <2>2. CASE Excused(k)
    BY <1>1, <1>2, <2>2
  <2>3. CASE \E t \in Task : Owns(task[t]) /\ task[t].key = k
    <3>1. PICK t \in Task : Owns(task[t]) /\ task[t].key = k
      BY <2>3
    <3>2. \/ Owns(task'[t]) /\ task'[t].key = k
          \/ k \notin dedup' \/ ToldNext(k) \/ ExcusedNext(k)
      BY <1>2, <3>1
    <3> QED BY <1>2, <3>2 DEF ToldNext, ExcusedNext, Fresh, Excused
  <2> QED BY <1>2, <2>1, <2>2, <2>3 DEF Served
<1> QED BY <1>2 DEF Served, Owns

\* Where the tables of notices do not change, only the owners matter.
Untouched == /\ UNCHANGED <<dedup, told, toldBefore>>
             /\ died \subseteq died' /\ unheard \cap Once \subseteq unheard'

LEMMA UntouchedServed ==
  ASSUME Served, Untouched,
         \A t \in Task : Owns(task[t]) /\ task[t].key \notin Decision =>
           \/ Owns(task'[t]) /\ task'[t].key = task[t].key
           \/ ExcusedNext(task[t].key)
  PROVE  Served'
<1>1. \A k \in Once : Fresh(k)' => Fresh(k)
  BY DEF Untouched, Fresh
<1> QED BY <1>1, ServedFrame DEF Untouched

LEMMA EventServed ==
  ASSUME TypeInv, Served, NEW t \in Task, NEW k \in Key, NEW c, Start(t, k, c),
         \A j \in Once : told'[j] = told[j] /\ toldBefore'[j] = toldBefore[j],
         unheard \cap Once \subseteq unheard'
  PROVE  Served'
<1>1. task[t] = Free /\ \A u \in Task \ {t} : task'[u] = task[u]
  BY Parts DEF Start
<1>2. \A u \in Task : Owns(task[u]) => Owns(task'[u]) /\ task'[u].key = task[u].key
  BY <1>1, FreeOwnsNothing
<1>3. \A j \in Once : Fresh(j)' => Fresh(j)
  BY DEF Fresh
<1> QED BY <1>2, <1>3, ServedFrame DEF Start

LEMMA TaskServed ==
  ASSUME HolderInv, Served, NEW t \in Task, Step(t) \/ Fails(t)
  PROVE  Served'
<1>0. TypeInv
  BY DEF HolderInv
<1> USE <1>0
<1>1. ASSUME Untouched, ~Owns(task[t]) \/ task[t].key \in Decision \/ ExcusedNext(task[t].key),
             \A u \in Task \ {t} : task'[u] = task[u]
      PROVE  Served'
  BY <1>1, UntouchedServed
<1>2. ASSUME NEW p \in Place \ {"free"}, Goto(t, p) \/ End(t), task[t].pc # "free"
      PROVE  \A u \in Task \ {t} : task'[u] = task[u]
  BY <1>2, OneGoesOn, OneEnds
<1>3. CASE Read(t)
  <2>1. ~Owns(task[t]) /\ Untouched /\ task[t].pc # "free"
    BY <1>3 DEF Read, Owns, Untouched, db, history, past
  <2>2. Goto(t, "claim") \/ Goto(t, "release")
    BY <1>3 DEF Read
  <2> QED BY <1>1, <1>2, <2>1, <2>2 DEF Place
<1>4. CASE Release(t)
  <2>1. \A u \in Task \ {t} : task'[u] = task[u]
    BY <1>4, OneEnds DEF Release
  <2>2. dedup' = dedup \ {task[t].key} /\ UNCHANGED <<told, toldBefore, died, unheard>>
    BY <1>4 DEF Release, history, past
  <2>3. \A k \in Once : Fresh(k)' => Fresh(k)
    BY <2>2 DEF Fresh
  <2> QED BY <2>1, <2>2, <2>3, ServedFrame
<1>5. CASE ClaimEvent(t)
  <2> DEFINE k == task[t].key
             p == AfterClaim(k)
  <2>1. task[t].pc = "claim" /\ UNCHANGED <<told, toldBefore, died, unheard>> /\ ~Owns(task[t])
    BY <1>5 DEF ClaimEvent, history, past, Owns
  <2>2. CASE k \in dedup
    <3>1. Untouched /\ End(t)
      BY <1>5, <2>1, <2>2 DEF ClaimEvent, Wins, Untouched
    <3>2. \A u \in Task \ {t} : task'[u] = task[u]
      BY <3>1, OneEnds
    <3> QED BY <1>1, <2>1, <3>1, <3>2
  <2>3. CASE k \notin dedup
    <3>1. dedup' = dedup \cup {k} /\ Goto(t, p)
      BY <1>5, <2>3 DEF ClaimEvent, Wins
    <3>2. p \in {"file", "deliver", "resolve"} /\ (p = "resolve" => k \notin Watch)
      BY DEF AfterClaim
    <3> HIDE DEF p
    <3>3. p \in Place \ {"free"}
      BY <3>2 DEF Place
    <3>4. /\ \A u \in Task \ {t} : task'[u] = task[u]
          /\ task'[t].pc = p /\ task'[t].key = k
      BY <2>1, <3>1, <3>3, OneGoesOn
    <3>5. k \in Once => Owns(task'[t])
      BY <3>2, <3>4 DEF Owns
    <3>6. ASSUME NEW j \in dedup' \cap (Once \ Decision), Fresh(j)'
          PROVE  Excused(j)' \/ \E u \in Task : Owns(task'[u]) /\ task'[u].key = j
      <4>1. CASE j = k
        BY <3>4, <3>5, <4>1
      <4>2. CASE j # k
        <5>1. j \in dedup /\ Fresh(j)
          BY <2>1, <3>1, <3>6, <4>2 DEF Fresh
        <5>2. Excused(j) \/ \E u \in Task : Owns(task[u]) /\ task[u].key = j
          BY <5>1 DEF Served
        <5>3. Excused(j) => Excused(j)'
          BY <2>1 DEF Excused
        <5>4. ASSUME NEW u \in Task, Owns(task[u]), task[u].key = j
              PROVE  Owns(task'[u]) /\ task'[u].key = j
          BY <2>1, <3>4, <5>4
        <5> QED BY <5>2, <5>3, <5>4
      <4> QED BY <4>1, <4>2
    <3> QED BY <3>6 DEF Served, Owns
  <2> QED BY <2>2, <2>3
<1>6. CASE Resolve(t)
  <2> DEFINE k == task[t].key
  <2>1. /\ task[t].pc = "resolve" /\ task[t] \in TaskState /\ k \in Key /\ k \notin Decision
        /\ UNCHANGED <<dedup, told, toldBefore, died>> /\ unheard \subseteq unheard'
    BY <1>6, AtWork DEF Resolve, db, Fits, past
  <2>2. Untouched
    BY <2>1 DEF Untouched
  <2>3. CASE staff # {}
    <3> DEFINE s == [task[t] EXCEPT !.pc = AfterResolve(k), !.to = staff]
    <3>1. task' = [task EXCEPT ![t] = s]
      BY <1>6, <2>3 DEF Resolve
    <3>2. s.key = k /\ s.pc = AfterResolve(k)
      BY <2>1 DEF TaskState
    <3>3. k \notin Watch => AfterResolve(k) = "deliver"
      BY DEF AfterResolve
    <3> HIDE DEF s
    <3>4. Owns(task[t]) => Owns(s) /\ s.key = k
      BY <2>1, <3>2, <3>3 DEF Owns
    <3>5. task'[t] = s /\ \A u \in Task \ {t} : task'[u] = task[u]
      BY <3>1, Parts
    <3> QED BY <2>2, <3>4, <3>5, UntouchedServed
  <2>4. CASE staff = {} /\ k \in Assign
    <3>1. Goto(t, "release")
      BY <1>6, <2>4 DEF Resolve, NobodyHome
    <3>2. task'[t].pc = "release" /\ task'[t].key = k /\ \A u \in Task \ {t} : task'[u] = task[u]
      BY <2>1, <3>1, OneGoesOn DEF Place
    <3>3. Owns(task'[t])
      BY <2>4, <3>2 DEF Owns, Once
    <3> QED BY <2>2, <3>2, <3>3, UntouchedServed
  <2>5. CASE staff = {} /\ k \notin Assign
    <3>1. End(t) /\ k \in unheard'
      BY <1>6, <2>5 DEF Resolve, NobodyHome
    <3>2. Owns(task[t]) => k \in Record \cup Large
      BY <2>1, <2>5 DEF Owns, Once
    <3>3. ~Owns(task[t]) \/ ExcusedNext(k)
      BY <3>1, <3>2 DEF ExcusedNext
    <3> QED BY <1>1, <2>2, <3>1, <3>3, OneEnds
  <2> QED BY <2>3, <2>4, <2>5
<1>7. CASE FileRequest(t)
  <2>1. task[t].pc = "file" /\ task[t].key \in Large /\ Goto(t, "resolve") /\ Untouched
    BY <1>7, AtWork DEF FileRequest, Fits, Untouched, history, past
  <2>2. /\ task'[t].pc = "resolve" /\ task'[t].key = task[t].key
        /\ \A u \in Task \ {t} : task'[u] = task[u]
    BY <2>1, OneGoesOn DEF Place
  <2>3. Owns(task'[t])
    BY <2>1, <2>2, Kinds DEF Owns, Key, Once
  <2> QED BY <2>1, <2>2, <2>3, UntouchedServed
<1>8. CASE Deliver(t)
  <2> DEFINE k == task[t].key
  <2>1. /\ task[t].pc = "deliver" /\ task[t] \in TaskState /\ k \in Key
        /\ UNCHANGED <<dedup, died, unheard, toldBefore>>
    BY <1>8, AtWork DEF Deliver, history, past
  <2>2. PICK p \in task[t].to :
          /\ told' = [told EXCEPT ![k][p] = @ + 1]
          /\ IF task[t].to = {p} THEN End(t)
             ELSE task' = [task EXCEPT ![t].to = @ \ {p}]
    BY <1>8 DEF Deliver
  <2>3. p \in Person /\ told \in [Key -> [Person -> Nat]] /\ told[k][p] \in Nat
    BY <2>1, Parts DEF TaskState, Tables
  <2>4. told'[k][p] = told[k][p] + 1
    BY <2>1, <2>2, <2>3
  <2>5. k \in Once \cap dedup => ToldNext(k)
    <3>1. k \in Once \cap dedup => told[k][p] = toldBefore[k][p]
      BY <2>1, <2>2 DEF HolderInv, Holders, Owns, Untold, TaskState
    <3>2. k \in Once \cap dedup => told'[k][p] # toldBefore'[k][p]
      BY <2>1, <2>3, <2>4, <3>1
    <3> QED BY <2>3, <3>2 DEF ToldNext
  <2>6. \A j \in Key \ {k} : told'[j] = told[j]
    BY <2>1, <2>2, <2>3
  <2>7. \A j \in Once \cap dedup' : Fresh(j)' => Fresh(j)
    <3> SUFFICES ASSUME NEW j \in Once \cap dedup', Fresh(j)' PROVE Fresh(j)
      OBVIOUS
    <3>1. j # k
      BY <2>1, <2>5 DEF Fresh, ToldNext
    <3>2. told'[j] = told[j] /\ toldBefore' = toldBefore
      BY <2>1, <2>6, <3>1 DEF Key
    <3> QED BY <3>2 DEF Fresh
  <2>8. \A u \in Task \ {t} : task'[u] = task[u]
    BY <2>2, Parts DEF End
  <2>9. Owns(task[t]) => k \notin dedup' \/ ToldNext(k)
    BY <2>1, <2>5 DEF Owns
  <2> QED BY <2>1, <2>7, <2>8, <2>9, ServedFrame
<1>9. CASE Preread(t)
  <2>1. ~Owns(task[t]) /\ Untouched
    BY <1>9 DEF Preread, Owns, Untouched, db, history, past
  <2>2. \A u \in Task \ {t} : task'[u] = task[u]
    BY <1>9, Parts DEF Preread
  <2> QED BY <1>1, <2>1, <2>2
<1>10. CASE Guard(t)
  <2>1. ~Owns(task[t]) /\ Untouched /\ task[t].pc # "free"
    BY <1>10 DEF Guard, Owns, Untouched, db, history, past
  <2>2. Goto(t, "write") \/ End(t)
    BY <1>10 DEF Guard
  <2> QED BY <1>1, <1>2, <2>1, <2>2 DEF Place
<1>11. CASE Write(t)
  <2>1. ~Owns(task[t]) /\ Untouched
    BY <1>11 DEF Write, Owns, Untouched, history, past
  <2>2. \A u \in Task \ {t} : task'[u] = task[u]
    BY <1>11, Parts DEF Write, End
  <2> QED BY <1>1, <2>1, <2>2
<1>12. CASE Fails(t)
  <2>1. Untouched /\ task[t].key \in died'
    BY <1>12 DEF Fails, Untouched, db, past
  <2>2. ExcusedNext(task[t].key)
    BY <2>1 DEF ExcusedNext
  <2>3. \A u \in Task \ {t} : task'[u] = task[u]
    BY <1>12, Parts DEF Fails, Goto, End
  <2> QED BY <1>1, <2>1, <2>2, <2>3
<1> QED
  BY <1>3, <1>4, <1>5, <1>6, <1>7, <1>8, <1>9, <1>10, <1>11, <1>12 DEF Step

LEMMA ServedStep == ASSUME HolderInv, Served, [Next]_vars PROVE Served'
<1>0. TypeInv
  BY DEF HolderInv
<1> USE <1>0
<1>1. ASSUME Untouched, UNCHANGED task PROVE Served'
  BY <1>1, UntouchedServed
<1>2. CASE Restart
  <2>1. PICK old \in SUBSET dedup : Prune(old)
    BY <1>2 DEF Restart
  <2>4. /\ dedup' = dedup \ old /\ told' = told /\ unheard' = unheard
        /\ \A k \in Key \ old : toldBefore'[k] = toldBefore[k]
    BY <1>2, <2>1 DEF Restart, Prune
  <2>5. \A k \in Once \cap dedup' : Fresh(k)' => Fresh(k)
    BY <2>4 DEF Fresh, Key
  <2>2. PICK again \in SUBSET {t \in Task : task[t] # Free} :
          died' = died \cup {task[t].key : t \in {s \in Task :
                    task[s] # Free /\ ~(s \in again /\ Early(s))}}
    BY <1>2 DEF Restart
  <2>3. ASSUME NEW t \in Task, Owns(task[t]), task[t].key \notin Decision
        PROVE  ExcusedNext(task[t].key)
    <3>1. ~Early(t) /\ task[t] # Free
      BY <2>3, FreeOwnsNothing DEF Owns, Early
    <3>2. task[t].key \in died'
      BY <2>2, <3>1
    <3> QED BY <3>2 DEF ExcusedNext
  <2>6. died \subseteq died'
    BY <1>2 DEF Restart
  <2> QED BY <2>3, <2>4, <2>5, <2>6, ServedFrame
<1>3. CASE \E S \in SUBSET Person : Restaff(S)
  BY <1>1, <1>3 DEF Restaff, Untouched, db, history, past
<1>4. CASE UNCHANGED vars
  BY <1>1, <1>4 DEF vars, Untouched, db, history, past
<1>5. ASSUME NEW t \in Task, NEW i \in Level, Touch(t, i) PROVE Served'
  <2>1. i \in Key /\ Start(t, i, NoOne)
    BY <1>5 DEF Touch, Key
  <2>2. /\ \A j \in Once : told'[j] = told[j] /\ toldBefore'[j] = toldBefore[j]
        /\ unheard \cap Once \subseteq unheard'
    BY <1>5, BecomeApart DEF Touch
  <2> QED BY <2>1, <2>2, EventServed
<1>6. ASSUME NEW t \in Task, NEW k \in Once, Occur(t, k) PROVE Served'
  BY <1>6, EventServed DEF Occur, Key
<1>7. ASSUME NEW t \in Task, NEW d \in Decision, NEW c \in Person, Decide(t, d, c) PROVE Served'
  BY <1>7, EventServed DEF Decide, Key, Once
<1>8. ASSUME NEW i \in Level, Recount(i) PROVE Served'
  <2>1. /\ \A j \in Once : told'[j] = told[j] /\ toldBefore'[j] = toldBefore[j]
        /\ unheard \cap Once \subseteq unheard'
    BY <1>8, BecomeApart DEF Recount
  <2>2. UNCHANGED <<dedup, task, died>>
    BY <1>8 DEF Recount
  <2>3. \A j \in Once : Fresh(j)' => Fresh(j)
    BY <2>1 DEF Fresh
  <2> QED BY <2>1, <2>2, <2>3, ServedFrame
<1> QED BY <1>2, <1>3, <1>4, <1>5, <1>6, <1>7, <1>8, TaskServed DEF Next

\* No event key is left claimed with nothing sent, for any number of handlers
\* and restarts, unless a failure cut its handler short or, where the code
\* claims before it looks for recipients, nobody was there.
THEOREM KeysAreServed == Spec => []NoBurnedKey
<1>1. Init => Served
  BY DEF Init, Served
<1>2. TypeInv /\ Served => NoBurnedKey
  <2> SUFFICES ASSUME TypeInv, Served,
                      NEW k \in dedup \cap (Once \ Decision), Quiet(k), Fresh(k)
               PROVE  Excused(k)
    BY DEF NoBurnedKey, Excused
  <2>1. \A t \in Task : task[t].key # k
    BY DEF Quiet, Working
  <2> QED BY <2>1 DEF Served
<1>3. HolderInv => TypeInv
  BY DEF HolderInv
<1> QED BY <1>1, <1>2, <1>3, HolderAtInit, HolderByNext, ServedStep, PTL DEF Spec

-----------------------------------------------------------------------------
(* What each step does to its task, stated once for the invariants below.  *)

\* The places a task of each kind passes.
LEMMA Courses ==
  ASSUME NEW k \in Key
  PROVE  /\ k \in Level => /\ First(k) = "read" /\ AfterClaim(k) = "resolve"
                           /\ AfterResolve(k) = "deliver"
         /\ k \in Large => First(k) = "claim" /\ AfterClaim(k) = "file"
         /\ k \in Decision => First(k) = "preread" /\ AfterClaim(k) = "deliver"
<1>1. k \in Level => k \notin Watch \cup Decision \cup Large
  BY Kinds DEF Once
<1>2. CASE k \in Level
  BY <1>1, <1>2, Kinds DEF First, AfterClaim, AfterResolve
<1>3. CASE k \in Large
  BY <1>3, Kinds DEF First, AfterClaim, AfterResolve
<1>4. CASE k \in Decision
  BY <1>4, Kinds DEF First, AfterClaim, AfterResolve
<1> QED BY <1>2, <1>3, <1>4, Kinds DEF Once

\* Only its own task moves with a step, and it keeps its event or ends.
Stays(t) == \A u \in Task \ {t} : task'[u] = task[u]
Ends(t)  == task'[t] = Free
Goes(t, p) == task'[t].key = task[t].key /\ task'[t].pc = p

LEMMA GotoMoves ==
  ASSUME TypeInv, NEW t \in Task, NEW p \in Place \ {"free"}, Goto(t, p), task[t].pc # "free"
  PROVE  Stays(t) /\ Goes(t, p) /\ task'[t].to = task[t].to /\ task'[t].open = task[t].open
<1>1. task[t] \in TaskState /\ task \in [Task -> TaskState]
  BY AtWork, Parts
<1>2. task'[t] = [task[t] EXCEPT !.pc = p] /\ Stays(t)
  BY <1>1 DEF Goto, Stays
<1> QED BY <1>1, <1>2 DEF TaskState, Goes

LEMMA EndMoves ==
  ASSUME TypeInv, NEW t \in Task, End(t)
  PROVE  Stays(t) /\ Ends(t)
  BY OneEnds DEF Stays, Ends

LEMMA ReadMoves ==
  ASSUME TypeInv, NEW t \in Task, Read(t)
  PROVE  /\ task[t].key \in Level /\ task[t].pc = "read" /\ Stays(t)
         /\ Goes(t, IF low[task[t].key] THEN "claim" ELSE "release")
<1>1. task[t].pc = "read" /\ task[t].key \in Level
  BY AtWork DEF Read, Fits
<1>2. Goto(t, IF low[task[t].key] THEN "claim" ELSE "release")
  BY DEF Read
<1> QED BY <1>1, <1>2, GotoMoves DEF Place

LEMMA ClaimMoves ==
  ASSUME TypeInv, NEW t \in Task, ClaimEvent(t)
  PROVE  /\ task[t].key \in Key /\ task[t].pc = "claim" /\ Stays(t)
         /\ task[t].key \in dedup => dedup' = dedup /\ Ends(t)
         /\ task[t].key \notin dedup =>
              /\ dedup' = dedup \cup {task[t].key}
              /\ Goes(t, AfterClaim(task[t].key)) /\ task'[t].to = task[t].to
<1>1. task[t].pc = "claim" /\ task[t].key \in Key
  BY AtWork DEF ClaimEvent
<1>2. AfterClaim(task[t].key) \in Place \ {"free"}
  BY DEF AfterClaim, Place
<1>3. CASE task[t].key \in dedup
  BY <1>1, <1>3, EndMoves DEF ClaimEvent, Wins
<1>4. CASE task[t].key \notin dedup
  BY <1>1, <1>2, <1>4, GotoMoves DEF ClaimEvent, Wins
<1> QED BY <1>1, <1>3, <1>4

LEMMA ResolveMoves ==
  ASSUME TypeInv, NEW t \in Task, Resolve(t)
  PROVE  /\ task[t].key \in Key \ Decision /\ task[t].pc = "resolve" /\ Stays(t)
         /\ staff # {} => /\ Goes(t, AfterResolve(task[t].key))
                          /\ unheard' = unheard /\ task'[t].to = staff
         /\ staff = {} => /\ Ends(t) \/ (task[t].key \in Assign /\ Goes(t, "release"))
                          /\ unheard' = unheard \cup {task[t].key}
<1>1. /\ task[t].pc = "resolve" /\ task[t].key \in Key \ Decision
      /\ task[t] \in TaskState /\ task \in [Task -> TaskState]
  BY AtWork, Parts DEF Resolve, Fits
<1>2. CASE staff # {}
  <2>1. /\ task'[t] = [task[t] EXCEPT !.pc = AfterResolve(task[t].key), !.to = staff]
        /\ Stays(t) /\ unheard' = unheard
    BY <1>1, <1>2 DEF Resolve, Stays
  <2> QED BY <1>1, <1>2, <2>1 DEF TaskState, Goes
<1>3. CASE staff = {}
  <2>1. (task[t].key \in Assign /\ Goto(t, "release")) \/ End(t)
    BY <1>3 DEF Resolve, NobodyHome
  <2>2. unheard' = unheard \cup {task[t].key}
    BY <1>3 DEF Resolve
  <2> QED BY <1>1, <1>3, <2>1, <2>2, GotoMoves, EndMoves DEF Place
<1> QED BY <1>1, <1>2, <1>3

LEMMA FileMoves ==
  ASSUME TypeInv, NEW t \in Task, FileRequest(t)
  PROVE  task[t].key \in Large /\ task[t].pc = "file" /\ Stays(t) /\ Goes(t, "resolve")
  BY AtWork, GotoMoves DEF FileRequest, Fits, Place

LEMMA DeliverMoves ==
  ASSUME TypeInv, NEW t \in Task, Deliver(t)
  PROVE  /\ task[t].key \in Key /\ task[t].pc = "deliver" /\ Stays(t)
         /\ \E p \in task[t].to \cap Person :
              /\ told' = [told EXCEPT ![task[t].key][p] = @ + 1]
              /\ Ends(t) \/ (Goes(t, "deliver") /\ task'[t].to = task[t].to \ {p})
<1>1. /\ task[t].pc = "deliver" /\ task[t].key \in Key
      /\ task[t] \in TaskState /\ task \in [Task -> TaskState]
  BY AtWork, Parts DEF Deliver
<1>2. PICK p \in task[t].to :
        /\ told' = [told EXCEPT ![task[t].key][p] = @ + 1]
        /\ IF task[t].to = {p} THEN End(t) ELSE task' = [task EXCEPT ![t].to = @ \ {p}]
  BY DEF Deliver
<1>3. p \in Person
  BY <1>1 DEF TaskState
<1>4. CASE task[t].to = {p}
  BY <1>1, <1>2, <1>3, <1>4, EndMoves
<1>5. CASE task[t].to # {p}
  <2>1. task'[t] = [task[t] EXCEPT !.to = @ \ {p}] /\ Stays(t)
    BY <1>1, <1>2, <1>5 DEF Stays
  <2>2. task'[t].to = task[t].to \ {p} /\ Goes(t, "deliver")
    BY <1>1, <2>1 DEF TaskState, Goes
  <2> QED BY <1>1, <1>2, <1>3, <2>1, <2>2
<1> QED BY <1>4, <1>5

LEMMA DecisionMoves ==
  ASSUME TypeInv, NEW t \in Task, Preread(t) \/ Guard(t) \/ Write(t)
  PROVE  /\ task[t].key \in Decision /\ Stays(t)
         /\ Preread(t) => /\ task[t].pc = "preread" /\ Goes(t, "guard")
                          /\ task'[t].open = (status[task[t].key[1]] = "open")
         /\ Guard(t) => /\ task[t].pc = "guard"
                        /\ Ends(t) \/ (Goes(t, "write") /\ task'[t].open = task[t].open)
         /\ Write(t) => /\ task[t].pc = "write"
                        /\ task[t].open => Goes(t, "claim")
                        /\ ~task[t].open => Ends(t)
<1>1. /\ task[t].pc # "free" /\ task[t].key \in Decision
      /\ task[t] \in TaskState /\ task \in [Task -> TaskState]
  BY AtWork, Parts DEF Preread, Guard, Write, Fits
<1>2. CASE Preread(t)
  <2>1. /\ task'[t] = [task[t] EXCEPT !.pc = "guard",
                                      !.open = status[task[t].key[1]] = "open"]
        /\ Stays(t)
    BY <1>1, <1>2 DEF Preread, Stays
  <2> QED BY <1>1, <1>2, <2>1 DEF TaskState, Goes, Preread, Guard, Write
<1>3. CASE Guard(t)
  <2>1. task[t].pc = "guard" /\ (Goto(t, "write") \/ End(t))
    BY <1>3 DEF Guard
  <2> QED BY <1>1, <2>1, GotoMoves, EndMoves DEF Place, Preread, Write
<1>4. CASE Write(t)
  <2>1. task[t].pc = "write"
    BY <1>4 DEF Write
  <2>2. CASE task[t].open
    <3>1. task'[t] = [task[t] EXCEPT !.pc = "claim", !.to = {Requester}] /\ Stays(t)
      BY <1>1, <1>4, <2>2 DEF Write, Tells, Stays
    <3> QED BY <1>1, <2>1, <2>2, <3>1 DEF TaskState, Goes, Preread, Guard
  <2>3. CASE ~task[t].open
    <3>1. End(t)
      BY <1>4, <2>3 DEF Write, Tells
    <3> QED BY <1>1, <2>1, <2>3, <3>1, EndMoves DEF Preread, Guard
  <2> QED BY <2>2, <2>3
<1> QED BY <1>2, <1>3, <1>4

LEMMA FailsMoves ==
  ASSUME TypeInv, NEW t \in Task, Fails(t)
  PROVE  /\ task[t].key \in Key /\ Stays(t) /\ died' = died \cup {task[t].key}
         /\ Ends(t) \/ (task[t].key \in Decision /\ Goes(t, "write"))
<1>1. task[t].pc # "free"
  BY NotFree DEF Fails
<1>2. task[t].key \in Key /\ (task[t].pc = "preread" => task[t].key \in Decision)
  BY <1>1, AtWork DEF Fits
<1>3. CASE task[t].pc = "preread"
  <2>1. Goto(t, "write")
    BY <1>3 DEF Fails
  <2> QED BY <1>1, <1>2, <1>3, <2>1, GotoMoves DEF Place, Fails
<1>4. CASE task[t].pc # "preread"
  <2>1. End(t)
    BY <1>4 DEF Fails
  <2> QED BY <1>2, <2>1, EndMoves DEF Fails
<1> QED BY <1>3, <1>4

LEMMA StartMoves ==
  ASSUME TypeInv, NEW t \in Task, NEW k \in Key, NEW c, Start(t, k, c)
  PROVE  /\ task[t] = Free /\ Stays(t)
         /\ task'[t].key = k /\ task'[t].pc = First(k) /\ begun' = begun \cup {k}
         /\ UNCHANGED <<status, filed, dedup, died>>
<1>1. task \in [Task -> TaskState]
  BY Parts
<1>2. task'[t] = Begin(k, c) /\ Stays(t)
  BY <1>1 DEF Start, Stays
<1> QED BY <1>2 DEF Start, Begin

\* After a restart an event has either died or been taken up from the start.
LEMMA RestartMoves ==
  ASSUME TypeInv, Restart, NEW t \in Task
  PROVE  /\ \/ Ends(t)
            \/ /\ task[t] # Free /\ task[t].pc # "free" /\ task[t].key \in Key
               /\ Goes(t, First(task[t].key))
         /\ died \subseteq died'
         /\ task[t] # Free /\ task[t].key \notin died' =>
              Early(t) /\ Goes(t, First(task[t].key))
<1>1. PICK again \in SUBSET {u \in Task : task[u] # Free} :
        /\ task' = [u \in Task |-> IF u \in again
                                   THEN Begin(task[u].key, task[u].by) ELSE Free]
        /\ died' = died \cup {task[u].key : u \in {s \in Task :
                     task[s] # Free /\ ~(s \in again /\ Early(s))}}
  BY DEF Restart
<1>2. task[t] # Free => task[t].pc # "free" /\ task[t].key \in Key
  BY AtWork, NotFree
<1>3. CASE t \in again
  <2>1. task'[t] = Begin(task[t].key, task[t].by)
    BY <1>1, <1>3
  <2>2. Goes(t, First(task[t].key))
    BY <2>1 DEF Begin, Goes
  <2>3. task[t] # Free /\ (~Early(t) => task[t].key \in died')
    BY <1>1, <1>3
  <2> QED BY <1>1, <1>2, <2>2, <2>3
<1>4. CASE t \notin again
  <2>1. Ends(t)
    BY <1>1, <1>4 DEF Ends
  <2>2. task[t] # Free => task[t].key \in died'
    BY <1>1, <1>4
  <2> QED BY <1>1, <2>1, <2>2
<1> QED BY <1>3, <1>4

LEMMA ReleaseMoves ==
  ASSUME TypeInv, NEW t \in Task, Release(t)
  PROVE  /\ task[t].key \in Level \cup Assign /\ task[t].pc = "release"
         /\ Stays(t) /\ Ends(t) /\ dedup' = dedup \ {task[t].key}
  BY AtWork, EndMoves DEF Release, Fits

\* The tasks of k are as they were.
Apart(k) == \A u \in Task : task[u].key = k \/ task'[u].key = k => task'[u] = task[u]

LEMMA OthersApart ==
  ASSUME NEW k \in Key, NEW t \in Task, Stays(t), task[t].key # k,
         task'[t].key # k
  PROVE  Apart(k)
  BY DEF Stays, Apart

\* A step of another event's task leaves the tasks of k alone.
LEMMA StepApart ==
  ASSUME TypeInv, NEW k \in Key, NEW t \in Task, Step(t) \/ Fails(t), task[t].key # k
  PROVE  Apart(k)
<1>1. k # NoKey
  BY NoticesAssumption DEF NoticesAssumption
<1>2. Stays(t) /\ (Ends(t) \/ task'[t].key = task[t].key)
  BY ReadMoves, ReleaseMoves, ClaimMoves, ResolveMoves, FileMoves, DeliverMoves,
     DecisionMoves, FailsMoves DEF Step, Goes
<1>3. Free.key = NoKey
  BY DEF Free
<1> QED BY <1>1, <1>2, <1>3, OthersApart DEF Ends

\* The places of k's tasks.
At(k, P) == \E u \in Task : task[u].key = k /\ task[u].pc \in P

-----------------------------------------------------------------------------
(* The review request of a large movement.                                 *)

\* A request is filed at most once in a key's life, and only by a task that
\* holds the key; a movement that has no request yet has a task that is on its way to file it.
Filing(m) ==
  /\ filed[m] \in {filedBefore[m], filedBefore[m] + 1}
  /\ m \notin dedup \/ At(m, {"file"}) => filed[m] = filedBefore[m]
  /\ m \in begun \cup dedup /\ filed[m] = 0 /\ m \notin died =>
       At(m, IF m \in dedup THEN {"file"} ELSE {"claim"})

FilingInv == HolderInv /\ \A m \in Large : Filing(m)

LEMMA FilingApart ==
  ASSUME NEW m \in Large, Filing(m), Apart(m), filed'[m] = filed[m],
         filedBefore'[m] = filedBefore[m],
         m \in dedup' <=> m \in dedup, m \in begun' => m \in begun, died \subseteq died'
  PROVE  Filing(m)'
<1>1. \A P : At(m, P)' <=> At(m, P)
  BY DEF At, Apart
<1>2. /\ At(m, {"file"})' <=> At(m, {"file"})
      /\ At(m, {"claim"})' <=> At(m, {"claim"})
  BY <1>1
<1>3. CASE m \in dedup
  BY <1>2, <1>3 DEF Filing
<1>4. CASE m \notin dedup
  BY <1>2, <1>4 DEF Filing
<1> QED BY <1>3, <1>4

\* A task of m moves: its own steps.
LEMMA FilingByTask ==
  ASSUME HolderInv, NEW m \in Large, Filing(m), NEW t \in Task, Step(t) \/ Fails(t)
  PROVE  Filing(m)'
<1>0. TypeInv /\ m \in Key /\ m \in Once /\ filed \in [Large -> Nat]
      /\ filedBefore' = filedBefore /\ filedBefore[m] \in Nat
  BY Parts DEF HolderInv, Key, Once, Tables, Step, Fails, Read, Release, ClaimEvent, Resolve,
     FileRequest, Deliver, Preread, Guard, Write, history, past
<1>k. m \notin Decision /\ m \notin Level /\ m \notin Assign /\ m \notin Watch
  BY <1>0, Kinds
<1>n. m # NoKey /\ Free.key = NoKey
  BY <1>0, Kinds DEF Free
<1>f. \A u \in Task : task[u].key = m /\ task[u].pc \in {"file", "deliver"} => m \in dedup
  BY <1>0 DEF HolderInv, Holders, Owns
<1>1. CASE task[t].key # m
  <2>1. Apart(m)
    BY <1>0, <1>1, StepApart
  <2>2. died \subseteq died' /\ begun' = begun
    BY DEF Step, Fails, Read, Release, ClaimEvent, Resolve, FileRequest, Deliver, Preread,
           Guard, Write, history, past
  <2>3. filed'[m] = filed[m]
    BY <1>0, <1>1 DEF Step, Fails, Read, Release, ClaimEvent, Resolve, FileRequest, Deliver,
           Preread, Guard, Write, db
  <2>4. dedup' = dedup \/ dedup' = dedup \cup {task[t].key} \/ dedup' = dedup \ {task[t].key}
    BY DEF Step, Fails, Read, Release, ClaimEvent, Resolve, FileRequest, Deliver,
           Preread, Guard, Write, db
  <2> QED BY <1>0, <1>1, <2>1, <2>2, <2>3, <2>4, FilingApart
<1>2. CASE task[t].key = m /\ ClaimEvent(t)
  <2>1. filed' = filed /\ begun' = begun /\ died' = died
    BY <1>2 DEF ClaimEvent, history, past
  <2>2. task[t].pc = "claim" /\ Stays(t)
    BY <1>0, <1>2, ClaimMoves
  <2>3. CASE m \in dedup
    <3>1. dedup' = dedup /\ Ends(t)
      BY <1>0, <1>2, <2>3, ClaimMoves
    <3>2. At(m, {"file"})' <=> At(m, {"file"})
      BY <1>n, <2>2, <3>1 DEF At, Stays, Ends
    <3> QED BY <1>0, <2>1, <2>3, <3>1, <3>2 DEF Filing
  <2>4. CASE m \notin dedup
    <3>1. dedup' = dedup \cup {m} /\ Goes(t, "file")
      BY <1>0, <1>2, <2>4, ClaimMoves, Courses
    <3>2. At(m, {"file"})'
      BY <1>2, <3>1 DEF At, Goes
    <3> QED BY <1>0, <2>1, <2>4, <3>1, <3>2 DEF Filing
  <2> QED BY <2>3, <2>4
<1>3. CASE task[t].key = m /\ FileRequest(t)
  <2>1. /\ task[t].pc = "file" /\ Stays(t) /\ Goes(t, "resolve") /\ m \in dedup
        /\ UNCHANGED <<dedup, begun, died>>
    BY <1>0, <1>3, <1>f, FileMoves DEF FileRequest, history, past
  <2>2. filed[m] = filedBefore[m]
    BY <1>3, <2>1 DEF Filing, At
  <2>3. filed'[m] = filedBefore[m] + 1 /\ filed'[m] # 0
    BY <1>0, <1>3, <2>2 DEF FileRequest
  <2>4. ~At(m, {"file"})'
    <3>1. \A u \in Task \ {t} : ~(task[u].key = m /\ task[u].pc = "file")
      BY <1>0, <1>3, <2>1 DEF HolderInv, Holders, Owns
    <3> QED BY <2>1, <3>1 DEF At, Stays, Goes
  <2> QED BY <1>0, <2>1, <2>3, <2>4 DEF Filing
<1>4. CASE task[t].key = m /\ Resolve(t)
  <2>1. /\ task[t].pc = "resolve" /\ Stays(t) /\ UNCHANGED <<filed, dedup, begun, died>>
        /\ Ends(t) \/ Goes(t, AfterResolve(m))
    BY <1>0, <1>4, <1>k, ResolveMoves DEF Resolve, db
  <2>2. m \in dedup
    BY <1>0, <1>4, <1>k, <2>1 DEF HolderInv, Holders, Owns
  <2>3. AfterResolve(m) = "deliver"
    BY <1>k DEF AfterResolve
  <2>4. At(m, {"file"})' <=> At(m, {"file"})
    BY <1>n, <2>1, <2>3 DEF At, Stays, Ends, Goes
  <2> QED BY <1>0, <2>1, <2>2, <2>4 DEF Filing
<1>5. CASE task[t].key = m /\ Deliver(t)
  <2>1. /\ task[t].pc = "deliver" /\ Stays(t) /\ UNCHANGED <<filed, dedup, begun, died>>
        /\ Ends(t) \/ Goes(t, "deliver")
    BY <1>0, <1>5, DeliverMoves DEF Deliver, history, past
  <2>2. m \in dedup
    BY <1>5, <1>f, <2>1
  <2>4. At(m, {"file"})' <=> At(m, {"file"})
    BY <1>n, <2>1 DEF At, Stays, Ends, Goes
  <2> QED BY <1>0, <2>1, <2>2, <2>4 DEF Filing
<1>6. CASE task[t].key = m /\ Fails(t)
  <2>1. Stays(t) /\ died' = died \cup {m} /\ Ends(t) /\ UNCHANGED <<filed, dedup>>
    BY <1>0, <1>6, <1>k, FailsMoves DEF Fails, db
  <2>2. At(m, {"file"})' => At(m, {"file"})
    BY <1>n, <2>1 DEF At, Stays, Ends
  <2> QED BY <1>0, <2>1, <2>2 DEF Filing
<1>7. task[t].key = m => ~(Read(t) \/ Release(t) \/ Preread(t) \/ Guard(t) \/ Write(t))
  BY <1>0, <1>k, ReadMoves, ReleaseMoves, DecisionMoves
<1> QED BY <1>1, <1>2, <1>3, <1>4, <1>5, <1>6, <1>7 DEF Step

LEMMA FilingByEvent ==
  ASSUME HolderInv, NEW m \in Large, Filing(m), NEW t \in Task,
         NEW k \in Key, NEW c, Start(t, k, c)
  PROVE  Filing(m)'
<1>1. /\ task[t] = Free /\ Stays(t) /\ task'[t].key = k /\ task'[t].pc = First(k)
      /\ begun' = begun \cup {k} /\ UNCHANGED <<filed, filedBefore, dedup, died>>
  BY StartMoves DEF HolderInv, Start
<1>2. m \in Key /\ First(m) = "claim" /\ m # NoKey /\ Free.key = NoKey
  BY Courses, Kinds DEF Key, Once, Free
<1>3. CASE k # m
  BY <1>1, <1>2, <1>3, OthersApart, FilingApart
<1>4. CASE k = m
  <2>1. At(m, {"claim"})'
    BY <1>1, <1>2, <1>4 DEF At
  <2>2. At(m, {"file"})' <=> At(m, {"file"})
    BY <1>1, <1>2, <1>4 DEF At, Stays
  <2>3. CASE m \in dedup
    BY <1>1, <2>2, <2>3 DEF Filing
  <2>4. CASE m \notin dedup
    BY <1>1, <2>1, <2>2, <2>4 DEF Filing
  <2> QED BY <2>3, <2>4
<1> QED BY <1>3, <1>4

LEMMA FilingByRestart ==
  ASSUME HolderInv, NEW m \in Large, Filing(m), Restart
  PROVE  Filing(m)'
<1>0. TypeInv /\ m \in Key /\ First(m) = "claim" /\ m # NoKey /\ Free.key = NoKey
  BY Courses, Kinds DEF HolderInv, Key, Once, Free
<1>p. PICK old \in SUBSET dedup : Prune(old)
  BY DEF Restart
<1>1. /\ UNCHANGED <<filed, begun>> /\ died \subseteq died' /\ dedup' = dedup \ old
      /\ filedBefore'[m] = IF m \in old THEN filed[m] ELSE filedBefore[m]
  BY <1>p DEF Restart, Prune
<1>2. ~At(m, {"file"})'
  BY <1>0, RestartMoves DEF At, Ends, Goes
<1>3. ASSUME m \notin died', m \in begun \cup dedup, filed[m] = 0
      PROVE  m \notin dedup /\ At(m, {"claim"})'
  <2>1. PICK u \in Task : /\ task[u].key = m
                          /\ task[u].pc \in IF m \in dedup THEN {"file"} ELSE {"claim"}
    BY <1>1, <1>3 DEF Filing, At
  <2>2. task[u] # Free
    BY <1>0, <2>1
  <2>3. Early(u) /\ Goes(u, "claim")
    BY <1>0, <1>3, <2>1, <2>2, RestartMoves
  <2>4. task[u].pc # "file"
    BY <2>3 DEF Early
  <2> QED BY <2>1, <2>3, <2>4 DEF At, Goes
<1>4. CASE m \in dedup
  BY <1>1, <1>2, <1>3, <1>4 DEF Filing
<1>5. CASE m \notin dedup
  BY <1>1, <1>2, <1>3, <1>5 DEF Filing
<1> QED BY <1>4, <1>5

LEMMA FilingByNext == FilingInv /\ [Next]_vars => FilingInv'
<1> SUFFICES ASSUME FilingInv, [Next]_vars, NEW m \in Large PROVE Filing(m)'
  BY HolderByNext DEF FilingInv
<1>0. HolderInv /\ Filing(m)
  BY DEF FilingInv
<1>1. ASSUME NEW t \in Task, Step(t) \/ Fails(t) PROVE Filing(m)'
  BY <1>0, <1>1, FilingByTask
<1>2. ASSUME NEW t \in Task, NEW i \in Level, Touch(t, i) PROVE Filing(m)'
  BY <1>0, <1>2, FilingByEvent DEF Touch, Key
<1>3. ASSUME NEW t \in Task, NEW k \in Once \ Decision, Occur(t, k) PROVE Filing(m)'
  BY <1>0, <1>3, FilingByEvent DEF Occur, Key
<1>4. ASSUME NEW t \in Task, NEW d \in Decision, NEW c \in Person, Decide(t, d, c)
      PROVE  Filing(m)'
  BY <1>0, <1>4, FilingByEvent DEF Decide, Key, Once
<1>5. CASE Restart
  BY <1>0, <1>5, FilingByRestart
<1>7. CASE \E i \in Level : Recount(i)
  <2>1. Apart(m) /\ UNCHANGED <<filed, filedBefore, dedup, begun, died>>
    BY <1>7 DEF Recount, Apart
  <2> QED BY <1>0, <2>1, FilingApart
<1>6. CASE (\E S \in SUBSET Person : Restaff(S)) \/ UNCHANGED vars
  BY <1>0, <1>6, FilingApart DEF Restaff, vars, db, history, past, Apart
<1> QED BY <1>1, <1>2, <1>3, <1>4, <1>5, <1>6, <1>7 DEF Next

\* However often the push of a large movement is retried and however many
\* handlers run for it: it gets a review request unless a failure cut a handler
\* of it short, and no second one while its key is not pruned.
THEOREM EveryMovementFlagged == Spec => []MovementFlagged
<1>1. Init => \A m \in Large : Filing(m)
  BY DEF Init, Filing, At, Free
<1>2. FilingInv => MovementFlagged
  <2> SUFFICES ASSUME FilingInv, NEW m \in Large
               PROVE  /\ filed[m] <= filedBefore[m] + 1
                      /\ m \in begun /\ Quiet(m) /\ m \notin died => filed[m] > 0
    BY DEF MovementFlagged
  <2>1. Filing(m)
    BY DEF FilingInv
  <2>2. \A P : Quiet(m) => ~At(m, P)
    BY DEF Quiet, Working, At
  <2>3. filed[m] \in Nat /\ filedBefore[m] \in Nat
    BY Parts DEF FilingInv, HolderInv, Tables
  <2> QED BY <2>1, <2>2, <2>3 DEF Filing
<1> QED BY <1>1, <1>2, HolderAtInit, FilingByNext, PTL DEF Spec, FilingInv

-----------------------------------------------------------------------------
(* What the requester is told.                                             *)

\* A handler of a decision knows whether it is the first, and one that is about
\* to claim, or has claimed, comes after a write of the status.
Attends(s) ==
  s.key \in Decision =>
    /\ s.key \in begun
    /\ s.pc \in {"guard", "write"} /\ status[s.key[1]] = "open" => s.open \/ s.key \in died
    /\ s.pc = "claim" => status[s.key[1]] # "open"

Attended == /\ \A t \in Task : Attends(task[t])
            /\ \A d \in dedup \cap Decision : status[d[1]] # "open"

\* Of a decision nobody contradicts the requester has been told, or a task is on
\* its way to.
BegunOn(r) == {d \in begun \cap Decision : d[1] = r}
OnItsWay(d) == At(d, IF d \in dedup THEN {"deliver"} ELSE {"claim"})
Owed(r) ==
  status[r] # "open" =>
    /\ <<r, status[r]>> \in BegunOn(r)
    /\ BegunOn(r) = {<<r, status[r]>>} =>
         Heard(<<r, status[r]>>) \/ OnItsWay(<<r, status[r]>>)

OwedInv == TypeInv /\ Attended /\ \A r \in Request : Owed(r)

\* The handlers of decisions keep their places, the status stays.
LEMMA AttendsFrame ==
  ASSUME NEW s, NEW u, Attends(s), status' = status, begun \subseteq begun', died \subseteq died',
         \/ u = s
         \/ u.key \notin Decision
         \/ /\ u.key = s.key
            /\ u.pc \in {"guard", "write"} => s.pc \in {"guard", "write"} /\ u.open = s.open
            /\ u.pc = "claim" => s.pc = "claim"
  PROVE  Attends(u)'
  BY DEF Attends

LEMMA FreeAttends == Attends(Free) /\ Free.key \notin Decision /\ Free.key = NoKey
  BY NoticesAssumption DEF NoticesAssumption, Attends, Free, Key, Once

\* A write of the status settles it.
LEMMA WriteSettles ==
  ASSUME TypeInv, NEW t \in Task, Write(t)
  PROVE  /\ task[t].key[1] \in Request /\ task[t].key[2] \in Verdict
         /\ task[t].key = <<task[t].key[1], task[t].key[2]>>
         /\ status' = [status EXCEPT ![task[t].key[1]] = task[t].key[2]]
         /\ status'[task[t].key[1]] = task[t].key[2]
         /\ \A r \in Request : status[r] # "open" => status'[r] # "open"
         /\ status'[task[t].key[1]] # "open"
<1>1. task[t].key \in Decision
  BY DecisionMoves
<1>2. status \in [Request -> {"open"} \cup Verdict]
  BY Parts DEF Tables
<1> QED BY <1>1, <1>2, DecisionParts DEF Write, Decision, Verdict

LEMMA AttendedByTask ==
  ASSUME TypeInv, Attended, NEW t \in Task, Step(t) \/ Fails(t)
  PROVE  Attended'
<1>1. ASSUME Write(t) PROVE Attended'
  <2>1. /\ task[t].key \in Decision /\ task[t].pc = "write" /\ Stays(t)
        /\ Ends(t) \/ Goes(t, "claim")
        /\ UNCHANGED <<begun, died, dedup>>
    BY <1>1, DecisionMoves DEF Write, history, past
  <2>2. /\ \A r \in Request : status[r] # "open" => status'[r] # "open"
        /\ status'[task[t].key[1]] # "open" /\ task[t].key[1] \in Request
    BY <1>1, WriteSettles
  <2>3. Attends(task[t])' \/ Ends(t)
    BY <2>1, <2>2 DEF Attended, Attends, Goes
  <2>4. Attends(task[t])'
    BY <2>3, FreeAttends DEF Ends, Attends
  <2>5. ASSUME NEW u \in Task, u # t PROVE Attends(task[u])'
    <3>1. task'[u] = task[u] /\ Attends(task[u])
      BY <2>1, <2>5 DEF Stays, Attended
    <3>2. task[u].key \in Decision => task[u].key[1] \in Request
      BY DEF Decision
    <3> QED BY <2>1, <2>2, <3>1, <3>2 DEF Attends
  <2>6. \A d \in dedup' \cap Decision : status'[d[1]] # "open"
    BY <2>1, <2>2 DEF Attended, Decision
  <2> QED BY <2>4, <2>5, <2>6 DEF Attended
<1>2. ASSUME ~Write(t) PROVE Attended'
  <2>1. status' = status /\ begun' = begun /\ died \subseteq died'
    BY <1>2 DEF Step, Fails, Read, Release, ClaimEvent, Resolve, FileRequest, Deliver,
                Preread, Guard, db, history, past
  <2>2. Stays(t) /\ (Ends(t) \/ task'[t].key = task[t].key)
    BY ReadMoves, ReleaseMoves, ClaimMoves, ResolveMoves, FileMoves, DeliverMoves,
       DecisionMoves, FailsMoves DEF Step, Goes
  <2>3. ASSUME task[t].key \in Decision, ~Ends(t) PROVE Attends(task[t])'
    <3>1. Attends(task[t]) /\ task[t].key \in Key
      BY <2>3 DEF Attended, Key, Once
    <3>2. CASE Preread(t)
      BY <2>1, <3>1, <3>2, DecisionMoves DEF Attends, Goes
    <3>3. CASE Guard(t)
      BY <2>1, <2>3, <3>1, <3>3, DecisionMoves DEF Attends, Goes
    <3>4. CASE Fails(t)
      BY <2>1, <2>3, <3>1, <3>4, FailsMoves DEF Attends, Goes
    <3>5. CASE ClaimEvent(t)
      BY <2>1, <2>3, <3>1, <3>5, ClaimMoves, Courses DEF Attends, Goes
    <3>6. CASE Deliver(t)
      BY <2>1, <2>3, <3>1, <3>6, DeliverMoves DEF Attends, Goes
    <3>7. ~(Read(t) \/ Release(t) \/ Resolve(t) \/ FileRequest(t))
      BY <2>3, <3>1, Kinds, ReadMoves, ReleaseMoves, ResolveMoves, FileMoves
    <3> QED BY <1>2, <3>2, <3>3, <3>4, <3>5, <3>6, <3>7 DEF Step
  <2>4. Attends(task[t])'
    BY <2>2, <2>3, FreeAttends DEF Ends, Attends
  <2>5. ASSUME NEW u \in Task, u # t PROVE Attends(task[u])'
    BY <2>1, <2>2, <2>5 DEF Stays, Attended, Attends
  <2>6. \A d \in dedup' \cap Decision : status'[d[1]] # "open"
    <3>1. CASE ClaimEvent(t)
      BY <2>1, <3>1, ClaimMoves DEF Attended, Attends
    <3>2. CASE ~ClaimEvent(t)
      <4>1. dedup' \subseteq dedup
        BY <3>2 DEF Step, Fails, Read, Release, Resolve, FileRequest, Deliver,
                    Preread, Guard, Write, db
      <4> QED BY <2>1, <4>1 DEF Attended
    <3> QED BY <3>1, <3>2
  <2> QED BY <2>4, <2>5, <2>6 DEF Attended
<1> QED BY <1>1, <1>2

LEMMA AttendedElsewhere ==
  ASSUME TypeInv, Attended, status' = status, dedup' = dedup,
         begun \subseteq begun', died \subseteq died',
         \A u \in Task : \/ task'[u] = task[u]
                         \/ task'[u] = Free
                         \/ /\ task'[u].key \in Key /\ task'[u].key \in begun'
                            /\ task'[u].pc = First(task'[u].key)
  PROVE  Attended'
<1>1. ASSUME NEW u \in Task PROVE Attends(task[u])'
  <2>1. CASE task'[u] = task[u]
    BY <2>1 DEF Attended, Attends
  <2>2. CASE task'[u] = Free
    BY <2>2, FreeAttends DEF Attends
  <2>3. CASE /\ task'[u].key \in Key /\ task'[u].key \in begun'
             /\ task'[u].pc = First(task'[u].key)
    <3> DEFINE k == task'[u].key
    <3>1. k \in Decision => task'[u].pc = "preread" /\ k \in begun'
      BY <2>3, Courses
    <3> QED BY <3>1 DEF Attends
  <2> QED BY <2>1, <2>2, <2>3
<1>2. \A d \in dedup' \cap Decision : status'[d[1]] # "open"
  BY DEF Attended
<1> QED BY <1>1, <1>2 DEF Attended

\* Where the status stays, what is owed stays owed or has been heard.
LEMMA OwedFrame ==
  ASSUME NEW r \in Request, Owed(r), status'[r] = status[r],
         BegunOn(r) \subseteq BegunOn(r)', died \subseteq died',
         NEW d, d = <<r, status[r]>>,
         status[r] # "open" =>
             /\ NobodyTold(d)' => NobodyTold(d)
             /\ (d \in dedup' <=> d \in dedup) \/ (OnItsWay(d) => Heard(d)')
             /\ At(d, {"deliver"}) => At(d, {"deliver"})' \/ Heard(d)'
             /\ At(d, {"claim"}) => At(d, {"claim"})' \/ Heard(d)'
  PROVE  Owed(r)'
<1> SUFFICES ASSUME status[r] # "open"
             PROVE  /\ d \in BegunOn(r)'
                    /\ BegunOn(r)' = {d} => Heard(d)' \/ OnItsWay(d)'
  BY DEF Owed
<1>1. d \in BegunOn(r)
  BY DEF Owed
<1>2. ASSUME BegunOn(r)' = {d} PROVE Heard(d) \/ OnItsWay(d)
  <2>1. BegunOn(r) = {d}
    BY <1>1, <1>2
  <2> QED BY <2>1 DEF Owed
<1>4. ASSUME Heard(d) PROVE Heard(d)'
  BY <1>4 DEF Heard
<1>5. ASSUME OnItsWay(d) PROVE OnItsWay(d)' \/ Heard(d)'
  <2>1. CASE d \in dedup
    BY <1>5, <2>1 DEF OnItsWay
  <2>2. CASE d \notin dedup
    BY <1>5, <2>2 DEF OnItsWay
  <2> QED BY <2>1, <2>2
<1> QED BY <1>1, <1>2, <1>4, <1>5

\* A place somebody else holds for d is still held after a step of task t.
LEMMA AtStays ==
  ASSUME NEW t \in Task, Stays(t), NEW d, NEW P, At(d, P),
         ~(task[t].key = d /\ task[t].pc \in P)
  PROVE  At(d, P)'
  BY DEF At, Stays

\* The tables of a step: of decisions, only claims, deliveries and failures of
\* its own event touch what is owed.
LEMMA StepTables ==
  ASSUME TypeInv, NEW t \in Task, Step(t) \/ Fails(t), NEW d \in Decision
  PROVE  /\ begun' = begun /\ died \subseteq died'
         /\ ~Write(t) => status' = status
         /\ NobodyTold(d)' => NobodyTold(d)
         /\ ~(ClaimEvent(t) /\ task[t].key = d) => (d \in dedup' <=> d \in dedup)
<1>1. begun' = begun /\ died \subseteq died' /\ (~Write(t) => status' = status)
  BY DEF Step, Fails, Read, Release, ClaimEvent, Resolve, FileRequest, Deliver,
         Preread, Guard, Write, db, history, past
<1>2. NobodyTold(d)' => NobodyTold(d)
  <2>1. CASE Deliver(t)
    <3>1. PICK p \in Person : told' = [told EXCEPT ![task[t].key][p] = @ + 1]
      BY <2>1, DeliverMoves
    <3>2. /\ told \in [Key -> [Person -> Nat]] /\ d \in Key
      BY Parts DEF Tables, Key, Once
    <3>3. \A q \in Person : told'[d][q] = 0 => told[d][q] = 0
      BY <3>1, <3>2
    <3> QED BY <3>3 DEF NobodyTold
  <2>2. CASE ~Deliver(t)
    <3>1. told' = told
      BY <2>2 DEF Step, Fails, Read, Release, ClaimEvent, Resolve, FileRequest,
                  Preread, Guard, Write, db
    <3> QED BY <3>1 DEF NobodyTold
  <2> QED BY <2>1, <2>2
<1>3. ASSUME ~(ClaimEvent(t) /\ task[t].key = d) PROVE d \in dedup' <=> d \in dedup
  <2>1. CASE Release(t)
    <3>1. d \notin Level \cup Assign
      BY Kinds DEF Key, Once
    <3> QED BY <2>1, <3>1, ReleaseMoves
  <2>2. CASE ClaimEvent(t)
    BY <1>3, <2>2, ClaimMoves
  <2>3. CASE ~Release(t) /\ ~ClaimEvent(t)
    BY <2>3 DEF Step, Fails, Read, Resolve, FileRequest, Deliver,
                Preread, Guard, Write, db
  <2> QED BY <2>1, <2>2, <2>3
<1> QED BY <1>1, <1>2, <1>3

LEMMA OwedByTask ==
  ASSUME OwedInv, NEW t \in Task, Step(t) \/ Fails(t), NEW r \in Request
  PROVE  Owed(r)'
<1>0. TypeInv /\ Attended /\ Owed(r) /\ status \in [Request -> {"open"} \cup Verdict]
  BY Parts DEF OwedInv, Tables
<1>1. begun' = begun /\ died \subseteq died' /\ BegunOn(r)' = BegunOn(r)
  BY <1>0 DEF Step, Fails, Read, Release, ClaimEvent, Resolve, FileRequest, Deliver,
              Preread, Guard, Write, db, history, past, BegunOn
<1>2. PICK d : d = <<r, status[r]>>
  OBVIOUS
<1>3. status[r] # "open" => d \in Decision
  BY <1>0, <1>2 DEF Decision
<1>4. CASE ~(Write(t) /\ task[t].key[1] = r)
  <2>1. status'[r] = status[r]
    <3>1. CASE Write(t)
      BY <1>0, <1>4, <3>1, WriteSettles
    <3>2. CASE ~Write(t)
      BY <3>2 DEF Step, Fails, Read, Release, ClaimEvent, Resolve, FileRequest, Deliver,
                  Preread, Guard, db
    <3> QED BY <3>1, <3>2
  <2>2. ASSUME status[r] # "open", ~(ClaimEvent(t) /\ task[t].key = d)
        PROVE  /\ NobodyTold(d)' => NobodyTold(d)
               /\ d \in dedup' <=> d \in dedup
               /\ At(d, {"deliver"}) => At(d, {"deliver"})' \/ Heard(d)'
               /\ At(d, {"claim"}) => At(d, {"claim"})'  \/ Heard(d)'
    <3>1. /\ NobodyTold(d)' => NobodyTold(d)
          /\ d \in dedup' <=> d \in dedup
      BY <1>0, <1>3, <2>2, StepTables
    <3>2. Stays(t)
      BY <1>0, ReadMoves, ReleaseMoves, ClaimMoves, ResolveMoves, FileMoves, DeliverMoves,
         DecisionMoves, FailsMoves DEF Step
    <3>3. CASE task[t].key # d \/ task[t].pc \notin {"claim", "deliver"}
      BY <3>1, <3>2, <3>3, AtStays
    <3>4. CASE task[t].key = d /\ Fails(t)
      <4>1. d \in died'
        BY <1>0, <3>4, FailsMoves
      <4> QED BY <3>1, <4>1 DEF Heard
    <3>5. CASE task[t].key = d /\ Deliver(t)
      <4>1. PICK p \in Person : told' = [told EXCEPT ![d][p] = @ + 1]
        BY <1>0, <3>5, DeliverMoves
      <4>2. told \in [Key -> [Person -> Nat]] /\ d \in Key
        BY <1>0, <1>3, <2>2, Parts DEF Tables, Key, Once
      <4>3. told'[d][p] # 0
        BY <4>1, <4>2
      <4>4. Heard(d)'
        BY <4>3 DEF Heard, NobodyTold
      <4> QED BY <3>1, <4>4
    <3>6. Step(t) /\ ~ClaimEvent(t) /\ ~Deliver(t) => task[t].pc \notin {"claim", "deliver"}
      BY DEF Step, Read, Release, Resolve, FileRequest, Preread, Guard, Write
    <3> QED BY <2>2, <3>3, <3>4, <3>5, <3>6
  <2>3. CASE status[r] = "open" \/ ~(ClaimEvent(t) /\ task[t].key = d)
    BY <1>0, <1>1, <1>2, <2>1, <2>2, <2>3, OwedFrame
  <2>4. CASE status[r] # "open" /\ ClaimEvent(t) /\ task[t].key = d
    <3>1. /\ d \in Decision /\ task[t].pc = "claim" /\ Stays(t)
          /\ d \in dedup => dedup' = dedup
          /\ d \notin dedup => Goes(t, "deliver") /\ dedup' = dedup \cup {d}
      BY <1>0, <1>3, <2>4, ClaimMoves, Courses
    <3>2. CASE d \notin dedup
      <4>1. OnItsWay(d)'
        BY <2>4, <3>1, <3>2 DEF OnItsWay, At, Goes
      <4>2. <<r, status'[r]>> = d /\ d \in BegunOn(r)'
        BY <1>0, <1>1, <1>2, <2>1, <2>4 DEF Owed
      <4> QED BY <4>1, <4>2 DEF Owed
    <3>3. CASE d \in dedup
      <4>1. told' = told
        BY <2>4 DEF ClaimEvent
      <4>2. OnItsWay(d) => OnItsWay(d)'
        BY <3>1, <3>3, AtStays DEF OnItsWay
      <4>3. Heard(d) => Heard(d)'
        BY <1>1, <4>1 DEF Heard, NobodyTold
      <4>4. d \in BegunOn(r) /\ (BegunOn(r) = {d} => Heard(d) \/ OnItsWay(d))
        BY <1>0, <1>2, <2>4 DEF Owed
      <4>5. <<r, status'[r]>> = d
        BY <1>2, <2>1
      <4> QED BY <1>1, <4>2, <4>3, <4>4, <4>5 DEF Owed
    <3> QED BY <3>2, <3>3
  <2> QED BY <2>3, <2>4
<1>5. CASE Write(t) /\ task[t].key[1] = r
  <2> DEFINE k == task[t].key
  <2>1. /\ k \in Decision /\ task[t].pc = "write" /\ Stays(t)
        /\ task[t].open => Goes(t, "claim")
        /\ UNCHANGED <<told, dedup, died>>
    BY <1>0, <1>5, DecisionMoves DEF Write, history, past
  <2>2. k = <<r, status'[r]>> /\ status'[r] # "open"
    BY <1>0, <1>5, WriteSettles
  <2>3. k \in BegunOn(r)
    BY <1>0, <1>5, <2>1 DEF Attended, Attends, BegunOn
  <2>4. PICK c : c = k
    OBVIOUS
  <2> HIDE DEF k
  <2>5. CASE status[r] = "open"
    <3>1. c \notin dedup
      BY <1>0, <1>5, <2>1, <2>4, <2>5 DEF Attended, k
    <3>2. task[t].open \/ c \in died
      BY <1>0, <1>5, <2>1, <2>4, <2>5 DEF Attended, Attends, k
    <3>3. Heard(c)' \/ OnItsWay(c)'
      BY <2>1, <2>4, <3>1, <3>2 DEF Heard, OnItsWay, At, Goes, k
    <3> QED BY <1>1, <2>2, <2>3, <2>4, <3>3 DEF Owed
  <2>6. CASE status[r] # "open"
    <3>1. d \in BegunOn(r) /\ (BegunOn(r) = {d} => Heard(d) \/ OnItsWay(d))
      BY <1>0, <1>2, <2>6 DEF Owed
    <3>2. Heard(d) => Heard(d)'
      BY <2>1 DEF Heard, NobodyTold
    <3>3. OnItsWay(d) => OnItsWay(d)'
      BY <2>1, AtStays DEF OnItsWay
    <3>4. ASSUME BegunOn(r)' = {c} PROVE Heard(c)' \/ OnItsWay(c)'
      <4>1. d = c /\ BegunOn(r) = {d}
        BY <1>1, <2>3, <2>4, <3>1, <3>4
      <4> QED BY <3>1, <3>2, <3>3, <4>1
    <3> QED BY <1>1, <2>2, <2>3, <2>4, <3>4 DEF Owed
  <2> QED BY <2>5, <2>6
<1> QED BY <1>4, <1>5

LEMMA OwedByEvent ==
  ASSUME OwedInv, NEW t \in Task, NEW k \in Key, NEW c, Start(t, k, c),
         \A j \in Once : told'[j] = told[j]
  PROVE  Attended' /\ \A r \in Request : Owed(r)'
<1>0. TypeInv /\ Attended /\ status \in [Request -> {"open"} \cup Verdict]
  BY Parts DEF OwedInv, Tables
<1>1. /\ task[t] = Free /\ Stays(t) /\ task'[t].key = k /\ task'[t].pc = First(k)
      /\ begun' = begun \cup {k} /\ UNCHANGED <<status, dedup, died>>
  BY <1>0, StartMoves
<1>2. Attended'
  BY <1>0, <1>1, AttendedElsewhere DEF Stays
<1>3. ASSUME NEW r \in Request PROVE Owed(r)'
  <2>1. PICK d : d = <<r, status[r]>>
    OBVIOUS
  <2>2. ASSUME status[r] # "open"
        PROVE  /\ NobodyTold(d)' => NobodyTold(d)
               /\ d \in dedup' <=> d \in dedup
               /\ At(d, {"deliver"}) => At(d, {"deliver"})'
               /\ At(d, {"claim"}) => At(d, {"claim"})'
    <3>1. d \in Once
      BY <1>0, <2>1, <2>2 DEF Decision, Once
    <3>2. task[t].pc \notin {"claim", "deliver"}
      BY <1>1 DEF Free
    <3> QED BY <1>1, <3>1, <3>2, AtStays DEF NobodyTold
  <2>3. Owed(r) /\ BegunOn(r) \subseteq BegunOn(r)'
    BY <1>1 DEF OwedInv, BegunOn
  <2> QED BY <1>1, <2>1, <2>2, <2>3, OwedFrame
<1> QED BY <1>2, <1>3

LEMMA OwedByRestart ==
  ASSUME OwedInv, Restart
  PROVE  Attended' /\ \A r \in Request : Owed(r)'
<1>0. TypeInv /\ Attended /\ status \in [Request -> {"open"} \cup Verdict]
  BY Parts DEF OwedInv, Tables
<1>1. UNCHANGED <<status, told, begun>> /\ died \subseteq died' /\ dedup' \subseteq dedup
  BY DEF Restart, Prune
<1>3. Attended'
  <2>1. ASSUME NEW u \in Task PROVE Attends(task[u])'
    <3>1. CASE Ends(u)
      BY <3>1, FreeAttends DEF Ends, Attends
    <3>2. CASE ~Ends(u) /\ task[u].key \in Decision
      <4>1. Goes(u, "preread") /\ task[u].key \in begun
        BY <1>0, <3>2, RestartMoves, Courses DEF Attended, Attends
      <4> QED BY <1>1, <4>1 DEF Attends, Goes
    <3>3. CASE ~Ends(u) /\ task[u].key \notin Decision
      <4>1. task'[u].key = task[u].key
        BY <1>0, <3>3, RestartMoves DEF Goes
      <4> QED BY <3>3, <4>1 DEF Attends
    <3> QED BY <3>1, <3>2, <3>3
  <2> QED BY <1>0, <1>1, <2>1 DEF Attended
<1>4. ASSUME NEW r \in Request PROVE Owed(r)'
  <2>1. PICK d : d = <<r, status[r]>>
    OBVIOUS
  <2>2. ASSUME status[r] # "open", NEW P \in {{"deliver"}, {"claim"}}, At(d, P)
        PROVE  d \in died'
    <3>1. PICK u \in Task : task[u].key = d /\ task[u].pc \in {"deliver", "claim"}
      BY <2>2 DEF At
    <3>2. d \in Decision /\ task[u] # Free
      BY <1>0, <2>1, <2>2, <3>1 DEF Decision, Free
    <3>3. ~Early(u)
      BY <3>1, <3>2, Kinds DEF Early, Key, Once
    <3> QED BY <1>0, <3>1, <3>2, <3>3, RestartMoves
  <2>3. Owed(r) /\ BegunOn(r) \subseteq BegunOn(r)'
    BY <1>1 DEF OwedInv, BegunOn
  <2>4. status[r] # "open" =>
             /\ NobodyTold(d)' => NobodyTold(d)
             /\ OnItsWay(d) => Heard(d)'
             /\ At(d, {"deliver"}) => At(d, {"deliver"})' \/ Heard(d)'
             /\ At(d, {"claim"}) => At(d, {"claim"})' \/ Heard(d)'
    BY <1>1, <2>2 DEF NobodyTold, Heard, OnItsWay
  <2> QED BY <1>1, <2>1, <2>3, <2>4, OwedFrame
<1> QED BY <1>3, <1>4

LEMMA OwedByNext == OwedInv /\ [Next]_vars => OwedInv'
<1> SUFFICES ASSUME OwedInv, [Next]_vars
             PROVE  Attended' /\ \A r \in Request : Owed(r)'
  BY TypeStep DEF OwedInv
<1>0. TypeInv /\ Attended /\ told \in [Key -> [Person -> Nat]]
  BY Parts DEF OwedInv, Tables
<1>1. ASSUME NEW t \in Task, Step(t) \/ Fails(t)
      PROVE  Attended' /\ \A r \in Request : Owed(r)'
  BY <1>0, <1>1, OwedByTask, AttendedByTask
<1>2. ASSUME NEW t \in Task, NEW i \in Level, Touch(t, i)
      PROVE  Attended' /\ \A r \in Request : Owed(r)'
  <2>1. \A j \in Once : told'[j] = told[j]
    BY <1>0, <1>2, BecomeApart DEF Touch
  <2> QED BY <1>2, <2>1, OwedByEvent DEF Touch, Key
<1>3. ASSUME NEW t \in Task, NEW k \in Once \ Decision, Occur(t, k)
      PROVE  Attended' /\ \A r \in Request : Owed(r)'
  BY <1>3, OwedByEvent DEF Occur, Key
<1>4. ASSUME NEW t \in Task, NEW d \in Decision, NEW c \in Person, Decide(t, d, c)
      PROVE  Attended' /\ \A r \in Request : Owed(r)'
  BY <1>4, OwedByEvent DEF Decide, Key, Once
<1>5. CASE Restart
  BY <1>5, OwedByRestart
<1>6. CASE (\E S \in SUBSET Person : Restaff(S)) \/ UNCHANGED vars
  <2>1. UNCHANGED <<status, dedup, told, begun, died, task>>
    BY <1>6 DEF Restaff, vars, db, history, past
  <2>2. Attended'
    BY <1>0, <2>1, AttendedElsewhere
  <2>3. ASSUME NEW r \in Request PROVE Owed(r)'
    <3>1. Owed(r)
      BY DEF OwedInv
    <3> QED BY <2>1, <3>1 DEF Owed, BegunOn, Heard, NobodyTold, OnItsWay, At
  <2> QED BY <2>2, <2>3
<1>7. ASSUME NEW i \in Level, Recount(i)
      PROVE  Attended' /\ \A r \in Request : Owed(r)'
  <2>1. UNCHANGED <<status, dedup, begun, died, task>>
    BY <1>7 DEF Recount
  <2>2. \A j \in Once : told'[j] = told[j]
    BY <1>0, <1>7, BecomeApart DEF Recount
  <2>3. Attended'
    BY <1>0, <2>1, AttendedElsewhere
  <2>4. ASSUME NEW r \in Request PROVE Owed(r)'
    <3>1. Owed(r)
      BY DEF OwedInv
    <3>2. PICK d : d = <<r, status[r]>>
      OBVIOUS
    <3>3. status[r] # "open" => d \in Once
      BY <1>0, <3>2, Parts DEF Tables, Decision, Once
    <3>4. status[r] # "open" => (NobodyTold(d)' <=> NobodyTold(d))
      BY <2>2, <3>3 DEF NobodyTold
    <3> QED BY <2>1, <3>1, <3>2, <3>4, OwedFrame DEF BegunOn, At
  <2> QED BY <2>3, <2>4
<1> QED BY <1>1, <1>2, <1>3, <1>4, <1>5, <1>6, <1>7 DEF Next

\* However many approvers send the same decision of a request, in whatever order
\* their handlers read and write its status: the requester is told of it unless
\* a failure cut a handler of it short.
THEOREM RequestersKnow == Spec => []RequesterKnows
<1>1. Init => OwedInv
  <2>1. Init => Attended /\ \A r \in Request : Owed(r)
    BY FreeAttends DEF Init, Attended, Attends, Owed
  <2> QED BY <2>1, InitTypes DEF OwedInv
<1>2. OwedInv => RequesterKnows
  <2> SUFFICES ASSUME OwedInv, NEW r \in Request, Decided(r),
                      BegunOn(r) = {<<r, status[r]>>}
               PROVE  Heard(<<r, status[r]>>)
    BY DEF RequesterKnows, BegunOn
  <2>1. status[r] # "open" /\ status[r] \in Verdict
    BY Parts DEF Decided, OwedInv, Tables
  <2>2. \A P : ~At(<<r, status[r]>>, P)
    BY <2>1 DEF Decided, Quiet, Working, At
  <2> QED BY <2>1, <2>2 DEF OwedInv, Owed, OnItsWay
<1> QED BY <1>1, <1>2, OwedByNext, PTL DEF Spec

-----------------------------------------------------------------------------
(* The levels, as long as nothing moves one while it is checked.           *)

\* A task that has read the level goes the way the level still says.
Follows(s) ==
  /\ s.pc \in {"claim", "resolve", "deliver"} => low[s.key]
  /\ s.pc = "release" => ~low[s.key]

Sends(s, i) == s.key = i /\ s.pc \in {"resolve", "deliver"}

\* One task sends at a time, it holds the key, and tells those it has not told;
\* of a low level whose key is free nobody was told since it was pruned.
OneSender(i) ==
  /\ \A t \in Task : task[t].key = i => Follows(task[t])
  /\ \A t \in Task : Sends(task[t], i) =>
       i \in dedup /\ \A p \in Person :
                        task[t].pc = "resolve" \/ p \in task[t].to =>
                          told[i][p] = toldBefore[i][p]
  /\ \A t, u \in Task : Sends(task[t], i) /\ Sends(task[u], i) => t = u
  /\ low[i] /\ i \notin dedup => Fresh(i)
  /\ \A p \in Person : low[i] => told[i][p] \in {toldBefore[i][p], toldBefore[i][p] + 1}

\* A low level nobody was told of, and a key that is held though the level is
\* not low, have a task that sees to it.
Cared(i) ==
  i \notin died =>
    /\ low[i] /\ i \notin unheard /\ NobodyTold(i) /\ i \in dedup =>
         At(i, {"resolve", "deliver"})
    /\ low[i] /\ i \notin unheard /\ NobodyTold(i) /\ i \notin dedup =>
         At(i, {"read", "claim"})
    /\ ~low[i] /\ i \in dedup => At(i, {"read", "release"})

Watched(i) == OneSender(i) /\ Cared(i)
LevelInv   == TypeInv /\ \A i \in Level \ moved : Watched(i)

LEMMA LevelFacts ==
  ASSUME TypeInv, NEW i \in Level
  PROVE  /\ i \in Key /\ i # NoKey /\ Free.key = NoKey /\ Free.pc = "free"
         /\ i \notin Decision /\ i \notin Assign /\ i \notin Large
         /\ First(i) = "read" /\ AfterClaim(i) = "resolve" /\ AfterResolve(i) = "deliver"
         /\ low \in [Level -> BOOLEAN] /\ low[i] \in BOOLEAN
         /\ told \in [Key -> [Person -> Nat]] /\ toldBefore \in [Key -> [Person -> Nat]]
<1>1. i \in Key
  BY DEF Key
<1> QED BY <1>1, Kinds, Courses, Parts DEF Free, Tables, Once

LEMMA WatchedApart ==
  ASSUME NEW i \in Level, Watched(i), Apart(i), low'[i] = low[i], told'[i] = told[i],
         toldBefore'[i] = toldBefore[i],
         i \in dedup' <=> i \in dedup, i \in unheard' <=> i \in unheard, died \subseteq died'
  PROVE  Watched(i)'
<1>1. \A P : At(i, P)' <=> At(i, P)
  BY DEF At, Apart
<1>2. /\ At(i, {"resolve", "deliver"})' <=> At(i, {"resolve", "deliver"})
      /\ At(i, {"read", "claim"})' <=> At(i, {"read", "claim"})
      /\ At(i, {"read", "release"})' <=> At(i, {"read", "release"})
  BY <1>1
<1>3. (NobodyTold(i)' <=> NobodyTold(i)) /\ (Fresh(i)' <=> Fresh(i))
  BY DEF NobodyTold, Fresh
<1>4. Cared(i)'
  BY <1>2, <1>3 DEF Watched, Cared
<1>5. OneSender(i)'
  BY <1>3 DEF Watched, OneSender, Apart, Sends, Follows
<1> QED BY <1>4, <1>5 DEF Watched

\* A task of i that reads, ends or dies: the senders of i are no more than before.
LEMMA FewerSend ==
  ASSUME TypeInv, NEW i \in Level, OneSender(i), NEW t \in Task, Stays(t),
         low' = low, told' = told, toldBefore' = toldBefore, i \in dedup' <=> i \in dedup,
         \/ Ends(t)
         \/ /\ task'[t].key = i /\ ~Sends(task'[t], i) /\ Follows(task[t])'
  PROVE  OneSender(i)'
<1>1. i # NoKey /\ Free.key = NoKey
  BY LevelFacts
<1>2. ~Sends(task'[t], i) /\ (task'[t].key = i => Follows(task[t])')
  BY <1>1 DEF Ends, Sends
<1>3. (NobodyTold(i)' <=> NobodyTold(i)) /\ (Fresh(i)' <=> Fresh(i))
  BY DEF NobodyTold, Fresh
<1> QED BY <1>2, <1>3 DEF OneSender, Stays, Sends, Follows

LEMMA ReadWatched ==
  ASSUME TypeInv, NEW i \in Level, Watched(i), NEW t \in Task, task[t].key = i, Read(t)
  PROVE  Watched(i)'
<1>1. /\ Stays(t) /\ task[t].pc = "read" /\ Goes(t, IF low[i] THEN "claim" ELSE "release")
      /\ UNCHANGED <<low, told, toldBefore, dedup, died, unheard>> /\ low[i] \in BOOLEAN
  BY ReadMoves, LevelFacts DEF Read, db, history, past
<1>2. OneSender(i)'
  BY <1>1, FewerSend DEF Watched, Sends, Follows, Goes
<1>3. At(i, {"resolve", "deliver"}) => At(i, {"resolve", "deliver"})'
  BY <1>1 DEF At, Stays
<1>4. IF low[i] THEN At(i, {"read", "claim"})' ELSE At(i, {"read", "release"})'
  BY <1>1 DEF At, Goes
<1> QED BY <1>1, <1>2, <1>3, <1>4 DEF Watched, Cared, NobodyTold

LEMMA ReleaseWatched ==
  ASSUME TypeInv, NEW i \in Level, Watched(i), NEW t \in Task, task[t].key = i, Release(t)
  PROVE  Watched(i)'
<1>1. /\ Stays(t) /\ Ends(t) /\ task[t].pc = "release" /\ dedup' = dedup \ {i}
      /\ UNCHANGED <<low, told, toldBefore, died, unheard>>
  BY ReleaseMoves DEF Release, history, past
<1>2. ~low[i] /\ \A u \in Task : ~Sends(task[u], i)
  BY <1>1 DEF Watched, OneSender, Sends, Follows
<1>3. \A u \in Task : task'[u].key = i => task'[u] = task[u]
  BY <1>1, LevelFacts DEF Stays, Ends
<1>4. OneSender(i)'
  BY <1>1, <1>2, <1>3 DEF Watched, OneSender, Sends, Follows
<1>5. Cared(i)'
  BY <1>1, <1>2 DEF Cared
<1> QED BY <1>4, <1>5 DEF Watched

LEMMA ClaimWatched ==
  ASSUME TypeInv, NEW i \in Level, Watched(i), NEW t \in Task, task[t].key = i, ClaimEvent(t)
  PROVE  Watched(i)'
<1>0. i # NoKey /\ Free.key = NoKey
  BY LevelFacts
<1>1. /\ Stays(t) /\ task[t].pc = "claim" /\ UNCHANGED <<low, told, toldBefore, died, unheard>>
      /\ i \in dedup => dedup' = dedup /\ Ends(t)
      /\ i \notin dedup => dedup' = dedup \cup {i} /\ Goes(t, "resolve")
  BY ClaimMoves, LevelFacts DEF ClaimEvent, history, past
<1>2. low[i]
  BY <1>1 DEF Watched, OneSender, Follows
<1>3. CASE i \in dedup
  <2>1. OneSender(i)'
    BY <1>1, <1>3, FewerSend DEF Watched
  <2>2. At(i, {"resolve", "deliver"}) => At(i, {"resolve", "deliver"})'
    BY <1>1 DEF At, Stays
  <2> QED BY <1>1, <1>2, <1>3, <2>1, <2>2 DEF Watched, Cared, NobodyTold
<1>4. CASE i \notin dedup
  <2>1. Fresh(i) /\ \A u \in Task : ~Sends(task[u], i)
    BY <1>2, <1>4 DEF Watched, OneSender
  <2>2. /\ task'[t].key = i /\ task'[t].pc = "resolve"
        /\ \A u \in Task \ {t} : task'[u] = task[u] /\ ~Sends(task'[u], i)
    BY <1>1, <1>4, <2>1 DEF Stays, Goes
  <2>3. \A u \in Task : Sends(task'[u], i) => u = t
    BY <2>2
  <2>4. \A u \in Task : task'[u].key = i => Follows(task[u])'
    BY <1>1, <1>2, <2>2 DEF Watched, OneSender, Follows
  <2>5. OneSender(i)'
    BY <1>1, <1>4, <2>1, <2>3, <2>4 DEF Watched, OneSender, Fresh
  <2>6. At(i, {"resolve", "deliver"})'
    BY <2>2 DEF At
  <2> QED BY <1>1, <1>2, <1>4, <2>5, <2>6 DEF Watched, Cared
<1> QED BY <1>3, <1>4

LEMMA ResolveWatched ==
  ASSUME TypeInv, NEW i \in Level, Watched(i), NEW t \in Task, task[t].key = i, Resolve(t)
  PROVE  Watched(i)'
<1>1. /\ Stays(t) /\ task[t].pc = "resolve" /\ UNCHANGED <<low, told, toldBefore, died, dedup>>
      /\ staff # {} => Goes(t, "deliver") /\ unheard' = unheard
      /\ staff = {} => Ends(t) /\ unheard' = unheard \cup {i}
  BY ResolveMoves, LevelFacts DEF Resolve, db, past
<1>2. Sends(task[t], i) /\ low[i] /\ i \in dedup /\ Fresh(i)
  BY <1>1 DEF Watched, OneSender, Sends, Follows, Fresh
<1>3. CASE staff # {}
  <2>1. /\ task'[t].key = i /\ task'[t].pc = "deliver"
        /\ \A u \in Task \ {t} : task'[u] = task[u] /\ ~Sends(task'[u], i)
    BY <1>1, <1>2, <1>3 DEF Stays, Goes, Watched, OneSender
  <2>2. \A u \in Task : task'[u].key = i => Follows(task[u])'
    BY <1>1, <1>2, <2>1 DEF Watched, OneSender, Follows
  <2>3. \A u \in Task : Sends(task'[u], i) => u = t
    BY <2>1
  <2>4. OneSender(i)'
    BY <1>1, <1>2, <2>2, <2>3 DEF Watched, OneSender, Fresh
  <2>5. At(i, {"resolve", "deliver"})'
    BY <2>1 DEF At
  <2> QED BY <1>1, <1>2, <2>4, <2>5 DEF Watched, Cared
<1>4. CASE staff = {}
  <2>1. OneSender(i)'
    BY <1>1, <1>4, FewerSend DEF Watched
  <2> QED BY <1>1, <1>2, <1>4, <2>1 DEF Watched, Cared
<1> QED BY <1>3, <1>4

LEMMA DeliverWatched ==
  ASSUME TypeInv, NEW i \in Level, Watched(i), NEW t \in Task, task[t].key = i, Deliver(t)
  PROVE  Watched(i)'
<1>0. i # NoKey /\ Free.key = NoKey /\ i \in Key /\ told \in [Key -> [Person -> Nat]]
      /\ \A q \in Person : told[i][q] \in Nat /\ toldBefore[i][q] \in Nat
  BY LevelFacts
<1>1. /\ Stays(t) /\ task[t].pc = "deliver" /\ UNCHANGED <<low, died, dedup, unheard, toldBefore>>
  BY DeliverMoves DEF Deliver, history, past
<1>2. PICK p \in task[t].to \cap Person :
        /\ told' = [told EXCEPT ![i][p] = @ + 1]
        /\ Ends(t) \/ (Goes(t, "deliver") /\ task'[t].to = task[t].to \ {p})
  BY DeliverMoves
<1>3. Sends(task[t], i) /\ low[i] /\ i \in dedup /\ told[i][p] = toldBefore[i][p]
  BY <1>1, <1>2 DEF Watched, OneSender, Sends, Follows
<1>4. told'[i][p] = told[i][p] + 1 /\ \A q \in Person \ {p} : told'[i][q] = told[i][q]
  BY <1>0, <1>2, <1>3
<1>5. \A u \in Task \ {t} : task'[u] = task[u] /\ ~Sends(task'[u], i)
  BY <1>1, <1>3 DEF Stays, Watched, OneSender
<1>6. \A u \in Task : Sends(task'[u], i) => u = t
  BY <1>5
<1>7. \A u \in Task : task'[u].key = i => Follows(task[u])'
  BY <1>0, <1>1, <1>2, <1>3, <1>5 DEF Watched, OneSender, Follows, Ends, Goes
<1>8. ASSUME Sends(task'[t], i), NEW q \in Person, task'[t].pc = "resolve" \/ q \in task'[t].to
      PROVE  told'[i][q] = toldBefore'[i][q]
  <2>1. task'[t].pc = "deliver" /\ task'[t].to = task[t].to \ {p}
    BY <1>0, <1>2, <1>8 DEF Sends, Ends, Goes
  <2>2. q \in task[t].to /\ q # p
    BY <1>8, <2>1
  <2>3. told[i][q] = toldBefore[i][q]
    BY <1>3, <2>2 DEF Watched, OneSender
  <2> QED BY <1>1, <1>4, <2>2, <2>3
<1>9. \A q \in Person : told'[i][q] \in {toldBefore'[i][q], toldBefore'[i][q] + 1}
  BY <1>1, <1>3, <1>4 DEF Watched, OneSender
<1>10. OneSender(i)'
  BY <1>1, <1>3, <1>6, <1>7, <1>8, <1>9 DEF OneSender
<1>11. ~NobodyTold(i)'
  <2>1. told'[i][p] # 0
    BY <1>0, <1>4
  <2> QED BY <2>1 DEF NobodyTold
<1> QED BY <1>1, <1>3, <1>10, <1>11 DEF Watched, Cared

LEMMA FailsWatched ==
  ASSUME TypeInv, NEW i \in Level, Watched(i), NEW t \in Task, task[t].key = i, Fails(t)
  PROVE  Watched(i)'
<1>1. Stays(t) /\ Ends(t) /\ i \in died' /\ UNCHANGED <<low, told, toldBefore, dedup, unheard>>
  BY FailsMoves, LevelFacts DEF Fails, db, past
<1> QED BY <1>1, FewerSend DEF Watched, Cared

LEMMA WatchedByTask ==
  ASSUME TypeInv, NEW i \in Level, Watched(i), NEW t \in Task, Step(t) \/ Fails(t)
  PROVE  Watched(i)'
<1>1. CASE task[t].key = i
  <2>1. ~(FileRequest(t) \/ Preread(t) \/ Guard(t) \/ Write(t))
    BY <1>1, FileMoves, DecisionMoves, LevelFacts
  <2> QED BY <1>1, <2>1, ReadWatched, ReleaseWatched, ClaimWatched, ResolveWatched,
             DeliverWatched, FailsWatched DEF Step
<1>2. CASE task[t].key # i
  <2>0. i \in Key /\ told \in [Key -> [Person -> Nat]]
    BY LevelFacts
  <2>1. Apart(i)
    BY <1>2, <2>0, StepApart
  <2>2. low' = low /\ died \subseteq died' /\ toldBefore' = toldBefore
    BY DEF Step, Fails, Read, Release, ClaimEvent, Resolve, FileRequest, Deliver,
           Preread, Guard, Write, db, history, past
  <2>3. told'[i] = told[i]
    <3>1. CASE Deliver(t)
      BY <1>2, <2>0, <3>1, DeliverMoves
    <3>2. CASE ~Deliver(t)
      BY <3>2 DEF Step, Fails, Read, Release, ClaimEvent, Resolve, FileRequest,
                  Preread, Guard, Write, db
    <3> QED BY <3>1, <3>2
  <2>4. i \in dedup' <=> i \in dedup
    <3>1. CASE Release(t) \/ ClaimEvent(t)
      BY <1>2, <3>1, ReleaseMoves, ClaimMoves
    <3>2. CASE ~(Release(t) \/ ClaimEvent(t))
      BY <3>2 DEF Step, Fails, Read, Resolve, FileRequest, Deliver, Preread, Guard, Write, db
    <3> QED BY <3>1, <3>2
  <2>5. i \in unheard' <=> i \in unheard
    <3>1. CASE Resolve(t)
      BY <1>2, <3>1, ResolveMoves
    <3>2. CASE ~Resolve(t)
      BY <3>2 DEF Step, Fails, Read, Release, ClaimEvent, FileRequest, Deliver,
                  Preread, Guard, Write, history, past
    <3> QED BY <3>1, <3>2
  <2> QED BY <2>1, <2>2, <2>3, <2>4, <2>5, WatchedApart
<1> QED BY <1>1, <1>2

\* A new task of i only adds a reader.
LEMMA ReaderAdded ==
  ASSUME TypeInv, NEW i \in Level, Watched(i), NEW t \in Task, Start(t, i, NoOne),
         low'[i] = low[i], UNCHANGED <<told, toldBefore, unheard>>
  PROVE  Watched(i)'
<1>1. /\ task[t] = Free /\ Stays(t) /\ task'[t].key = i /\ task'[t].pc = "read"
      /\ UNCHANGED <<dedup, died>> /\ Free.pc = "free" /\ Free.key # i
  BY StartMoves, LevelFacts
<1>2. OneSender(i)'
  BY <1>1 DEF Watched, OneSender, Stays, Sends, Follows, Fresh
<1>3. \A P : At(i, P) => At(i, P)'
  BY <1>1 DEF At, Stays
<1>4. Cared(i)'
  BY <1>1, <1>3 DEF Watched, Cared, NobodyTold
<1> QED BY <1>2, <1>4 DEF Watched

\* What a fall or a rise leaves of the notices.
LEMMA BecomeCounts ==
  ASSUME TypeInv, NEW i \in Level, NEW l \in BOOLEAN, Become(i, l)
  PROVE  /\ low'[i] = l
         /\ l /\ ~low[i] => \A p \in Person : told'[i][p] = 0 /\ toldBefore'[i][p] = 0
         /\ ~(l /\ ~low[i]) => UNCHANGED <<told, toldBefore, unheard>>
  BY LevelFacts DEF Become

\* A check that starts alone, of a level that is not low or was told to nobody
\* and whose key is free if the level is low: it sees to the level.
LEMMA SettledWatched ==
  ASSUME TypeInv, NEW i \in Level, NEW t \in Task, Start(t, i, NoOne),
         Working(i) = {}, NEW l \in BOOLEAN, Become(i, l),
         l /\ i \notin died => i \notin dedup,
         l /\ low[i] => Fresh(i)
  PROVE  Watched(i)'
<1>1. /\ Stays(t) /\ task'[t].key = i /\ task'[t].pc = "read" /\ UNCHANGED <<dedup, died>>
  BY StartMoves, LevelFacts
<1>2. \A u \in Task \ {t} : task'[u].key # i
  BY <1>1 DEF Working, Stays
<1>3. \A u \in Task : task'[u].key = i => task'[u].pc = "read"
  BY <1>1, <1>2
<1>4. At(i, {"read", "claim"})' /\ At(i, {"read", "release"})'
  BY <1>1 DEF At
<1>5. low'[i] = l
  BY BecomeCounts
<1>6. l => Fresh(i)'
  <2>1. CASE l /\ ~low[i]
    BY <2>1, BecomeCounts DEF Fresh
  <2>2. CASE l /\ low[i]
    BY <2>2, BecomeCounts DEF Fresh
  <2> QED BY <2>1, <2>2
<1>7. \A p \in Person : l => told'[i][p] \in {toldBefore'[i][p], toldBefore'[i][p] + 1}
  BY <1>6 DEF Fresh
<1>8. OneSender(i)'
  BY <1>3, <1>5, <1>6, <1>7 DEF OneSender, Sends, Follows
<1>9. Cared(i)'
  BY <1>1, <1>4, <1>5 DEF Cared
<1> QED BY <1>8, <1>9 DEF Watched

\* The level moves while no check of it is under way.
LEMMA LevelMoves ==
  ASSUME TypeInv, NEW i \in Level, Watched(i), NEW t \in Task, Start(t, i, NoOne),
         Working(i) = {}, NEW l \in BOOLEAN, l # low[i], Become(i, l)
  PROVE  Watched(i)'
<1>1. \A P : ~At(i, P)
  BY DEF At, Working
<1>2. l /\ i \notin died => i \notin dedup
  BY <1>1, LevelFacts DEF Watched, Cared
<1>3. ~(l /\ low[i])
  BY LevelFacts
<1> QED BY <1>2, <1>3, SettledWatched

LEMMA TouchWatched ==
  ASSUME LevelInv, NEW t \in Task, NEW j \in Level, Touch(t, j), NEW i \in Level \ moved'
  PROVE  Watched(i)'
<1>0. TypeInv /\ i \in Key /\ i # NoKey /\ Free.key = NoKey
  BY LevelFacts DEF LevelInv
<1>1. PICK l \in BOOLEAN :
        /\ Become(j, l)
        /\ moved' = IF Settles(j, l) THEN moved \ {j}
                    ELSE IF l # low[j] /\ Working(j) # {} THEN moved \cup {j} ELSE moved
  BY DEF Touch
<1>2. Start(t, j, NoOne)
  BY DEF Touch
<1>3. CASE i # j
  <2>1. /\ task[t] = Free /\ Stays(t) /\ task'[t].key = j /\ UNCHANGED <<dedup, died>>
    BY <1>0, <1>2, StartMoves DEF Key
  <2>2. Apart(i)
    BY <1>0, <1>3, <2>1, OthersApart
  <2>3. /\ low'[i] = low[i] /\ told'[i] = told[i] /\ toldBefore'[i] = toldBefore[i]
        /\ (i \in unheard' <=> i \in unheard)
    BY <1>0, <1>1, <1>3, BecomeApart
  <2>4. Watched(i)
    BY <1>1, <1>3 DEF LevelInv
  <2> QED BY <2>1, <2>2, <2>3, <2>4, WatchedApart
<1>4. CASE i = j /\ Settles(i, l)
  BY <1>0, <1>1, <1>2, <1>4, SettledWatched DEF Settles
<1>5. CASE i = j /\ ~Settles(i, l)
  <2>1. i \notin moved /\ (l = low[i] \/ Working(i) = {})
    BY <1>1, <1>5
  <2>2. Watched(i)
    BY <2>1 DEF LevelInv
  <2>3. CASE l = low[i]
    <3>1. low'[i] = low[i] /\ UNCHANGED <<told, toldBefore, unheard>>
      BY <1>0, <1>1, <1>5, <2>3, BecomeCounts
    <3> QED BY <1>0, <1>2, <1>5, <2>2, <3>1, ReaderAdded
  <2>4. CASE l # low[i]
    BY <1>0, <1>1, <1>2, <1>5, <2>1, <2>2, <2>4, LevelMoves
  <2> QED BY <2>3, <2>4
<1> QED BY <1>3, <1>4, <1>5

\* A level that moved without a check is left out.
LEMMA RecountWatched ==
  ASSUME LevelInv, NEW j \in Level, Recount(j), NEW i \in Level \ moved'
  PROVE  Watched(i)'
<1>1. /\ i # j /\ i \notin moved /\ UNCHANGED <<task, dedup, died>> /\ Become(j, ~low[j])
      /\ TypeInv /\ Watched(i) /\ i \in Key
  BY DEF Recount, LevelInv, Key
<1>2. Apart(i)
  BY <1>1 DEF Apart
<1>3. /\ low'[i] = low[i] /\ told'[i] = told[i] /\ toldBefore'[i] = toldBefore[i]
      /\ (i \in unheard' <=> i \in unheard)
  BY <1>1, BecomeApart
<1> QED BY <1>1, <1>2, <1>3, WatchedApart

LEMMA RestartWatched ==
  ASSUME TypeInv, NEW i \in Level, Watched(i), Restart
  PROVE  Watched(i)'
<1>0. i # NoKey /\ Free.key = NoKey /\ First(i) = "read" /\ i \in Key /\ i \notin Decision
  BY LevelFacts
<1>p. PICK old \in SUBSET dedup : Prune(old)
  BY DEF Restart
<1>1. /\ UNCHANGED <<low, told, unheard>> /\ died \subseteq died' /\ dedup' = dedup \ old
      /\ toldBefore'[i] = IF i \in old THEN told[i] ELSE toldBefore[i]
  BY <1>0, <1>p DEF Restart, Prune
<1>2. \A u \in Task : task'[u].key = i => task'[u].pc = "read"
  BY <1>0, RestartMoves DEF Ends, Goes
<1>3. OneSender(i)'
  <2>1. low[i] /\ i \notin dedup' => Fresh(i)'
    BY <1>1 DEF Watched, OneSender, Fresh
  <2>2. \A p \in Person : low[i] => told'[i][p] \in {toldBefore'[i][p], toldBefore'[i][p] + 1}
    BY <1>1 DEF Watched, OneSender
  <2> QED BY <1>1, <1>2, <2>1, <2>2 DEF OneSender, Sends, Follows
<1>4. ASSUME i \notin died', NEW P, At(i, P)
      PROVE  /\ \E u \in Task : task[u].key = i /\ task[u].pc \in P /\ Early(u)
             /\ At(i, {"read", "claim"})' /\ At(i, {"read", "release"})'
  <2>1. PICK u \in Task : task[u].key = i /\ task[u].pc \in P
    BY <1>4 DEF At
  <2>2. task[u] # Free
    BY <1>0, <2>1
  <2>3. Early(u) /\ Goes(u, "read")
    BY <1>0, <1>4, <2>1, <2>2, RestartMoves
  <2> QED BY <2>1, <2>3 DEF At, Goes
<1>5. i \notin died' => ~At(i, {"resolve", "deliver"})
  <2> SUFFICES ASSUME i \notin died', At(i, {"resolve", "deliver"}) PROVE FALSE
    OBVIOUS
  <2>1. PICK u \in Task : /\ task[u].key = i /\ task[u].pc \in {"resolve", "deliver"}
                          /\ Early(u)
    BY <1>4
  <2>2. i \notin Watch
    BY <1>0, Kinds DEF Once
  <2> QED BY <2>1, <2>2 DEF Early
<1>6. Cared(i)'
  BY <1>1, <1>4, <1>5 DEF Watched, Cared, NobodyTold
<1> QED BY <1>3, <1>6 DEF Watched

LEMMA LevelByNext == LevelInv /\ [Next]_vars => LevelInv'
<1> SUFFICES ASSUME LevelInv, [Next]_vars, NEW i \in Level \ moved' PROVE Watched(i)'
  BY TypeStep DEF LevelInv
<1>0. TypeInv /\ \A j \in Level \ moved : Watched(j)
  BY DEF LevelInv
<1>1. ASSUME NEW t \in Task, Step(t) \/ Fails(t) PROVE Watched(i)'
  <2>1. moved' = moved
    BY <1>1 DEF Step, Fails, Read, Release, ClaimEvent, Resolve, FileRequest, Deliver,
                Preread, Guard, Write, history, past
  <2> QED BY <1>0, <1>1, <2>1, WatchedByTask
<1>2. ASSUME NEW t \in Task, NEW j \in Level, Touch(t, j) PROVE Watched(i)'
  BY <1>2, TouchWatched
<1>3. ASSUME NEW t \in Task, NEW k \in Once, NEW c, Start(t, k, c),
             UNCHANGED <<low, told, toldBefore, unheard, moved>>
      PROVE  Watched(i)'
  <2>1. k \in Key /\ k # i /\ i # NoKey /\ Free.key = NoKey /\ i \in Key
    BY <1>0, Kinds, LevelFacts DEF Key
  <2>2. /\ task[t] = Free /\ Stays(t) /\ task'[t].key = k /\ UNCHANGED <<dedup, died>>
    BY <1>0, <1>3, <2>1, StartMoves
  <2>3. Apart(i)
    BY <2>1, <2>2, OthersApart
  <2> QED BY <1>0, <1>3, <2>2, <2>3, WatchedApart
<1>4. ASSUME NEW t \in Task, NEW k \in Once \ Decision, Occur(t, k) PROVE Watched(i)'
  BY <1>3, <1>4 DEF Occur
<1>5. ASSUME NEW t \in Task, NEW d \in Decision, NEW c \in Person, Decide(t, d, c)
      PROVE  Watched(i)'
  BY <1>3, <1>5 DEF Decide, Once
<1>6. CASE Restart
  BY <1>0, <1>6, RestartWatched DEF Restart
<1>7. CASE (\E S \in SUBSET Person : Restaff(S)) \/ UNCHANGED vars
  BY <1>0, <1>7, WatchedApart DEF Restaff, vars, db, history, past, Apart
<1>8. ASSUME NEW j \in Level, Recount(j) PROVE Watched(i)'
  BY <1>8, RecountWatched
<1> QED BY <1>1, <1>2, <1>4, <1>5, <1>6, <1>7, <1>8 DEF Next

LEMMA LevelAtInit == Init => LevelInv
<1> SUFFICES ASSUME Init, NEW i \in Level PROVE Watched(i)
  BY InitTypes DEF LevelInv
<1>1. /\ i \in Key /\ i # NoKey /\ Free.key = NoKey
      /\ ~low[i] /\ dedup = {} /\ \A t \in Task : task[t] = Free
      /\ \A p \in Person : told[i][p] = 0
  BY LevelFacts, InitTypes DEF Init
<1>2. OneSender(i) /\ Cared(i)
  BY <1>1 DEF OneSender, Cared, Sends
<1> QED BY <1>2 DEF Watched

\* However many pushes and heartbeats check a level, and whichever of their
\* tasks fail: as long as it does not move under a check or without one, each
\* person is told once, at most, that it has fallen before its key is pruned.
THEOREM OneNoticeEach == Spec => []OneNoticePerFall
<1>1. LevelInv => OneNoticePerFall
  <2> SUFFICES ASSUME LevelInv, NEW i \in Level \ moved, NEW p \in Person, low[i]
               PROVE  told[i][p] <= toldBefore[i][p] + 1
    BY DEF OneNoticePerFall
  <2>1. told[i][p] \in {toldBefore[i][p], toldBefore[i][p] + 1}
    BY DEF LevelInv, Watched, OneSender
  <2>2. told[i][p] \in Nat /\ toldBefore[i][p] \in Nat
    BY LevelFacts DEF LevelInv
  <2> QED BY <2>1, <2>2
<1> QED BY <1>1, LevelAtInit, LevelByNext, PTL DEF Spec

\* ... and once no check of a low level is under way somebody has been told,
\* unless nobody was there or a failure cut a check short.
THEOREM LowStockIsTold == Spec => []LowStockTold
<1>1. LevelInv => LowStockTold
  <2> SUFFICES ASSUME LevelInv, NEW i \in Level \ moved, low[i], Quiet(i),
                      i \notin died, i \notin unheard, NobodyTold(i)
               PROVE  FALSE
    BY DEF LowStockTold
  <2>1. \A P : ~At(i, P)
    BY DEF At, Quiet, Working
  <2> QED BY <2>1 DEF LevelInv, Watched, Cared
<1> QED BY <1>1, LevelAtInit, LevelByNext, PTL DEF Spec

=============================================================================
