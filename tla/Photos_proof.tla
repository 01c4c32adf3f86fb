----------------------------- MODULE Photos_proof ------------------------------
(* Proofs about Photos, for any number of devices, jobs, photos and handlers. *)
EXTENDS Photos, TLAPS

-----------------------------------------------------------------------------
(* Types.                                                                  *)

LEMMA MirrorTyped ==
  ASSUME TypeOK, NEW d \in Device, NEW op \in {"INSERT", "UPDATE", "DELETE"},
         NEW p \in Photo, NEW r \in Row, op = "INSERT" => r.job # NoJob,
         Mirror(d, op, p, r)
  PROVE  /\ issued' \in [Device -> Nat]
         /\ queue' \in [Device -> SUBSET Write]
         /\ local' \in [Device -> [Photo -> Row]]
<1>1. /\ issued \in [Device -> Nat] /\ queue \in [Device -> SUBSET Write]
      /\ local \in [Device -> [Photo -> Row]]
  BY DEF TypeOK
<1>2. [id |-> issued[d], op |-> op, photo |-> p, job |-> r.job, star |-> r.star]
        \in Write
  BY <1>1 DEF Write, Row
<1>3. issued' \in [Device -> Nat]
  BY <1>1 DEF Mirror
<1>4. queue' \in [Device -> SUBSET Write]
  BY <1>1, <1>2 DEF Mirror
<1>5. local' \in [Device -> [Photo -> Row]]
  BY <1>1 DEF Mirror
<1>6. QED
  BY <1>3, <1>4, <1>5

\* A handler that goes on, or takes its claim back, keeps its type.
LEMMA Placed ==
  ASSUME NEW s \in Active, NEW pc \in {"check", "write", "again", "done"}
  PROVE  [s EXCEPT !.pc = pc] \in Active
  BY DEF Active

LEMMA Unclaimed ==
  ASSUME NEW s \in Active, NEW b \in BOOLEAN
  PROVE  [s EXCEPT !.star = b] \in Active
  BY DEF Active

LEMMA TypesAtInit == Init => TypeOK
  BY PhotosAssumption DEF PhotosAssumption, Init, TypeOK, Row, Absent

LEMMA TypesByNext == TypeOK /\ [Next]_vars => TypeOK'
<1> SUFFICES ASSUME TypeOK, [Next]_vars PROVE TypeOK'
  OBVIOUS
<1> USE PhotosAssumption DEF PhotosAssumption
<1>1. ASSUME NEW d \in Device, NEW p \in Photo, NEW j \in Job, Upload(d, p, j)
      PROVE  TypeOK'
  <2>1. Claims(d, j) \in BOOLEAN
    BY DEF Claims
  <2>2. [job |-> j, star |-> Claims(d, j)] \in Row
    BY <2>1 DEF Row
  <2> QED BY <1>1, <2>2, MirrorTyped DEF Upload, TypeOK
<1>2. ASSUME NEW d \in Device, NEW p \in Photo, NEW j \in Job, Move(d, p, j)
      PROVE  TypeOK'
  <2>1. [job |-> j, star |-> FALSE] \in Row
    BY DEF Row
  <2>2. /\ issued' \in [Device -> Nat] /\ queue' \in [Device -> SUBSET Write]
        /\ local' \in [Device -> [Photo -> Row]]
    BY <1>2, <2>1, MirrorTyped DEF Move
  <2>3. local[d][p].job \in Job
    BY <1>2 DEF Move, TypeOK, Row
  <2> QED BY <1>2, <2>2, <2>3 DEF Move, TypeOK
<1>3. ASSUME NEW d \in Device, NEW p \in Photo, Delete(d, p)
      PROVE  TypeOK'
  <2>1. Absent \in Row
    BY DEF Row, Absent
  <2>2. /\ issued' \in [Device -> Nat] /\ queue' \in [Device -> SUBSET Write]
        /\ local' \in [Device -> [Photo -> Row]]
    BY <1>3, <2>1, MirrorTyped DEF Delete
  <2>3. local[d][p].job \in Job
    BY <1>3 DEF Delete, TypeOK, Row
  <2> QED BY <1>3, <2>2, <2>3 DEF Delete, TypeOK
<1>4. ASSUME NEW d \in Device, Pull(d)
      PROVE  TypeOK'
  BY <1>4 DEF Pull, TypeOK
<1>5. ASSUME NEW d \in Device, NEW h \in Handler, Post(d, h)
      PROVE  TypeOK'
  <2>1. PICK w \in queue[d] :
          handler' = [handler EXCEPT ![h] =
            [pc |-> IF w.op = "INSERT" /\ w.star THEN "check" ELSE "write",
             by |-> d, write |-> w, star |-> w.star]]
    BY <1>5 DEF Post, Goto
  <2>2. w \in Write
    BY DEF TypeOK
  <2>3. handler' \in [Handler -> {Rest} \cup Active]
    BY <2>1, <2>2 DEF TypeOK, Active, Write
  <2> QED BY <1>5, <2>3 DEF Post, TypeOK
<1>6. ASSUME NEW h \in Handler, Check(h)
      PROVE  TypeOK'
  <2>1. handler[h] \in Active
    BY <1>6 DEF Check, Busy, TypeOK
  <2>2. (Holders(handler[h].write.photo, handler[h].write.job) = {}) \in BOOLEAN
    OBVIOUS
  <2>3. handler' \in [Handler -> {Rest} \cup Active]
    BY <1>6, <2>1, <2>2 DEF Check, TypeOK, Active, At, Goto
  <2> QED BY <1>6, <2>3 DEF Check, TypeOK
<1>7. ASSUME NEW h \in Handler, Insert(h)
      PROVE  TypeOK'
  <2>1. handler[h] \in Active
    BY <1>7 DEF Insert, Busy, TypeOK
  <2>2. handler' \in [Handler -> {Rest} \cup Active]
    <3>1. /\ At(h, "done") \in Active
          /\ [At(h, "again") EXCEPT !.star = FALSE] \in Active
      BY <2>1, Placed, Unclaimed DEF At
    <3>2. PICK s \in Active : handler' = [handler EXCEPT ![h] = s]
      BY <1>7, <3>1 DEF Insert, Collided, Goto
    <3> QED BY <3>2 DEF TypeOK
  <2>3. row' \in [Photo -> Row]
    <3>1. /\ handler[h].write.photo \in Photo
          /\ [job |-> handler[h].write.job, star |-> handler[h].star] \in Row
      BY <2>1 DEF Active, Write, Row
    <3> QED BY <1>7, <3>1 DEF Insert, Upserted, TypeOK
  <2>4. ASSUME NEW p \in Photo, row'[p].job = NoJob PROVE row'[p] = Absent
    <3>1. row' = row \/ row' = Upserted(h)
      BY <1>7 DEF Insert
    <3>2. CASE row' = row
      BY <2>4, <3>2 DEF TypeOK
    <3>3. CASE row' = Upserted(h)
      <4>1. handler[h].write \in Write /\ handler[h].write.op = "INSERT"
        BY <1>7, <2>1 DEF Insert, Active
      <4>2. p # handler[h].write.photo
        BY <2>4, <3>3, <4>1 DEF Upserted, Write, TypeOK
      <4> QED BY <2>4, <3>3, <4>2 DEF Upserted, TypeOK
    <3> QED BY <3>1, <3>2, <3>3
  <2>5. stranded' \subseteq Photo
    <3>1. Unserved(h) \subseteq Photo
      BY <2>1 DEF Unserved, Active, Write
    <3> QED BY <1>7, <3>1 DEF Insert, Collided, TypeOK
  <2> QED BY <1>7, <2>2, <2>3, <2>4, <2>5 DEF Insert, TypeOK
<1>8. ASSUME NEW h \in Handler, Change(h)
      PROVE  TypeOK'
  <2>1. handler[h] \in Active
    BY <1>8 DEF Change, Busy, TypeOK
  <2>2. handler' \in [Handler -> {Rest} \cup Active]
    BY <1>8, <2>1 DEF Change, TypeOK, Active, At, Goto
  <2>3. handler[h].write.photo \in Photo /\ handler[h].write.op # "INSERT"
        /\ [job |-> handler[h].write.job, star |-> FALSE] \in Row
    BY <1>8, <2>1 DEF Change, Active, Write, Row
  <2>4. row' \in [Photo -> Row]
        /\ \A p \in Photo : row'[p].job = NoJob => row'[p] = Absent
    BY <1>8, <2>3 DEF Change, TypeOK, Absent
  <2> QED BY <1>8, <2>2, <2>4 DEF Change, TypeOK
<1>9. ASSUME NEW h \in Handler, Answer(h)
      PROVE  TypeOK'
  <2>1. handler' \in [Handler -> {Rest} \cup Active]
    BY <1>9 DEF Answer, TypeOK, Goto
  <2>2. queue' \in [Device -> SUBSET Write]
    BY <1>9 DEF Answer, TypeOK
  <2> QED BY <1>9, <2>1, <2>2 DEF Answer, TypeOK
<1>10. ASSUME NEW h \in Handler, Dies(h)
       PROVE  TypeOK'
  <2>1. handler' \in [Handler -> {Rest} \cup Active]
    BY <1>10 DEF Dies, TypeOK, Goto
  <2> QED BY <1>10, <2>1 DEF Dies, TypeOK
<1>11. CASE UNCHANGED vars
  BY <1>11 DEF vars, TypeOK
<1>12. QED
  BY <1>1, <1>2, <1>3, <1>4, <1>5, <1>6, <1>7, <1>8, <1>9, <1>10, <1>11 DEF Next

\* Rows, local copies, queues and handlers keep their types, and a row that is
\* not attached to a job is no row at all.
THEOREM TypeCorrect == Spec => []TypeOK
<1>1. QED
  BY TypesAtInit, TypesByNext, PTL DEF Spec

-----------------------------------------------------------------------------
(* The inductive invariant.                                                *)

\* w waits on a device or is in the hands of a handler.
Carries(w) == \/ \E d \in Device : w \in queue[d]
              \/ \E h \in Handler : Busy(h) /\ handler[h].write = w

\* Nothing is written about a photo before it is uploaded.
Known ==
  /\ \A w \in Write : Carries(w) => w.photo \in uploaded
  /\ \A p \in Photo : row[p].job # NoJob => p \in uploaded
  /\ \A d \in Device, p \in Photo : local[d][p].job # NoJob => p \in uploaded

\* The creation of a photo names one job, and a starred photo is still there:
\* a repeated creation cannot take a star from one job to another.
OneHome ==
  /\ \A v, w \in Write :
       Carries(v) /\ Carries(w) /\ v.op = "INSERT" /\ w.op = "INSERT"
         /\ v.photo = w.photo => v.job = w.job
  /\ \A w \in Write :
       Carries(w) /\ w.op = "INSERT" /\ row[w.photo].star
         => row[w.photo].job = w.job

OneStar ==
  \A p, q \in Photo :
    row[p].star /\ row[q].star /\ row[p].job = row[q].job => p = q

StarInv == TypeOK /\ Known /\ OneHome /\ OneStar

\* The other actions of a device bring one write.
LEMMA OneWriteMore ==
  ASSUME TypeOK, NEW d \in Device, NEW op, NEW p, NEW r, Mirror(d, op, p, r),
         UNCHANGED handler, NEW w \in Write, Carries(w)'
  PROVE  Carries(w) \/ (w.photo = p /\ w.op = op /\ w.job = r.job)
<1>1. CASE \E e \in Device : w \in queue'[e]
  <2>1. PICK e \in Device : w \in queue'[e]
    BY <1>1
  <2>2. CASE e = d
    BY <2>1, <2>2 DEF Mirror, Carries, TypeOK
  <2>3. CASE e # d
    BY <2>1, <2>3 DEF Mirror, Carries, TypeOK
  <2> QED BY <2>2, <2>3
<1>2. CASE \E h \in Handler : Busy(h)' /\ handler'[h].write = w
  BY <1>2 DEF Carries, Busy
<1> QED BY <1>1, <1>2 DEF Carries

\* A handler that is placed somewhere else carries the write it had.
LEMMA SameWrites ==
  ASSUME TypeOK, NEW h \in Handler, Busy(h), NEW s,
         s = Rest \/ s.write = handler[h].write,
         Goto(h, s), NEW w, Carries(w)', \A d \in Device : queue'[d] \subseteq queue[d]
  PROVE  Carries(w)
<1>1. CASE \E d \in Device : w \in queue'[d]
  BY <1>1 DEF Carries
<1>2. CASE \E g \in Handler : Busy(g)' /\ handler'[g].write = w
  <2>1. PICK g \in Handler : Busy(g)' /\ handler'[g].write = w
    BY <1>2
  <2>2. CASE g = h
    BY <2>1, <2>2 DEF Goto, Carries, Busy, TypeOK
  <2>3. CASE g # h
    BY <2>1, <2>3 DEF Goto, Carries, Busy, TypeOK
  <2> QED BY <2>2, <2>3
<1> QED BY <1>1, <1>2 DEF Carries

\* The steps of the handlers, and the pull, bring no write.
Served == \/ \E d \in Device : Pull(d) \/ \E h \in Handler : Post(d, h)
          \/ \E h \in Handler : Check(h) \/ Insert(h) \/ Change(h) \/ Answer(h) \/ Dies(h)
          \/ UNCHANGED vars

LEMMA NoWriteMore ==
  ASSUME TypeOK, Served, NEW w \in Write, Carries(w)'
  PROVE  Carries(w)
<1> DEFINE Fewer == \A d \in Device : queue'[d] \subseteq queue[d]
<1>1. ASSUME NEW d \in Device, Pull(d) PROVE Carries(w)
  BY <1>1 DEF Pull, Carries, Busy
<1>2. ASSUME NEW d \in Device, NEW h \in Handler, Post(d, h) PROVE Carries(w)
  <2>1. PICK v \in queue[d] :
          handler' = [handler EXCEPT ![h] =
            [pc |-> IF v.op = "INSERT" /\ v.star THEN "check" ELSE "write",
             by |-> d, write |-> v, star |-> v.star]]
    BY <1>2 DEF Post, Goto
  <2>2. queue' = queue
    BY <1>2 DEF Post
  <2>3. CASE \E g \in Handler : Busy(g)' /\ handler'[g].write = w
    <3>1. PICK g \in Handler : Busy(g)' /\ handler'[g].write = w
      BY <2>3
    <3>2. CASE g = h
      BY <3>1, <3>2, <2>1 DEF TypeOK, Carries
    <3>3. CASE g # h
      BY <3>1, <3>3, <2>1 DEF TypeOK, Carries, Busy
    <3> QED BY <3>2, <3>3
  <2> QED BY <2>2, <2>3 DEF Carries
<1>3. ASSUME NEW h \in Handler, Check(h) PROVE Carries(w)
  <2> DEFINE b == Holders(handler[h].write.photo, handler[h].write.job) = {}
  <2> DEFINE s == [At(h, "write") EXCEPT !.star = b]
  <2>1. handler[h] \in Active /\ Busy(h) /\ Fewer /\ Goto(h, s)
    BY <1>3 DEF Check, Busy, TypeOK
  <2>2. s.write = handler[h].write
    BY <2>1 DEF At, Active
  <2> HIDE DEF s
  <2> QED BY <2>1, <2>2, SameWrites
<1>4. ASSUME NEW h \in Handler, Insert(h) PROVE Carries(w)
  <2>1. handler[h] \in Active /\ Busy(h) /\ Fewer
    BY <1>4 DEF Insert, Busy, TypeOK
  <2>2. /\ At(h, "done").write = handler[h].write
        /\ [At(h, "again") EXCEPT !.star = FALSE].write = handler[h].write
    BY <2>1 DEF At, Active
  <2>3. PICK s : s.write = handler[h].write /\ Goto(h, s)
    BY <1>4, <2>2 DEF Insert, Collided
  <2> QED BY <2>1, <2>3, SameWrites
<1>5. ASSUME NEW h \in Handler, Change(h) PROVE Carries(w)
  <2>1. handler[h] \in Active /\ Busy(h) /\ Fewer /\ Goto(h, At(h, "done"))
    BY <1>5 DEF Change, Busy, TypeOK
  <2>2. At(h, "done").write = handler[h].write
    BY <2>1 DEF At, Active
  <2> QED BY <2>1, <2>2, SameWrites
<1>6. ASSUME NEW h \in Handler, Answer(h) PROVE Carries(w)
  <2>1. Busy(h) /\ Goto(h, Rest)
    BY <1>6 DEF Answer
  <2>2. Fewer
    BY <1>6 DEF Answer, TypeOK
  <2> QED BY <2>1, <2>2, SameWrites
<1>7. ASSUME NEW h \in Handler, Dies(h) PROVE Carries(w)
  <2>1. Busy(h) /\ Goto(h, Rest) /\ Fewer
    BY <1>7 DEF Dies
  <2> QED BY <2>1, SameWrites
<1>8. CASE UNCHANGED vars
  BY <1>8 DEF vars, Carries, Busy
<1> QED
  BY <1>1, <1>2, <1>3, <1>4, <1>5, <1>6, <1>7, <1>8 DEF Served

-----------------------------------------------------------------------------
(* What a step does to the rows.                                           *)

\* The upsert of a creation that the index let through, starred or not.
Created(w, b) ==
  /\ w.op = "INSERT"
  /\ b => Starred(row, w.job) \ {w.photo} = {}
  /\ row' = [row EXCEPT ![w.photo] = [job |-> w.job, star |-> b]]

\* A move or a deletion of a row that is there.
Unstarred(w) ==
  /\ w.op # "INSERT"
  /\ row' = [row EXCEPT ![w.photo] = [job |-> w.job, star |-> FALSE]]

LEMMA RowChanges ==
  ASSUME TypeOK, [Next]_vars
  PROVE  \/ row' = row
         \/ Served /\ \E w \in Write : Carries(w) /\ Unstarred(w)
         \/ Served /\ \E w \in Write, b \in BOOLEAN : Carries(w) /\ Created(w, b)
<1>1. CASE \E h \in Handler : Insert(h)
  <2>1. PICK h \in Handler : Insert(h)
    BY <1>1
  <2>2. handler[h] \in Active /\ Busy(h)
    BY <2>1 DEF Insert, Busy, TypeOK
  <2>3. handler[h].write \in Write /\ handler[h].star \in BOOLEAN
        /\ Carries(handler[h].write)
    BY <2>2 DEF Active, Carries
  <2>4. row' = row \/ Created(handler[h].write, handler[h].star)
    BY <2>1 DEF Insert, Upserted, Collides, Created
  <2> QED BY <1>1, <2>3, <2>4 DEF Served
<1>2. CASE \E h \in Handler : Change(h)
  <2>1. PICK h \in Handler : Change(h)
    BY <1>2
  <2>2. handler[h] \in Active /\ Busy(h)
    BY <2>1 DEF Change, Busy, TypeOK
  <2>3. handler[h].write \in Write /\ Carries(handler[h].write)
    BY <2>2 DEF Active, Carries
  <2>4. row' = row \/ Unstarred(handler[h].write)
    BY <2>1 DEF Change, Unstarred
  <2> QED BY <1>2, <2>3, <2>4 DEF Served
<1>3. CASE /\ ~\E h \in Handler : Insert(h) \/ Change(h)
           /\ [Next]_vars
  BY <1>3 DEF Next, vars, Delete, Upload, Move, Pull, Post, Check, Answer, Dies
<1> QED BY <1>1, <1>2, <1>3

\* A step is one of a device's user or one that brings no write.
LEMMA Steps ==
  ASSUME [Next]_vars
  PROVE  \/ Served
         \/ \E d \in Device, p \in Photo, j \in Job : Upload(d, p, j)
         \/ \E d \in Device, p \in Photo, j \in Job : Move(d, p, j)
         \/ \E d \in Device, p \in Photo : Delete(d, p)
  BY DEF Next, Served

-----------------------------------------------------------------------------
LEMMA KnownByNext ==
  ASSUME TypeOK, Known, [Next]_vars
  PROVE  Known'
<1>1. ASSUME NEW d \in Device, NEW p \in Photo, NEW j \in Job, Upload(d, p, j)
      PROVE  Known'
  <2>1. /\ Mirror(d, "INSERT", p, [job |-> j, star |-> Claims(d, j)])
        /\ uploaded' = uploaded \cup {p} /\ row' = row /\ handler' = handler
    BY <1>1 DEF Upload
  <2>2. \A w \in Write : Carries(w)' => w.photo \in uploaded'
    BY <2>1, OneWriteMore DEF Known
  <2>3. \A e \in Device, q \in Photo : local'[e][q].job # NoJob => q \in uploaded'
    BY <2>1 DEF Mirror, Known, TypeOK
  <2> QED BY <2>1, <2>2, <2>3 DEF Known
<1>2. ASSUME NEW d \in Device, NEW p \in Photo, NEW op, NEW r, Mirror(d, op, p, r),
             local[d][p].job # NoJob, UNCHANGED <<row, uploaded, handler>>
      PROVE  Known'
  <2>1. p \in uploaded
    BY <1>2 DEF Known
  <2>2. \A w \in Write : Carries(w)' => w.photo \in uploaded'
    BY <1>2, <2>1, OneWriteMore DEF Known
  <2>3. \A e \in Device, q \in Photo : local'[e][q].job # NoJob => q \in uploaded'
    BY <1>2, <2>1 DEF Mirror, Known, TypeOK
  <2> QED BY <1>2, <2>2, <2>3 DEF Known
<1>3. CASE Served
  <2>1. uploaded' = uploaded
    BY <1>3 DEF Served, Pull, Post, Check, Insert, Change, Answer, Dies, vars
  <2>2. \A w \in Write : Carries(w)' => w.photo \in uploaded'
    BY <1>3, <2>1, NoWriteMore DEF Known
  <2>3. \A p \in Photo : row'[p].job # NoJob => p \in uploaded'
    BY <2>1, RowChanges DEF Known, Created, Unstarred, TypeOK
  <2>4. \A d \in Device, p \in Photo : local'[d][p].job # NoJob => p \in uploaded'
    <3>1. CASE local' = local
      BY <2>1, <3>1 DEF Known
    <3>2. CASE \E d \in Device : Pull(d)
      BY <2>1, <3>2 DEF Pull, Known, TypeOK
    <3> QED
      BY <1>3, <3>1, <3>2
         DEF Served, Post, Check, Insert, Change, Answer, Dies, vars
  <2> QED BY <2>2, <2>3, <2>4 DEF Known
<1>4. ASSUME NEW d \in Device, NEW p \in Photo, NEW j \in Job, Move(d, p, j)
      PROVE  Known'
  BY <1>2, <1>4 DEF Move
<1>5. ASSUME NEW d \in Device, NEW p \in Photo, Delete(d, p)
      PROVE  Known'
  BY <1>2, <1>5 DEF Delete
<1> QED BY <1>1, <1>3, <1>4, <1>5, Steps

LEMMA OneHomeByNext ==
  ASSUME TypeOK, Known, OneHome, [Next]_vars
  PROVE  OneHome'
<1>1. ASSUME NEW d \in Device, NEW p \in Photo, NEW j \in Job, Upload(d, p, j)
      PROVE  OneHome'
  <2>1. /\ Mirror(d, "INSERT", p, [job |-> j, star |-> Claims(d, j)])
        /\ p \notin uploaded /\ row' = row /\ handler' = handler
    BY <1>1 DEF Upload
  <2>2. \A w \in Write : Carries(w)' =>
          \/ Carries(w) /\ w.photo # p
          \/ w.photo = p /\ w.job = j
    BY <2>1, OneWriteMore DEF Known
  <2>3. ~row[p].star
    BY <2>1 DEF Known, TypeOK, Absent
  <2> QED BY <2>1, <2>2, <2>3 DEF OneHome
<1>2. ASSUME NEW d \in Device, NEW p \in Photo, NEW op, NEW r, Mirror(d, op, p, r),
             op # "INSERT", UNCHANGED <<row, handler>>
      PROVE  OneHome'
  <2>1. \A w \in Write : Carries(w)' /\ w.op = "INSERT" => Carries(w)
    BY <1>2, OneWriteMore
  <2> QED BY <1>2, <2>1 DEF OneHome
<1>3. CASE Served
  <2>1. \A w \in Write : Carries(w)' => Carries(w)
    BY <1>3, NoWriteMore
  <2>2. ASSUME NEW w \in Write, Carries(w), w.op = "INSERT", row'[w.photo].star
        PROVE  row'[w.photo].job = w.job
    <3>1. w.photo \in Photo
      BY DEF Write
    <3>2. CASE row' = row
      BY <2>2, <3>2 DEF OneHome
    <3>3. CASE \E v \in Write : Unstarred(v)
      BY <2>2, <3>1, <3>3 DEF Unstarred, OneHome, TypeOK
    <3>4. CASE \E v \in Write, b \in BOOLEAN : Carries(v) /\ Created(v, b)
      BY <2>2, <3>1, <3>4 DEF Created, OneHome, TypeOK
    <3> QED BY <3>2, <3>3, <3>4, RowChanges
  <2> QED BY <2>1, <2>2 DEF OneHome
<1>4. ASSUME NEW d \in Device, NEW p \in Photo, NEW j \in Job, Move(d, p, j)
      PROVE  OneHome'
  BY <1>2, <1>4 DEF Move
<1>5. ASSUME NEW d \in Device, NEW p \in Photo, Delete(d, p)
      PROVE  OneHome'
  BY <1>2, <1>5 DEF Delete
<1> QED BY <1>1, <1>3, <1>4, <1>5, Steps

LEMMA OneStarByNext ==
  ASSUME TypeOK, OneStar, [Next]_vars
  PROVE  OneStar'
<1>1. CASE row' = row
  BY <1>1 DEF OneStar
<1>2. CASE \E w \in Write : Unstarred(w)
  BY <1>2 DEF Unstarred, OneStar, TypeOK, Write
<1>3. CASE \E w \in Write, b \in BOOLEAN : Created(w, b)
  BY <1>3 DEF Created, OneStar, Starred, On, TypeOK, Write
<1> QED BY <1>1, <1>2, <1>3, RowChanges

-----------------------------------------------------------------------------
(* The refinement.                                                         *)

\* A step of the rows is one claim, one vacancy, or nothing.
LEMMA ClaimStep ==
  ASSUME StarInv, [Next]_vars
  PROVE  [Stars!ClaimNext]_([j \in Job |-> Starred(row, j)])
<1> DEFINE st == [j \in Job |-> Starred(row, j)]
<1>0. TypeOK /\ OneHome /\ OneStar
  BY DEF StarInv
<1>1. ASSUME NEW w \in Write, NEW j \in Job, w.photo \in Starred(row, j),
             row' = [row EXCEPT ![w.photo] = [job |-> w.job, star |-> FALSE]]
      PROVE  Stars!Vacate(j)
  <2>1. Starred(row, j) = {w.photo} /\ w.photo \in Photo /\ row[w.photo].job = j
    BY <1>0, <1>1 DEF OneStar, Starred, On
  <2>2. ASSUME NEW k \in Job
        PROVE  Starred(row, k)' = IF k = j THEN {} ELSE Starred(row, k)
    BY <1>0, <1>1, <2>1, <2>2 DEF Starred, On, TypeOK
  <2>3. st' = [st EXCEPT ![j] = {}]
    BY <2>2
  <2> QED BY <2>1, <2>3 DEF Stars!Vacate
<1>2. ASSUME NEW w \in Write, ~row[w.photo].star,
             row' = [row EXCEPT ![w.photo] = [job |-> w.job, star |-> FALSE]]
      PROVE  st' = st
  <2>1. ASSUME NEW k \in Job PROVE Starred(row, k)' = Starred(row, k)
    BY <1>0, <1>2 DEF Starred, On, TypeOK, Write
  <2> QED BY <2>1
<1>3. ASSUME NEW w \in Write,
             row' = [row EXCEPT ![w.photo] = [job |-> w.job, star |-> FALSE]]
      PROVE  [Stars!ClaimNext]_st
  <2>1. CASE ~row[w.photo].star
    BY <1>2, <1>3, <2>1
  <2>2. CASE row[w.photo].star
    <3>1. PICK j \in Job : w.photo \in Starred(row, j)
      BY <1>0, <2>2 DEF TypeOK, Starred, On, Row, Absent, Write
    <3> QED BY <1>1, <1>3, <3>1 DEF Stars!ClaimNext
  <2> QED BY <2>1, <2>2
<1>4. ASSUME NEW w \in Write, Carries(w), Created(w, TRUE)
      PROVE  [Stars!ClaimNext]_st
  <2>1. w.photo \in Photo /\ w.job \in Job /\ w.op = "INSERT"
    BY <1>4 DEF Created, Write
  <2>2. ASSUME NEW k \in Job
        PROVE  Starred(row, k)' = IF k = w.job THEN {w.photo} ELSE Starred(row, k)
    BY <1>0, <1>4, <2>1, <2>2 DEF Created, OneHome, Starred, On, TypeOK
  <2>3. st' = [st EXCEPT ![w.job] = {w.photo}]
    BY <2>2
  <2>4. CASE Starred(row, w.job) = {}
    BY <2>1, <2>3, <2>4 DEF Stars!ClaimNext, Stars!Elect
  <2>5. CASE Starred(row, w.job) # {}
    BY <1>4, <2>1, <2>2, <2>5 DEF Created
  <2> QED BY <2>4, <2>5
<1>5. CASE row' = row
  BY <1>5 DEF Starred, On
<1>6. CASE \E w \in Write : Unstarred(w)
  BY <1>3, <1>6 DEF Unstarred
<1>7. CASE \E w \in Write, b \in BOOLEAN : Carries(w) /\ Created(w, b)
  BY <1>3, <1>4, <1>7 DEF Created
<1> QED BY <1>0, <1>5, <1>6, <1>7, RowChanges

\* However the claims of any number of devices, their retries and late handlers
\* interleave, the first claim of a job's star wins: the writer with its check,
\* its index and its fallback implements the abstract election.
THEOREM FirstClaimHolds == Spec => FirstClaimWins
<1>1. Init => StarInv
  <2>1. ASSUME Init PROVE Known /\ OneHome /\ OneStar
    BY <2>1 DEF Init, Known, OneHome, OneStar, Carries, Busy, Absent
  <2> QED BY <2>1, TypesAtInit DEF StarInv
<1>2. StarInv /\ [Next]_vars => StarInv'
  BY TypesByNext, KnownByNext, OneHomeByNext, OneStarByNext DEF StarInv
<1>3. Init => Stars!ClaimInit
  BY DEF Init, Stars!ClaimInit, Starred, On, Absent
<1>4. StarInv /\ [Next]_vars => [Stars!ClaimNext]_([j \in Job |-> Starred(row, j)])
  BY ClaimStep
<1> QED
  BY <1>1, <1>2, <1>3, <1>4, PTL DEF Spec, FirstClaimWins, Stars!ClaimSpec

-----------------------------------------------------------------------------
(* The fallback.                                                           *)

\* A statement that is sent again carries no claim.
GivenUp == \A h \in Handler : handler[h].pc = "again" => ~handler[h].star

ServedInv == TypeOK /\ GivenUp /\ NoPhotoStranded

LEMMA GivenUpByNext ==
  ASSUME TypeOK, GivenUp, [Next]_vars
  PROVE  GivenUp'
<1>1. ASSUME NEW h \in Handler, NEW s, Goto(h, s), s.pc # "again" \/ ~s.star
      PROVE  GivenUp'
  BY <1>1 DEF Goto, GivenUp, TypeOK
<1>2. ASSUME NEW d \in Device, NEW h \in Handler, Post(d, h)
      PROVE  GivenUp'
  BY <1>1, <1>2 DEF Post
<1>3. ASSUME NEW h \in Handler, Busy(h), NEW pc \in {"done", "write"},
             Goto(h, At(h, pc))
      PROVE  GivenUp'
  <2>1. At(h, pc).pc # "again"
    BY <1>3 DEF At, Busy, TypeOK, Active
  <2> QED BY <1>1, <1>3, <2>1
<1>4. ASSUME NEW h \in Handler, Check(h)
      PROVE  GivenUp'
  <2> DEFINE s == [At(h, "write") EXCEPT
                     !.star = Holders(handler[h].write.photo, handler[h].write.job) = {}]
  <2>1. handler[h] \in Active /\ Goto(h, s)
    BY <1>4 DEF Check, Busy, TypeOK
  <2>2. s.pc # "again"
    BY <2>1 DEF At, Active
  <2> HIDE DEF s
  <2> QED BY <1>1, <2>1, <2>2
<1>5. ASSUME NEW h \in Handler, Insert(h)
      PROVE  GivenUp'
  <2>1. handler[h] \in Active /\ Busy(h)
    BY <1>5 DEF Insert, Busy, TypeOK
  <2> DEFINE s == [At(h, "again") EXCEPT !.star = FALSE]
  <2>2. ~s.star
    BY <2>1 DEF At, Active
  <2>3. Goto(h, s) \/ Goto(h, At(h, "done"))
    BY <1>5 DEF Insert, Collided
  <2> HIDE DEF s
  <2> QED BY <1>1, <1>3, <2>1, <2>2, <2>3
<1>6. ASSUME NEW h \in Handler, Change(h)
      PROVE  GivenUp'
  BY <1>3, <1>6 DEF Change
<1>7. ASSUME NEW h \in Handler, Answer(h) \/ Dies(h)
      PROVE  GivenUp'
  BY <1>1, <1>7 DEF Answer, Dies, Rest
<1>8. CASE handler' = handler
  BY <1>8 DEF GivenUp
<1> QED
  BY <1>2, <1>4, <1>5, <1>6, <1>7, <1>8
     DEF Next, Upload, Move, Delete, Pull, vars

\* No photo is left unsaved because of the star, whatever starred rows other
\* handlers insert between a check, its statement and the repeated statement.
THEOREM NoneStranded == Spec => []NoPhotoStranded
<1>1. Init => ServedInv
  <2>1. ASSUME Init PROVE GivenUp /\ NoPhotoStranded
    BY <2>1 DEF Init, GivenUp, NoPhotoStranded, Rest
  <2> QED BY <2>1, TypesAtInit DEF ServedInv
<1>2. ASSUME ServedInv, [Next]_vars PROVE NoPhotoStranded'
  <2>1. CASE \E h \in Handler : Insert(h)
    <3>1. PICK h \in Handler : Insert(h)
      BY <2>1
    <3>2. Collides(h) => Unserved(h) = {}
      BY <1>2 DEF ServedInv, GivenUp, Collides, Unserved
    <3> QED BY <1>2, <3>1, <3>2 DEF Insert, Collided, ServedInv, NoPhotoStranded
  <2>2. CASE stranded' = stranded
    BY <1>2, <2>2 DEF ServedInv, NoPhotoStranded
  <2> QED
    BY <1>2, <2>1, <2>2
       DEF Next, Upload, Move, Delete, Pull, Post, Check, Change, Answer, Dies, vars
<1>3. ServedInv /\ [Next]_vars => ServedInv'
  BY <1>2, TypesByNext, GivenUpByNext DEF ServedInv
<1> QED
  BY <1>1, <1>3, PTL DEF Spec, ServedInv

-----------------------------------------------------------------------------
(* A settled job has a star.                                               *)

\* The server, a device or a write under way has photo p at job j.
KnownAt(p, j) ==
  \/ row[p].job = j
  \/ \E d \in Device : local[d][p].job = j
  \/ \E w \in Write : Carries(w) /\ w.photo = p /\ w.job = j

\* A photo is known at one job, or all the jobs it is known at were edited.
Homes ==
  \A p \in Photo : \A a, b \in Job :
    KnownAt(p, a) /\ KnownAt(p, b) => a = b \/ (a \in edited /\ b \in edited)

\* Whatever a move or a deletion under way can touch was edited.
Edits ==
  \A w \in Write : Carries(w) /\ w.op # "INSERT" =>
    \A a \in Job : KnownAt(w.photo, a) => a \in edited

\* A photo is created once, and its row is starred only if it claimed the star.
OneCreation ==
  /\ \A v, w \in Write :
       Carries(v) /\ Carries(w) /\ v.op = "INSERT" /\ w.op = "INSERT"
         /\ v.photo = w.photo => v = w
  /\ \A w \in Write :
       Carries(w) /\ w.op = "INSERT" /\ row[w.photo].star => w.star

\* A handler whose claim was taken back has seen somebody else's star, and one
\* that is done with a claim leaves a star behind.
ClaimsServed ==
  \A h \in Handler : Busy(h) /\ handler[h].write.op = "INSERT" =>
    LET w == handler[h].write IN
    /\ handler[h].star \/ handler[h].pc = "check" => w.star
    /\ w.star /\ w.job \notin edited /\ handler[h].pc \in {"write", "again"} =>
         handler[h].star \/ Starred(row, w.job) \ {w.photo} # {}
    /\ w.star /\ w.job \notin edited /\ handler[h].pc = "done" =>
         Starred(row, w.job) # {}

\* A job anybody knows a photo of has a star, or a claim waits on a device.
Elected ==
  \A j \in Job \ edited : (\E p \in Photo : KnownAt(p, j)) =>
    \/ Starred(row, j) # {}
    \/ \E d \in Device : \E w \in queue[d] :
         w.op = "INSERT" /\ w.star /\ w.job = j

SettledInv ==
  StarInv /\ Homes /\ Edits /\ OneCreation /\ ClaimsServed /\ Elected

LEMMA SettledAtInit == Init => SettledInv
<1> SUFFICES ASSUME Init PROVE SettledInv
  OBVIOUS
<1>1. TypeOK /\ \A w : ~Carries(w)
  BY TypesAtInit DEF Init, Carries, Busy
<1>2. Known /\ OneHome /\ OneStar
  BY <1>1 DEF Init, Known, OneHome, OneStar, Absent
<1>3. \A p \in Photo : \A j \in Job : ~KnownAt(p, j)
  BY <1>1, PhotosAssumption DEF PhotosAssumption, Init, KnownAt, Absent
<1>4. Homes /\ Edits /\ OneCreation /\ Elected
  BY <1>1, <1>3 DEF Homes, Edits, OneCreation, Elected
<1>5. ClaimsServed
  BY DEF Init, ClaimsServed, Busy
<1>6. QED
  BY <1>1, <1>2, <1>4, <1>5 DEF SettledInv, StarInv

\* A row changes at the hands of a handler that has its write.
LEMMA RowSteps ==
  ASSUME TypeOK, [Next]_vars
  PROVE  \/ row' = row
         \/ \E h \in Handler :
              /\ Busy(h) /\ handler[h] \in Active /\ Carries(handler[h].write)
              /\ \/ Unstarred(handler[h].write)
                 \/ /\ handler[h].pc \in {"write", "again"}
                    /\ handler[h].write.op = "INSERT"
                    /\ row' = Upserted(h)
<1>1. CASE \E h \in Handler : Insert(h) \/ Change(h)
  <2>1. PICK h \in Handler : Insert(h) \/ Change(h)
    BY <1>1
  <2>2. handler[h] \in Active /\ Busy(h) /\ Carries(handler[h].write)
    BY <2>1 DEF Insert, Change, Busy, TypeOK, Carries
  <2>3. \/ row' = row \/ Unstarred(handler[h].write)
        \/ /\ handler[h].pc \in {"write", "again"}
           /\ handler[h].write.op = "INSERT"
           /\ row' = Upserted(h)
    BY <2>1 DEF Insert, Change, Unstarred
  <2>4. QED
    BY <2>2, <2>3
<1>2. CASE ~ \E h \in Handler : Insert(h) \/ Change(h)
  BY <1>2 DEF Next, vars, Delete, Upload, Move, Pull, Post, Check, Answer, Dies
<1>3. QED
  BY <1>1, <1>2

\* Only an upload or a move makes a photo known where it was not, and only the
\* user's edits add to the edited jobs.
LEMMA KnownSteps ==
  ASSUME TypeOK, [Next]_vars, NEW p \in Photo, NEW a \in Job, KnownAt(p, a)'
  PROVE  \/ KnownAt(p, a)
         \/ \E d \in Device : Upload(d, p, a) \/ Move(d, p, a)
<1> USE DEF KnownAt
<1>0. a # NoJob
  BY PhotosAssumption DEF PhotosAssumption
<1>1. ASSUME NEW d \in Device, NEW q \in Photo, NEW op, NEW r, Mirror(d, op, q, r),
             UNCHANGED <<row, handler>>
      PROVE  KnownAt(p, a) \/ (q = p /\ r.job = a)
  <2>1. \A e \in Device : local'[e][p] = local[e][p] \/ (q = p /\ local'[e][p] = r)
    BY <1>1 DEF Mirror, TypeOK
  <2>2. ASSUME NEW w \in Write, Carries(w)', w.photo = p, w.job = a
        PROVE  Carries(w) \/ (q = p /\ r.job = a)
    BY <1>1, <2>2, OneWriteMore
  <2>3. QED
    BY <1>1, <2>1, <2>2
<1>2. CASE Served
  <2>1. \A w \in Write : Carries(w)' => Carries(w)
    BY <1>2, NoWriteMore
  <2>2. CASE row'[p].job = a
    <3>1. CASE row' = row
      BY <2>2, <3>1
    <3>2. ASSUME NEW w \in Write, Carries(w),
                 Unstarred(w) \/ \E b \in BOOLEAN : Created(w, b)
          PROVE  KnownAt(p, a)
      <4>1. row'[p] = row[p] \/ (w.photo = p /\ row'[p].job = w.job)
        <5>1. CASE Unstarred(w)
          BY <5>1 DEF Unstarred, TypeOK
        <5>2. ASSUME NEW b \in BOOLEAN, Created(w, b)
              PROVE  row'[p] = row[p] \/ (w.photo = p /\ row'[p].job = w.job)
          BY <5>2 DEF Created, TypeOK
        <5>3. QED
          BY <3>2, <5>1, <5>2
      <4>2. QED
        BY <2>2, <3>2, <4>1
    <3>3. QED
      BY <3>1, <3>2, RowChanges
  <2>3. CASE \E d \in Device : local'[d][p].job = a
    <3>1. PICK e \in Device : local'[e][p].job = a
      BY <2>3
    <3>2. local'[e][p] = local[e][p] \/ local'[e][p] = row[p]
      <4>1. CASE \E d \in Device : Pull(d)
        BY <4>1 DEF Pull, TypeOK
      <4>2. CASE ~ \E d \in Device : Pull(d)
        BY <1>2, <4>2 DEF Served, Post, Check, Insert, Change, Answer, Dies, vars
      <4>3. QED
        BY <4>1, <4>2
    <3>3. QED
      BY <3>1, <3>2
  <2>4. QED
    BY <2>1, <2>2, <2>3
<1>3. ASSUME NEW d \in Device, NEW q \in Photo, NEW j \in Job,
             Upload(d, q, j) \/ Move(d, q, j)
      PROVE  KnownAt(p, a) \/ Upload(d, p, a) \/ Move(d, p, a)
  <2>1. PICK op, r : Mirror(d, op, q, r) /\ r.job = j /\ UNCHANGED <<row, handler>>
    BY <1>3 DEF Upload, Move
  <2>2. QED
    BY <1>1, <1>3, <2>1
<1>4. ASSUME NEW d \in Device, NEW q \in Photo, Delete(d, q)
      PROVE  KnownAt(p, a)
  BY <1>0, <1>1, <1>4 DEF Delete, Absent
<1>5. QED
  BY <1>2, <1>3, <1>4, Steps

LEMMA EditedSteps ==
  ASSUME [Next]_vars
  PROVE  /\ edited \subseteq edited'
         /\ Served => edited' = edited
         /\ \A d \in Device, p \in Photo, j \in Job : Upload(d, p, j) => edited' = edited
<1>1. Served => edited' = edited
  BY DEF Served, Pull, Post, Check, Insert, Change, Answer, Dies, vars
<1>2. \A d \in Device, p \in Photo, j \in Job : Upload(d, p, j) => edited' = edited
  BY DEF Upload
<1>3. QED
  BY <1>1, <1>2, Steps DEF Move, Delete

\* A photo that is uploaded was known nowhere.
LEMMA FreshPhoto ==
  ASSUME TypeOK, Known, NEW d \in Device, NEW p \in Photo, NEW j \in Job,
         Upload(d, p, j), NEW a \in Job
  PROVE  ~KnownAt(p, a) /\ \A w \in Write : Carries(w) => w.photo # p
<1>1. p \notin uploaded /\ a # NoJob
  BY PhotosAssumption DEF PhotosAssumption, Upload
<1>2. QED
  BY <1>1 DEF Known, KnownAt

\* A photo that is moved or deleted is edited wherever it is known.
LEMMA EditedPhoto ==
  ASSUME TypeOK, Homes, NEW d \in Device, NEW p \in Photo, NEW a \in Job,
         KnownAt(p, a), Delete(d, p) \/ \E j \in Job : Move(d, p, j)
  PROVE  a \in edited'
<1>1. local[d][p].job \in Job /\ local[d][p].job \in edited' /\ edited \subseteq edited'
  <2>1. local[d][p].job \in Job \cup {NoJob}
    BY DEF TypeOK, Row
  <2>2. CASE Delete(d, p)
    BY <2>1, <2>2 DEF Delete
  <2>3. ASSUME NEW j \in Job, Move(d, p, j)
        PROVE  local[d][p].job \in Job /\ local[d][p].job \in edited' /\ edited \subseteq edited'
    BY <2>1, <2>3 DEF Move
  <2>4. QED
    BY <2>2, <2>3
<1>2. KnownAt(p, local[d][p].job)
  BY <1>1 DEF KnownAt
<1>3. QED
  BY <1>1, <1>2 DEF Homes

LEMMA HomesByNext ==
  ASSUME TypeOK, Known, Homes, Edits, [Next]_vars
  PROVE  Homes' /\ Edits'
<1>1. edited \subseteq edited'
  BY EditedSteps
<1>2. ASSUME NEW p \in Photo, NEW a \in Job, NEW b \in Job,
             KnownAt(p, a)', KnownAt(p, b)', a # b
      PROVE  a \in edited' /\ b \in edited'
  <2>1. ASSUME NEW d \in Device, NEW j \in Job, Upload(d, p, j) PROVE FALSE
    <3>1. ~KnownAt(p, a) /\ ~KnownAt(p, b)
      BY <2>1, FreshPhoto
    <3>2. /\ \E e \in Device : Upload(e, p, a) \/ Move(e, p, a)
          /\ \E e \in Device : Upload(e, p, b) \/ Move(e, p, b)
      BY <1>2, <3>1, KnownSteps
    <3>3. \A e \in Device : local[e][p].job = NoJob
      BY <2>1 DEF Known, Upload
    <3>4. ASSUME NEW c \in Job, NEW e \in Device, Upload(e, p, c) \/ Move(e, p, c)
          PROVE  local'[e][p].job = c
      BY <3>3, <3>4 DEF Upload, Move, Mirror, TypeOK
    <3>5. local'[d][p].job = j /\ \A e \in Device : e # d => local'[e][p] = local[e][p]
      BY <2>1 DEF Upload, Mirror, TypeOK
    <3>6. a # NoJob /\ b # NoJob
      BY PhotosAssumption DEF PhotosAssumption
    <3>7. a = j /\ b = j
      BY <3>2, <3>3, <3>4, <3>5, <3>6
    <3>8. QED
      BY <1>2, <3>7
  <2>2. ASSUME NEW c \in Job, KnownAt(p, c)',
               \E d \in Device, j \in Job : Move(d, p, j)
        PROVE  c \in edited'
    <3>1. KnownAt(p, c) \/ \E d \in Device : Move(d, p, c)
      BY <2>1, <2>2, KnownSteps
    <3>2. QED
      BY <2>2, <3>1, EditedPhoto DEF Move
  <2>3. CASE ~ \E d \in Device, j \in Job : Upload(d, p, j) \/ Move(d, p, j)
    <3>1. KnownAt(p, a) /\ KnownAt(p, b)
      BY <1>2, <2>3, KnownSteps
    <3>2. QED
      BY <1>1, <1>2, <3>1 DEF Homes
  <2>4. QED
    BY <1>2, <2>1, <2>2, <2>3
<1>3. ASSUME NEW w \in Write, Carries(w)', w.op # "INSERT",
             NEW a \in Job, KnownAt(w.photo, a)'
      PROVE  a \in edited'
  <2>0. w.photo \in Photo
    BY DEF Write
  <2>1. CASE ~Carries(w)
    <3>1. /\ \A d \in Device, p \in Photo, j \in Job : ~Upload(d, p, j)
          /\ \/ \E d \in Device : Delete(d, w.photo)
             \/ \E d \in Device, j \in Job : Move(d, w.photo, j)
      <4>1. ASSUME NEW d \in Device, NEW p \in Photo, NEW j \in Job, Upload(d, p, j)
            PROVE  FALSE
        BY <1>3, <2>1, <4>1, OneWriteMore DEF Upload
      <4>2. ASSUME NEW d \in Device, NEW p \in Photo, NEW j \in Job, Move(d, p, j)
            PROVE  w.photo = p
        BY <1>3, <2>1, <4>2, OneWriteMore DEF Move
      <4>3. ASSUME NEW d \in Device, NEW p \in Photo, Delete(d, p)
            PROVE  w.photo = p
        BY <1>3, <2>1, <4>3, OneWriteMore DEF Delete
      <4>4. ~Served
        BY <1>3, <2>1, NoWriteMore
      <4>5. QED
        BY <4>1, <4>2, <4>3, <4>4, Steps
    <3>2. KnownAt(w.photo, a) \/ \E d \in Device : Move(d, w.photo, a)
      BY <1>3, <2>0, <3>1, KnownSteps
    <3>3. QED
      BY <2>0, <3>1, <3>2, EditedPhoto DEF Move
  <2>2. CASE Carries(w)
    <3>1. CASE KnownAt(w.photo, a)
      BY <1>1, <1>3, <2>2, <3>1 DEF Edits
    <3>2. CASE \E d \in Device : Move(d, w.photo, a)
      BY <3>2 DEF Move
    <3>3. CASE \E d \in Device : Upload(d, w.photo, a)
      BY <2>0, <2>2, <3>3, FreshPhoto
    <3>4. QED
      BY <1>3, <2>0, <3>1, <3>2, <3>3, KnownSteps
  <2>3. QED
    BY <2>1, <2>2
<1>4. Homes'
  BY <1>2 DEF Homes
<1>5. Edits'
  BY <1>3 DEF Edits
<1>6. QED
  BY <1>4, <1>5

LEMMA OneCreationByNext ==
  ASSUME TypeOK, Known, OneCreation, ClaimsServed, [Next]_vars
  PROVE  OneCreation'
<1>1. ASSUME NEW d \in Device, NEW p \in Photo, NEW j \in Job, Upload(d, p, j)
      PROVE  OneCreation'
  <2> DEFINE new == [id |-> issued[d], op |-> "INSERT", photo |-> p, job |-> j,
                     star |-> Claims(d, j)]
  <2>1. \A w \in Write : Carries(w) => w.photo # p
    BY <1>1, FreshPhoto
  <2>2. ASSUME NEW w \in Write, Carries(w)'
        PROVE  Carries(w) \/ w = new
    <3>1. queue' = [queue EXCEPT ![d] = @ \cup {new}] /\ handler' = handler
      BY <1>1 DEF Upload, Mirror
    <3> HIDE DEF new
    <3>2. QED
      BY <2>2, <3>1 DEF Carries, Busy, TypeOK
  <2>3. new.photo = p /\ ~row[p].star /\ row' = row
    BY <1>1 DEF Upload, Known, TypeOK, Absent
  <2> HIDE DEF new
  <2>4. QED
    BY <2>1, <2>2, <2>3 DEF OneCreation
<1>2. ASSUME NEW d \in Device, NEW p \in Photo, NEW op, NEW r, Mirror(d, op, p, r),
             op # "INSERT", UNCHANGED <<row, handler>>
      PROVE  OneCreation'
  <2>1. \A w \in Write : Carries(w)' /\ w.op = "INSERT" => Carries(w)
    BY <1>2, OneWriteMore
  <2>2. QED
    BY <1>2, <2>1 DEF OneCreation
<1>3. CASE Served
  <2>1. \A w \in Write : Carries(w)' => Carries(w)
    BY <1>3, NoWriteMore
  <2>2. ASSUME NEW w \in Write, Carries(w), w.op = "INSERT", row'[w.photo].star
        PROVE  w.star
    <3>0. w.photo \in Photo
      BY DEF Write
    <3>1. CASE row[w.photo].star
      BY <2>2, <3>1 DEF OneCreation
    <3>2. CASE ~row[w.photo].star
      <4>1. PICK h \in Handler :
              /\ Busy(h) /\ handler[h] \in Active /\ Carries(handler[h].write)
              /\ \/ Unstarred(handler[h].write)
                 \/ /\ handler[h].pc \in {"write", "again"}
                    /\ handler[h].write.op = "INSERT"
                    /\ row' = Upserted(h)
        BY <2>2, <3>2, RowSteps
      <4>2. handler[h].write \in Write
        BY <4>1 DEF Active
      <4>3. /\ handler[h].write.photo = w.photo /\ handler[h].star
            /\ handler[h].write.op = "INSERT"
        <5>1. ~Unstarred(handler[h].write)
          BY <2>2, <3>0, <3>2, <4>2 DEF Unstarred, TypeOK
        <5>2. row' = Upserted(h) /\ handler[h].write.op = "INSERT"
          BY <4>1, <5>1
        <5>3. handler[h].write.photo = w.photo
          BY <2>2, <3>0, <3>2, <5>2 DEF Upserted, TypeOK
        <5>4. handler[h].star
          BY <2>2, <3>0, <5>2, <5>3 DEF Upserted, TypeOK
        <5>5. QED
          BY <5>2, <5>3, <5>4
      <4>4. handler[h].write = w
        BY <2>2, <4>1, <4>2, <4>3 DEF OneCreation
      <4>5. QED
        BY <4>1, <4>3, <4>4 DEF ClaimsServed
    <3>3. QED
      BY <3>1, <3>2
  <2>3. QED
    BY <2>1, <2>2 DEF OneCreation
<1>4. ASSUME NEW d \in Device, NEW p \in Photo, NEW j \in Job, Move(d, p, j)
      PROVE  OneCreation'
  BY <1>2, <1>4 DEF Move
<1>5. ASSUME NEW d \in Device, NEW p \in Photo, Delete(d, p)
      PROVE  OneCreation'
  BY <1>2, <1>5 DEF Delete
<1>6. QED
  BY <1>1, <1>3, <1>4, <1>5, Steps

\* The star of a job nobody edited stays where it is: a repeated creation
\* keeps it or, having seen somebody else's, was not its holder.
LEMMA StarsStay ==
  ASSUME StarInv, Edits, OneCreation, ClaimsServed, [Next]_vars,
         NEW j \in Job, j \notin edited
  PROVE  Starred(row, j) \subseteq Starred(row', j)
<1> SUFFICES ASSUME NEW p \in Starred(row, j) PROVE p \in Starred(row', j)
  OBVIOUS
<1>0. TypeOK /\ OneHome /\ OneStar
  BY DEF StarInv
<1>1. p \in Photo /\ row[p].job = j /\ row[p].star
  BY DEF Starred, On
<1>2. ASSUME NEW h \in Handler, Busy(h), handler[h] \in Active,
             Carries(handler[h].write), Unstarred(handler[h].write)
      PROVE  row'[p] = row[p]
  <2>1. handler[h].write \in Write /\ handler[h].write.op # "INSERT"
    BY <1>2 DEF Active, Unstarred
  <2>2. handler[h].write.photo # p
    BY <1>1, <1>2, <2>1 DEF Edits, KnownAt
  <2>3. QED
    BY <1>0, <1>1, <1>2, <2>2 DEF Unstarred, TypeOK
<1>3. ASSUME NEW h \in Handler, Busy(h), handler[h] \in Active,
             Carries(handler[h].write), handler[h].pc \in {"write", "again"},
             handler[h].write.op = "INSERT", row' = Upserted(h)
      PROVE  row'[p] = row[p] \/ (row'[p].job = j /\ row'[p].star)
  <2>1. handler[h].write \in Write
    BY <1>3 DEF Active
  <2>2. CASE handler[h].write.photo # p
    BY <1>0, <1>1, <1>3, <2>2 DEF Upserted, TypeOK
  <2>3. CASE handler[h].write.photo = p
    <3>1. handler[h].write.job = j /\ handler[h].write.star
      BY <1>0, <1>1, <1>3, <2>1, <2>3 DEF OneHome, OneCreation
    <3>2. handler[h].star
      <4>1. \A q \in Starred(row, j) : q = p
        BY <1>0, <1>1 DEF OneStar, Starred, On
      <4>2. QED
        BY <1>3, <2>3, <3>1, <4>1 DEF ClaimsServed
    <3>3. QED
      BY <1>0, <1>1, <1>3, <2>3, <3>1, <3>2 DEF Upserted, TypeOK
  <2>4. QED
    BY <2>2, <2>3
<1>4. row'[p] = row[p] \/ (row'[p].job = j /\ row'[p].star)
  BY <1>0, <1>2, <1>3, RowSteps
<1>5. QED
  BY <1>1, <1>4 DEF Starred, On

LEMMA ClaimsServedByNext ==
  ASSUME StarInv, Edits, OneCreation, ClaimsServed, [Next]_vars
  PROVE  ClaimsServed'
<1> DEFINE Served1(s, rows, late) ==
      s.write.op = "INSERT" =>
        /\ s.star \/ s.pc = "check" => s.write.star
        /\ s.write.star /\ s.write.job \notin late /\ s.pc \in {"write", "again"} =>
             s.star \/ Starred(rows, s.write.job) \ {s.write.photo} # {}
        /\ s.write.star /\ s.write.job \notin late /\ s.pc = "done" =>
             Starred(rows, s.write.job) # {}
<1>0. TypeOK /\ edited \subseteq edited'
  BY EditedSteps DEF StarInv
<1>1. \A h \in Handler : Busy(h) => handler[h] \in Active /\ Served1(handler[h], row, edited)
  BY <1>0 DEF ClaimsServed, TypeOK, Busy
<1>2. ASSUME NEW s \in Active, Served1(s, row, edited)
      PROVE  Served1(s, row', edited')
  <2>1. CASE s.write.op = "INSERT" /\ s.write.job \notin edited
    <3>1. s.write.job \in Job
      BY <2>1 DEF Active, Write
    <3>2. Starred(row, s.write.job) \subseteq Starred(row', s.write.job)
      BY <2>1, <3>1, StarsStay
    <3>3. QED
      BY <1>0, <1>2, <3>2
  <2>2. CASE ~(s.write.op = "INSERT" /\ s.write.job \notin edited)
    BY <1>0, <1>2, <2>2
  <2>3. QED
    BY <2>1, <2>2
<1>3. ASSUME handler' = handler PROVE ClaimsServed'
  BY <1>1, <1>2, <1>3 DEF ClaimsServed, Busy
<1>4. ASSUME NEW h \in Handler, NEW s, Goto(h, s), s # Rest => Served1(s, row', edited')
      PROVE  ClaimsServed'
  <2> SUFFICES ASSUME NEW g \in Handler, Busy(g)'
               PROVE  Served1(handler'[g], row', edited')
    BY DEF ClaimsServed
  <2>1. CASE g = h
    BY <1>0, <1>4, <2>1 DEF Goto, Busy, TypeOK
  <2>2. CASE g # h
    <3>1. handler'[g] = handler[g] /\ Busy(g)
      BY <1>0, <1>4, <2>2 DEF Goto, Busy, TypeOK
    <3>2. QED
      BY <1>1, <1>2, <3>1
  <2>3. QED
    BY <2>1, <2>2
<1>5. ASSUME NEW d \in Device, NEW h \in Handler, Post(d, h)
      PROVE  ClaimsServed'
  <2>1. PICK w \in queue[d] :
          Goto(h, [pc |-> IF w.op = "INSERT" /\ w.star THEN "check" ELSE "write",
                   by |-> d, write |-> w, star |-> w.star])
    BY <1>5 DEF Post
  <2>2. w.star \in BOOLEAN
    BY <1>0 DEF TypeOK, Write
  <2>3. QED
    BY <1>4, <2>1, <2>2
<1>6. ASSUME NEW h \in Handler, Check(h)
      PROVE  ClaimsServed'
  <2> DEFINE b == Holders(handler[h].write.photo, handler[h].write.job) = {}
             s == [At(h, "write") EXCEPT !.star = b]
  <2>1. /\ handler[h] \in Active /\ Busy(h) /\ handler[h].pc = "check" /\ row' = row
        /\ Goto(h, s)
    BY <1>0, <1>6 DEF Check, Busy, TypeOK
  <2>2. s.write = handler[h].write /\ s.star = b /\ s.pc = "write"
    BY <2>1 DEF At, Active
  <2> HIDE DEF s
  <2>3. ~b => Starred(row', s.write.job) \ {s.write.photo} # {}
    BY <2>1, <2>2 DEF Holders
  <2>4. s.write.op = "INSERT" => s.write.star
    BY <1>1, <2>1, <2>2
  <2> HIDE DEF b
  <2>5. Served1(s, row', edited')
    BY <2>2, <2>3, <2>4
  <2>6. QED
    BY <1>4, <2>1, <2>5
<1>7. ASSUME NEW h \in Handler, Insert(h)
      PROVE  ClaimsServed'
  <2> DEFINE w == handler[h].write
  <2>1. /\ handler[h] \in Active /\ Busy(h) /\ handler[h].pc \in {"write", "again"}
        /\ w.op = "INSERT" /\ w \in Write /\ w.job \in Job /\ w.photo \in Photo
    BY <1>7 DEF Insert, Busy, TypeOK, StarInv, Active, Write
  <2>2. /\ At(h, "done").write = w /\ At(h, "done").star = handler[h].star
        /\ At(h, "done").pc = "done" /\ At(h, "done") \in Active
    BY <2>1 DEF At, Active
  <2>3. CASE Collides(h)
    <3>1. handler[h].star /\ row' = row /\ Starred(row, w.job) \ {w.photo} # {}
      BY <1>7, <2>3 DEF Insert, Collides
    <3>2. w.star
      BY <1>1, <2>1, <3>1
    <3>3. CASE Goto(h, At(h, "done"))
      <4>1. Served1(At(h, "done"), row', edited')
        BY <2>2, <3>1, <3>2
      <4>2. QED
        BY <1>4, <3>3, <4>1
    <3>4. CASE Goto(h, [At(h, "again") EXCEPT !.star = FALSE])
      <4> DEFINE s == [At(h, "again") EXCEPT !.star = FALSE]
      <4>1. s.write = w /\ ~s.star /\ s.pc = "again"
        BY <2>1 DEF At, Active
      <4> HIDE DEF s
      <4>2. Served1(s, row', edited')
        BY <3>1, <3>2, <4>1
      <4>3. QED
        BY <1>4, <3>4, <4>2 DEF s
    <3>5. QED
      BY <1>7, <2>3, <3>3, <3>4 DEF Insert, Collided
  <2>4. CASE ~Collides(h)
    <3>1. row' = Upserted(h) /\ Goto(h, At(h, "done"))
      BY <1>7, <2>4 DEF Insert
    <3>2. handler[h].star => w.photo \in Starred(row', w.job)
      BY <1>0, <2>1, <3>1 DEF Upserted, Starred, On, TypeOK
    <3>3. w.star /\ w.job \notin edited' /\ ~handler[h].star => Starred(row', w.job) # {}
      <4>1. w.star /\ w.job \notin edited /\ ~handler[h].star =>
              Starred(row, w.job) # {}
        BY <1>1, <2>1
      <4>2. w.job \notin edited => Starred(row, w.job) \subseteq Starred(row', w.job)
        BY <2>1, StarsStay
      <4>3. QED
        BY <1>0, <4>1, <4>2
    <3>4. handler[h].star => w.star
      BY <1>1, <2>1
    <3>5. Served1(At(h, "done"), row', edited')
      BY <2>2, <3>2, <3>3, <3>4
    <3>6. QED
      BY <1>4, <3>1, <3>5
  <2>5. QED
    BY <2>3, <2>4
<1>8. ASSUME NEW h \in Handler, Change(h)
      PROVE  ClaimsServed'
  <2>1. handler[h] \in Active /\ handler[h].write.op # "INSERT"
    BY <1>8 DEF Change, Busy, TypeOK, StarInv
  <2>2. At(h, "done").write = handler[h].write
    BY <2>1 DEF At, Active
  <2>3. Served1(At(h, "done"), row', edited')
    BY <2>1, <2>2
  <2>4. QED
    BY <1>4, <1>8, <2>3 DEF Change
<1>9. ASSUME NEW h \in Handler, Answer(h) \/ Dies(h)
      PROVE  ClaimsServed'
  <2>1. Goto(h, Rest)
    BY <1>9 DEF Answer, Dies
  <2>2. QED
    BY <1>4, <2>1
<1>10. QED
  BY <1>3, <1>5, <1>6, <1>7, <1>8, <1>9
     DEF Next, Upload, Move, Delete, Pull, vars

\* A write leaves a queue only with the answer of the handler that carried it.
LEMMA QueueSteps ==
  ASSUME TypeOK, [Next]_vars, NEW d \in Device, NEW w \in queue[d]
  PROVE  \/ w \in queue'[d]
         \/ \E h \in Handler : Answer(h) /\ handler[h].write = w
<1>1. ASSUME NEW e \in Device, NEW op, NEW p, NEW r, Mirror(e, op, p, r)
      PROVE  w \in queue'[d]
  BY <1>1 DEF Mirror, TypeOK
<1>2. CASE \E h \in Handler : Answer(h)
  BY <1>2 DEF Answer, TypeOK
<1>3. CASE queue' = queue
  BY <1>3
<1>4. QED
  BY <1>1, <1>2, <1>3
     DEF Next, Upload, Move, Delete, Pull, Post, Check, Insert, Change, Dies, vars

LEMMA ElectedByNext ==
  ASSUME SettledInv, [Next]_vars
  PROVE  Elected'
<1>0. /\ TypeOK /\ StarInv /\ Edits /\ OneCreation /\ ClaimsServed /\ Elected
      /\ edited \subseteq edited'
  BY EditedSteps DEF SettledInv, StarInv
<1> SUFFICES ASSUME NEW j \in Job, j \notin edited', NEW p \in Photo, KnownAt(p, j)'
             PROVE  \/ Starred(row', j) # {}
                    \/ \E d \in Device : \E w \in queue'[d] :
                         w.op = "INSERT" /\ w.star /\ w.job = j
  BY DEF Elected
<1>1. Starred(row, j) \subseteq Starred(row', j)
  BY <1>0, StarsStay
<1>2. ASSUME NEW q \in Photo, KnownAt(q, j)
      PROVE  \/ Starred(row', j) # {}
             \/ \E d \in Device : \E w \in queue'[d] :
                  w.op = "INSERT" /\ w.star /\ w.job = j
  <2>1. CASE Starred(row, j) # {}
    BY <1>1, <2>1
  <2>2. ASSUME NEW d \in Device, NEW w \in queue[d],
               w.op = "INSERT", w.star, w.job = j, w \notin queue'[d]
        PROVE  Starred(row', j) # {}
    <3>1. PICK h \in Handler : Answer(h) /\ handler[h].write = w
      BY <1>0, <2>2, QueueSteps
    <3>2. Starred(row, j) # {}
      BY <1>0, <2>2, <3>1 DEF Answer, ClaimsServed
    <3>3. QED
      BY <1>1, <3>2
  <2>3. QED
    BY <1>0, <1>2, <2>1, <2>2 DEF Elected
<1>3. ASSUME NEW d \in Device, Upload(d, p, j), ~\E q \in Photo : KnownAt(q, j)
      PROVE  \E w \in queue'[d] : w.op = "INSERT" /\ w.star /\ w.job = j
  <2>1. Claims(d, j)
    BY <1>3 DEF Claims, On, KnownAt
  <2> DEFINE new == [id |-> issued[d], op |-> "INSERT", photo |-> p, job |-> j,
                     star |-> Claims(d, j)]
  <2>2. new \in queue'[d]
    BY <1>0, <1>3 DEF Upload, Mirror, TypeOK
  <2>3. QED
    BY <2>1, <2>2
<1>4. ASSUME NEW d \in Device, Move(d, p, j) PROVE FALSE
  BY <1>4 DEF Move
<1>5. QED
  BY <1>0, <1>2, <1>3, <1>4, KnownSteps

\* A job with photos, none of which was moved or deleted, never ends without a
\* star: whatever claims the devices' elections produced, and however often and
\* late they are handled, once the queues are empty one of them holds.
THEOREM StarsSettle == Spec => []StarredWhenSettled
<1>1. SettledInv /\ [Next]_vars => SettledInv'
  <2> SUFFICES ASSUME SettledInv, [Next]_vars PROVE SettledInv'
    OBVIOUS
  <2>1. TypeOK /\ Known /\ OneHome /\ OneStar
    BY DEF SettledInv, StarInv
  <2>2. StarInv'
    BY <2>1, TypesByNext, KnownByNext, OneHomeByNext, OneStarByNext DEF StarInv
  <2>3. Homes' /\ Edits' /\ OneCreation' /\ ClaimsServed' /\ Elected'
    BY <2>1, HomesByNext, OneCreationByNext, ClaimsServedByNext, ElectedByNext
       DEF SettledInv
  <2>4. QED
    BY <2>2, <2>3 DEF SettledInv
<1>2. SettledInv => StarredWhenSettled
  <2> SUFFICES ASSUME SettledInv, \A d \in Device : queue[d] = {},
                      NEW j \in Job, j \notin edited, On(row, j) # {}
               PROVE  Starred(row, j) # {}
    BY DEF StarredWhenSettled
  <2>1. \E p \in Photo : KnownAt(p, j)
    BY DEF On, KnownAt
  <2>2. QED
    BY <2>1 DEF SettledInv, Elected
<1>3. QED
  BY <1>1, <1>2, SettledAtInit, PTL DEF Spec

=============================================================================
