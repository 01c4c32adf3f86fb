------------------------------- MODULE Photos ---------------------------------
(***************************************************************************)
(* The starred ("primary") photo of a job.  Each device elects the first   *)
(* photo it knows of (apps/mobile-v2/src/repos/media.ts); the server's     *)
(* writer takes a late claim back (apps/api-v2/src/lib/mediaPrimary.ts,    *)
(* called from sync/apply.ts), with a partial unique index behind the      *)
(* check (migration 050); the outcome comes back with the next pull.       *)
(*                                                                         *)
(* A handler is the run of applyEntry for one queued write.  Its check,    *)
(* its statement and the repeated statement are steps of their own, and it *)
(* goes on when the device has stopped waiting for it.  How writes travel  *)
(* is the subject of OutboxSync and RowWrites: here a device may send any  *)
(* write that none of its own earlier writes of the same photo precedes.   *)
(***************************************************************************)
EXTENDS Naturals

CONSTANTS
  Device, Job, Photo,
  NoJob,
  Handler,        \* handlers that may be under way at once
  MaxPosts,       \* bound: handlers started
  MaxEdits        \* bound: moves and deletions

ASSUME PhotosAssumption ==
  /\ NoJob \notin Job
  /\ MaxPosts \in Nat /\ MaxEdits \in Nat

Row    == [job : Job \cup {NoJob}, star : BOOLEAN]
Absent == [job |-> NoJob, star |-> FALSE]
Write  == {w \in [id : Nat, op : {"INSERT", "UPDATE", "DELETE"}, photo : Photo,
                  job : Job \cup {NoJob}, star : BOOLEAN] :
             w.op = "INSERT" => w.job # NoJob}

VARIABLES
  row,            \* row[p]: the server's media row
  local,          \* local[d][p]: the device's copy
  issued,         \* issued[d]: how many writes d has queued so far
  queue,          \* queue[d]: those that wait, numbered in their order
  handler,        \* handler[h]: the write it carries and its place, or Rest
  posts, edits,   \* counters of the bounds
  uploaded,       \* the photos that exist
  stranded,       \* history: photos whose creation was answered CONFLICT
  edited          \* history: jobs that lost a photo, or got one by a move

vars == <<row, local, issued, queue, handler, posts, edits, uploaded, stranded, edited>>

Rest   == [pc |-> "rest"]
Active == [pc : {"check", "write", "again", "done"}, by : Device, write : Write,
           star : BOOLEAN]
Busy(h) == handler[h] # Rest

Init ==
  /\ row = [p \in Photo |-> Absent]
  /\ local = [d \in Device |-> [p \in Photo |-> Absent]]
  /\ issued = [d \in Device |-> 0]
  /\ queue = [d \in Device |-> {}]
  /\ handler = [h \in Handler |-> Rest]
  /\ posts = 0 /\ edits = 0
  /\ uploaded = {} /\ stranded = {} /\ edited = {}

On(rows, j)      == {p \in Photo : rows[p].job = j}
Starred(rows, j) == {p \in On(rows, j) : rows[p].star}

-----------------------------------------------------------------------------
(* The device.                                                             *)

\* A write of the media repository: the local row and the outbox entry.
Mirror(d, op, p, r) ==
  /\ issued' = [issued EXCEPT ![d] = @ + 1]
  /\ queue' = [queue EXCEPT ![d] = @ \cup
       {[id |-> issued[d], op |-> op, photo |-> p, job |-> r.job, star |-> r.star]}]
  /\ local' = [local EXCEPT ![d][p] = r]

\* insertMediaRow: the first photo the device knows of claims the star.
Claims(d, j) == On(local[d], j) = {}

Upload(d, p, j) ==
  /\ p \notin uploaded
  /\ uploaded' = uploaded \cup {p}
  /\ Mirror(d, "INSERT", p, [job |-> j, star |-> Claims(d, j)])
  /\ UNCHANGED <<row, handler, posts, edits, stranded, edited>>

\* moveMediaToJob: the star stays behind.
Move(d, p, j) ==
  /\ edits < MaxEdits
  /\ local[d][p].job \notin {NoJob, j}
  /\ Mirror(d, "UPDATE", p, [job |-> j, star |-> FALSE])
  /\ edited' = edited \cup {local[d][p].job, j}
  /\ edits' = edits + 1
  /\ UNCHANGED <<row, handler, posts, uploaded, stranded>>

\* deleteMedia.
Delete(d, p) ==
  /\ edits < MaxEdits
  /\ local[d][p].job # NoJob
  /\ Mirror(d, "DELETE", p, Absent)
  /\ edited' = edited \cup {local[d][p].job}
  /\ edits' = edits + 1
  /\ UNCHANGED <<row, handler, posts, uploaded, stranded>>

\* A pull: rows that changed since the last one replace the device's copies,
\* those with a write still waiting too.  Which ones is up to the watermark.
Pull(d) ==
  /\ \E new \in SUBSET {p \in Photo : row[p].job # NoJob} :
       local' = [local EXCEPT ![d] = [p \in Photo |->
                   IF p \in new THEN row[p] ELSE local[d][p]]]
  /\ UNCHANGED <<row, issued, queue, handler, posts, edits, uploaded, stranded, edited>>

-----------------------------------------------------------------------------
(* The writer.                                                             *)

Goto(h, s) == handler' = [handler EXCEPT ![h] = s]
At(h, pc)  == [handler[h] EXCEPT !.pc = pc]

\* A push carries w.  A claim goes through the check.
Post(d, h) ==
  /\ ~Busy(h) /\ posts < MaxPosts
  /\ \E w \in queue[d] :
       /\ \A v \in queue[d] : v.photo = w.photo => v.id >= w.id
       /\ Goto(h, [pc |-> IF w.op = "INSERT" /\ w.star THEN "check" ELSE "write",
                   by |-> d, write |-> w, star |-> w.star])
  /\ posts' = posts + 1
  /\ UNCHANGED <<row, local, issued, queue, edits, uploaded, stranded, edited>>

\* Photos of the job, other than p itself, that are starred.
AnyHolder(p, j) == Starred(row, j)    \* mutant: p's own row counts too
Holders(p, j) == Starred(row, j) \ {p}

\* resolvePrimaryClaim: somebody holds it, the claim is taken back.
Check(h) ==
  /\ Busy(h) /\ handler[h].pc = "check"
  /\ LET w == handler[h].write IN
     Goto(h, [At(h, "write") EXCEPT !.star = Holders(w.photo, w.job) = {}])
  /\ UNCHANGED <<row, local, issued, queue, posts, edits, uploaded, stranded, edited>>

\* media_one_primary_idx.
NoIndex(h) == FALSE                   \* mutant: the migration has not run
Collides(h) ==
  LET w == handler[h].write IN
  handler[h].star /\ Starred(row, w.job) \ {w.photo} # {}

\* The upsert of an INSERT, with the claim as it stands.
Upserted(h) ==
  LET w == handler[h].write IN
  [row EXCEPT ![w.photo] = [job |-> w.job, star |-> handler[h].star]]

\* An INSERT that the index refuses is sent once more, unstarred; an error of
\* the second statement is the entry's answer.
Unserved(h) == {p \in {handler[h].write.photo} : handler[h].pc = "again"}
ResendAsIs(h) ==                      \* mutant: the claim is not taken back
  /\ Goto(h, IF Unserved(h) = {} THEN At(h, "again") ELSE At(h, "done"))
  /\ stranded' = stranded \cup Unserved(h)
Collided(h) ==
  /\ Goto(h, IF Unserved(h) = {} THEN [At(h, "again") EXCEPT !.star = FALSE]
                                 ELSE At(h, "done"))
  /\ stranded' = stranded \cup Unserved(h)

Insert(h) ==
  /\ Busy(h) /\ handler[h].pc \in {"write", "again"} /\ handler[h].write.op = "INSERT"
  /\ \/ Collides(h) /\ Collided(h) /\ UNCHANGED row
     \/ ~Collides(h) /\ row' = Upserted(h) /\ Goto(h, At(h, "done"))
        /\ UNCHANGED stranded
  /\ UNCHANGED <<local, issued, queue, posts, edits, uploaded, edited>>

\* UPDATE and DELETE of a row that may not be there.
ChangeJobOnly(h) ==                   \* mutant: the star goes along
  /\ Busy(h) /\ handler[h].pc = "write" /\ handler[h].write.op # "INSERT"
  /\ row' = [row EXCEPT ![handler[h].write.photo].job = handler[h].write.job]
  /\ Goto(h, At(h, "done"))
  /\ UNCHANGED <<local, issued, queue, posts, edits, uploaded, stranded, edited>>
Change(h) ==
  /\ Busy(h) /\ handler[h].pc = "write" /\ handler[h].write.op # "INSERT"
  /\ LET w == handler[h].write IN
     row' = IF row[w.photo].job = NoJob THEN row
            ELSE [row EXCEPT ![w.photo] = [job |-> w.job, star |-> FALSE]]
  /\ Goto(h, At(h, "done"))
  /\ UNCHANGED <<local, issued, queue, posts, edits, uploaded, stranded, edited>>

\* The answer reaches the device, which drops the entry, or is lost.
Answer(h) ==
  /\ Busy(h) /\ handler[h].pc = "done"
  /\ queue' \in {queue, [queue EXCEPT ![handler[h].by] = @ \ {handler[h].write}]}
  /\ Goto(h, Rest)
  /\ UNCHANGED <<row, local, issued, posts, edits, uploaded, stranded, edited>>

\* A statement fails or the API restarts: the entry stays queued.
Dies(h) ==
  /\ Busy(h)
  /\ Goto(h, Rest)
  /\ UNCHANGED <<row, local, issued, queue, posts, edits, uploaded, stranded, edited>>

Next ==
  \/ \E d \in Device, p \in Photo :
       \/ Delete(d, p)
       \/ \E j \in Job : Upload(d, p, j) \/ Move(d, p, j)
  \/ \E d \in Device : Pull(d)
  \/ \E d \in Device, h \in Handler : Post(d, h)
  \/ \E h \in Handler : Check(h) \/ Insert(h) \/ Change(h) \/ Answer(h) \/ Dies(h)

Spec == Init /\ [][Next]_vars

-----------------------------------------------------------------------------
(* Properties.                                                             *)

TypeOK ==
  /\ row \in [Photo -> Row]
  /\ local \in [Device -> [Photo -> Row]]
  /\ \A p \in Photo : row[p].job = NoJob => row[p] = Absent
  /\ issued \in [Device -> Nat]
  /\ queue \in [Device -> SUBSET Write]
  /\ handler \in [Handler -> {Rest} \cup Active]
  /\ posts \in 0..MaxPosts /\ edits \in 0..MaxEdits
  /\ uploaded \subseteq Photo /\ stranded \subseteq Photo /\ edited \subseteq Job

\* However the claims of several devices, their retries and late handlers
\* interleave: a job never has two stars, and no photo takes the star over.
Stars == INSTANCE FirstClaim WITH
           Place <- Job, Claimant <- Photo, stars <- [j \in Job |-> Starred(row, j)]
FirstClaimWins == Stars!ClaimSpec

\* A photo never fails to be saved because of the star: the statement that
\* follows a collision cannot collide (apply.ts: "an unsynced photo is worse than
\* an unstarred one").
NoPhotoStranded == stranded = {}

\* Once every write has been delivered, a job that has photos and whose photos
\* were never moved or deleted has a star: the server takes back the late
\* claims of the devices' elections, but never the only one, whatever is
\* retried or repeated by a late handler.
StarredWhenSettled ==
  (\A d \in Device : queue[d] = {}) /\ (\A h \in Handler : ~Busy(h)) =>
    \A j \in Job \ edited : On(row, j) # {} => Starred(row, j) # {}
===============================================================================
