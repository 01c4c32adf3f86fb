---------------------------- MODULE DeliveryLedger ----------------------------
(***************************************************************************)
(* What the write path of the sync core promises for every queued write,   *)
(* with the outbox table, the requests, the retries and the dedup table    *)
(* left out.  A write is queued once; its effect reaches the server's data *)
(* at most once, whatever happens to the requests that carry it; and it is *)
(* reported as delivered only after its effect is there.  OutboxSync is    *)
(* shown to implement this module.                                         *)
(***************************************************************************)
EXTENDS Naturals

CONSTANT Entry    \* the queued writes, by outbox id

VARIABLES
  stage,          \* stage[e]: what the device says about e
  effect          \* effect[e]: how often e changed the server's data

ledgerVars == <<stage, effect>>

Stage == {"new", "queued", "acked", "refused", "discarded"}

LedgerTypeOK ==
  /\ stage \in [Entry -> Stage]
  /\ effect \in [Entry -> 0..1]

LedgerInit ==
  /\ stage = [e \in Entry |-> "new"]
  /\ effect = [e \in Entry |-> 0]

\* A local write queues e.
Queue(e) ==
  /\ stage[e] = "new"
  /\ stage' = [stage EXCEPT ![e] = "queued"]
  /\ UNCHANGED effect

\* The effect of e lands, once.  The device may already have given e up:
\* a request it stopped waiting for can still be carried out.
Land(e) ==
  /\ stage[e] # "new"
  /\ effect[e] = 0
  /\ effect' = [effect EXCEPT ![e] = 1]
  /\ UNCHANGED stage

\* The device learns verdicts: every write in A is reported delivered, which
\* needs its effect to be there, and every write in R refused.
Settle(A, R) ==
  /\ \A e \in A : stage[e] \in {"queued", "refused", "acked"} /\ effect[e] = 1
  /\ \A e \in R : stage[e] \in {"queued", "refused"}
  /\ stage' = [e \in Entry |-> IF e \in A THEN "acked"
                               ELSE IF e \in R THEN "refused"
                               ELSE stage[e]]
  /\ UNCHANGED effect

\* The user, or a session handoff, throws the rows of D away.
Discard(D) ==
  /\ \A e \in D : stage[e] # "new"
  /\ stage' = [e \in Entry |-> IF e \in D THEN "discarded" ELSE stage[e]]
  /\ UNCHANGED effect

LedgerNext ==
  \/ \E e \in Entry : Queue(e) \/ Land(e)
  \/ \E A, R \in SUBSET Entry : Settle(A, R)
  \/ \E D \in SUBSET Entry : Discard(D)

LedgerSpec == LedgerInit /\ [][LedgerNext]_ledgerVars

===============================================================================
