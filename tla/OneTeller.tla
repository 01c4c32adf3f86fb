------------------------------ MODULE OneTeller -------------------------------
(***************************************************************************)
(* What the dedup table promises for a notice that is due once: whoever    *)
(* holds its key is the only one who may tell anybody; nobody is told      *)
(* twice; and the key is given back only while nobody has been told.  The  *)
(* promise ends with the key: one that has expired can be claimed anew.    *)
(* Notices is shown to implement this module.                              *)
(***************************************************************************)
EXTENDS Naturals

CONSTANTS
  Notice,         \* what is announced, by event key
  Person

VARIABLES
  held,           \* the notices somebody has the right to send
  heard           \* heard[k][p]: how often p was told of k in its key's life

tellerVars == <<held, heard>>

TellerInit ==
  /\ held = {}
  /\ heard = [k \in Notice |-> [p \in Person |-> 0]]

Claim(k) ==
  /\ k \notin held
  /\ held' = held \cup {k}
  /\ UNCHANGED heard

GiveBack(k) ==
  /\ k \in held
  /\ \A p \in Person : heard[k][p] = 0
  /\ held' = held \ {k}
  /\ UNCHANGED heard

Tell(k, p) ==
  /\ k \in held
  /\ heard[k][p] = 0
  /\ heard' = [heard EXCEPT ![k][p] = 1]
  /\ UNCHANGED held

\* The keys of S have become too old.
Expire(S) ==
  /\ held' = held \ S
  /\ heard' = [k \in Notice |-> IF k \in S THEN [p \in Person |-> 0] ELSE heard[k]]

TellerNext ==
  \/ \E k \in Notice : Claim(k) \/ GiveBack(k) \/ \E p \in Person : Tell(k, p)
  \/ \E S \in SUBSET held : Expire(S)

TellerSpec == TellerInit /\ [][TellerNext]_tellerVars

===============================================================================
