------------------------------ MODULE MCLocalStore ------------------------------
(* Instance of LocalStore for TLC: two screens that watch different keys. *)
EXTENDS LocalStore

CONSTANTS t1, list, toast

\* A list reads one table, the "Saved" toast reads the outbox.
Subscriptions == [s \in Screen |-> IF s = list THEN {t1} ELSE {Outbox}]
=================================================================================
