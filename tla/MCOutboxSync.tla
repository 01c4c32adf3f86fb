----------------------------- MODULE MCOutboxSync -----------------------------
(* Values of the constants of OutboxSync for TLC. *)
EXTENDS OutboxSync, TLC

\* Entry 1 takes one unit out, entry 2 brings two back, entry 3 logs it.
MCDelta == [e \in Entry |-> IF e = 1 THEN -1 ELSE 2]

Symmetry == Permutations(Drainer) \cup Permutations(Slot)

===============================================================================
