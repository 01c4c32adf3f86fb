------------------------------ MODULE MCVehicles ------------------------------
(* An instance of Vehicles for TLC: the owner, who is crew, and a PM. *)
EXTENDS Vehicles, TLC

CONSTANTS owner, pm

MCTier == [p \in Person |-> IF p = owner THEN 1 ELSE 2]

\* Three requests, or two and a fault.
PostsAndFaults == posts + faults <= 3

Symmetry == Permutations(Handler) \cup Permutations(Session)
===============================================================================
