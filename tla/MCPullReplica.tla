----------------------------- MODULE MCPullReplica ----------------------------
(* Values of the constants of PullReplica for TLC. *)
EXTENDS PullReplica, TLC

Symmetry == Permutations(Cycle)

===============================================================================
