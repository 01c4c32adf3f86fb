------------------------------- MODULE MCNotices -------------------------------
(* Instances of Notices for TLC. *)
EXTENDS Notices, FiniteSets, TLC

Symmetry == Permutations(Task)

\* Tasks of different events share the staff and the faults, nothing else: two
\* events meet with one handler each, three handlers are of one event, or of
\* the decisions of one request.
TwoEvents ==
  \/ Cardinality(begun) + started <= 4
  \/ begun \subseteq Decision
===============================================================================
