----------------------------- MODULE WholeStore --------------------------------
(***************************************************************************)
(* What the local database promises the app: its content changes from one  *)
(* committed content to the next, what is kept for the next start is one   *)
(* of the contents committed since the last start, and a start finds the   *)
(* kept content or none at all.                                            *)
(***************************************************************************)
CONSTANTS Content, Empty

VARIABLES
  now,        \* the committed content
  past,       \* what has been committed since the last start
  kept        \* what a start may find: a set of at most one content

vars == <<now, past, kept>>

Init == now = Empty /\ past = {Empty} /\ kept = {}

Commit ==
  /\ now' \in Content
  /\ past' = past \cup {now'}
  /\ UNCHANGED kept

Keep ==
  /\ \E c \in past : kept' = {c}
  /\ UNCHANGED <<now, past>>

Start ==
  /\ now' \in kept \cup {Empty}
  /\ past' = {now'}
  /\ UNCHANGED kept

Next == Commit \/ Keep \/ Start

Spec == Init /\ [][Next]_vars
================================================================================
