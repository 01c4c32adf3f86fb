------------------------------ MODULE FirstClaim ------------------------------
(***************************************************************************)
(* What the server promises about the starred photo of a job: the first    *)
(* claim wins.  A job has one star or none; a photo is starred only while  *)
(* no other photo is; the star never passes from one photo to another in   *)
(* one step, whatever claims arrive.  Photos is shown to implement this    *)
(* module.                                                                 *)
(***************************************************************************)
CONSTANTS
  Place,          \* what photos are attached to
  Claimant        \* the photos

VARIABLE stars    \* stars[j]: the starred photos of j

ClaimInit == stars = [j \in Place |-> {}]

\* The first claim.
Elect(j, p) ==
  /\ stars[j] = {}
  /\ stars' = [stars EXCEPT ![j] = {p}]

\* The starred photo leaves the job, or gives the star up.
Vacate(j) ==
  /\ stars[j] # {}
  /\ stars' = [stars EXCEPT ![j] = {}]

ClaimNext == \E j \in Place : Vacate(j) \/ \E p \in Claimant : Elect(j, p)

ClaimSpec == ClaimInit /\ [][ClaimNext]_stars

===============================================================================
