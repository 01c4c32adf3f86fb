------------------------------- MODULE MCPhotos -------------------------------
(* Instances of Photos for TLC. *)
EXTENDS Photos, TLC

\* Devices, photos and handlers are interchangeable, and so are jobs.
Symmetry == Permutations(Device) \cup Permutations(Photo)
              \cup Permutations(Handler) \cup Permutations(Job)
===============================================================================
