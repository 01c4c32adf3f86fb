SPECIFICATION Spec
CONSTANTS
  Device = {d1, d2}
  Job = {j1, j2}
  Photo = {ph1, ph2}
  NoJob = NoJob
  Handler = {h1, h2}
  MaxPosts = 5
  MaxEdits = 1
SYMMETRY Symmetry
CHECK_DEADLOCK FALSE
INVARIANTS TypeOK NoPhotoStranded StarredWhenSettled
PROPERTIES FirstClaimWins
