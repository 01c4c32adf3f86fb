SPECIFICATION Spec
CONSTANTS
  owner = owner
  pm = pm
  NoOne = NoOne
  Person = {owner, pm}
  Manager = {owner, pm}
  Tier <- MCTier
  Lead = {}
  Creator = {owner}
  Session = {s1, s2}
  Handler = {h1, h2}
  MaxWrites = 3
  MaxPosts = 3
  MaxFaults = 1
SYMMETRY Symmetry
CHECK_DEADLOCK FALSE
INVARIANTS TypeOK EndedSessionsClose
PROPERTIES LockIsGuarded
CONSTRAINT PostsAndFaults
