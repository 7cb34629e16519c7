SPECIFICATION Spec
CONSTANTS
  Song = {s1, s2}
  Families = {"hard", "shuffle2g", "shuffle", "sqlite"}
  FaultAt <- AllFaults
  Damage = TRUE
  MaxStars = 0
  MaxCount = 2
  MaxLists = 1
SYMMETRY Symmetry
INVARIANTS
  SyncSound
  EveryPlayKept
  WrittenCopiesAgree
  PositionsTakenAway
PROPERTIES
  StoredPlaysKept
