SPECIFICATION Spec
CONSTANTS
  Song = {s1, s2}
  Families = {"sqlite"}
  FaultAt <- NoFaults
  Damage = FALSE
  MaxStars = 1
  MaxCount = 1
  MaxLists = 0
SYMMETRY Symmetry
INVARIANTS
  NotesTakenAway
