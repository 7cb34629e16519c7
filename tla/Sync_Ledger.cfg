SPECIFICATION Spec
CONSTANTS
  Song = {s1, s2}
  Families = {"hard", "shuffle2g", "shuffle"}
  FaultAt <- LedgerFaults
  Damage = FALSE
  MaxStars = 1
  MaxCount = 2
  MaxLists = 1
SYMMETRY Symmetry
PROPERTY
  ImplementsLedger
