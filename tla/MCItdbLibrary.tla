--------------------------- MODULE MCItdbLibrary ---------------------------
(* Instances of ItdbLibrary for TLC.                                       *)
EXTENDS ItdbLibrary, TLC

Symmetry ==
  Permutations(Track) \cup Permutations(Playlist) \cup Permutations(DbId)
    \cup Permutations(PlId)
=============================================================================
