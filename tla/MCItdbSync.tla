----------------------------- MODULE MCItdbSync -----------------------------
(* Instances of ItdbSync for TLC.                                          *)
EXTENDS ItdbSync, TLC

Symmetry == Permutations(Song)

AllFaults == KnownFamilies \X WriteSteps

(* Faults that leave the iPod with either the notes or what was saved.     *)
LedgerFaults == AllFaults \ Parting

NoFaults == {}
=============================================================================
