----------------------------- MODULE MCFileCopy -----------------------------
(* Instances of FileCopy for TLC: one track is on the iPod at first.       *)
EXTENDS FileCopy

CONSTANTS t1, t2, c1, c2

MCTrack == {t1, t2}
MCThread == {c1, c2}
MCNumbers == {0}
MCAtFirst == [t \in MCTrack |-> IF t = t1 THEN 0 ELSE NoName]
=============================================================================
