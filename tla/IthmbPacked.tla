----------------------------- MODULE IthmbPacked -----------------------------
(***************************************************************************)
(* Where the pictures of a thumbnail file are after it was rearranged: the *)
(* first unused slot got the last picture, the second one the picture      *)
(* before that, until the pictures in use fill the beginning of the file.  *)
(***************************************************************************)
EXTENDS Naturals, FiniteSets

UnusedBefore(used) == (0 .. Cardinality(used) - 1) \ used

PackedSlot(used, slot) ==
  IF slot < Cardinality(used) THEN slot
  ELSE CHOOSE free \in UnusedBefore(used) :
         Cardinality({u \in UnusedBefore(used) : u < free})
           = Cardinality({u \in used : u > slot})
=============================================================================
