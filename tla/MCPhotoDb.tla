----------------------------- MODULE MCPhotoDb -----------------------------
EXTENDS PhotoDb, TLC

CONSTANTS a1

Albums == {Library, a1}
Lengths == [a \in Albums |-> 2]
ThumbFormats == <<"1036", "1067">>
Symmetry == Permutations(Photo)
=============================================================================
