---------------------------- MODULE MCArtworkDb ----------------------------
EXTENDS ArtworkDb, TLC

CONSTANTS p1, p2

Symmetry == Permutations(Image)

OneAlbum == [t \in Track |-> "album"]
MoreIfSparse == [sparse_ \in BOOLEAN |-> IF sparse_ THEN 7 ELSE 4]
=============================================================================
