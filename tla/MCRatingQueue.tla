--------------------------- MODULE MCRatingQueue ---------------------------
(* Instances of RatingQueue for TLC.                                       *)
EXTENDS RatingQueue, TLC

CONSTANTS b1, b2, r1, r2, r3

MCBook2 == {b1, b2}
MCBook1 == {b1}
MCReq1 == {r1}
MCReq2 == {r1, r2}
MCReq3 == {r1, r2, r3}

Symmetry == Permutations(Book) \cup Permutations(Req)
=============================================================================
