----------------------------- MODULE MCLibrary ------------------------------
(* Instances of Library for TLC.                                           *)
EXTENDS Library, TLC

CONSTANTS box1, t1, r1, v1

MCTitle2 == {box1, t1}
MCBox == {box1}
MCReq1 == {r1}
MCEvent == {v1}

\* The library follows Calibre: a rename keeps the book's row, and in the end the two agree.
FollowsCalibre ==
    /\ [][RenameKeepsBook]_vars
    /\ Converges
=============================================================================
