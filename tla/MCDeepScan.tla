----------------------------- MODULE MCDeepScan -----------------------------
(* Instances of DeepScan for TLC.                                          *)
EXTENDS DeepScan, TLC

CONSTANTS b1, b2, a1, a2

MCBook1 == {b1}
MCBook2 == {b1, b2}
MCAdmin1 == {a1}
MCAdmin2 == {a1, a2}

Symmetry == Permutations(Admin)

\* One scan after the other is read, and each approved one to its end.
ScansEndInTurn ==
    /\ [](\A s \in Scan : ReadingIsCurrent(s))
    /\ ApprovedScanEnds
=============================================================================
