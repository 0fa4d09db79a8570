----------------------------- MODULE MCServices -----------------------------
(* Parts of the program that answer to something outside it, side by side  *)
(* for TLC: they share no state, so `service` says which of them takes     *)
(* this behaviour's steps, and the others stay as they began.              *)
EXTENDS Genres, TLC

CONSTANTS
    Saver, MaxConnectors,
    b1, b2, Pusher, MaxActs

VARIABLES
    service,
    enabled, token, manager, tunnel, sup, saving, notice, overlapped,
    here, page, newest, there, last, pushed, job, acts

tunnelVars    == <<enabled, token, manager, tunnel, sup, saving, notice, overlapped>>
hardcoverVars == <<here, page, newest, there, last, pushed, job, acts>>

T == INSTANCE Tunnel WITH owner <- manager, state <- tunnel
H == INSTANCE Hardcover WITH Book <- {b1, b2}, Unknown <- {b2}

allVars == <<service, tunnelVars, hardcoverVars, vars>>

MCInit ==
    /\ service \in {"tunnel", "hardcover", "genres"}
    /\ T!Init /\ H!Init /\ Init

MCNext ==
    /\ UNCHANGED service
    /\ \/ service = "tunnel"    /\ T!Next /\ UNCHANGED <<hardcoverVars, vars>>
       \/ service = "hardcover" /\ H!Next /\ UNCHANGED <<tunnelVars, vars>>
       \/ service = "genres"    /\ Next   /\ UNCHANGED <<tunnelVars, hardcoverVars>>

\* Fairness is asked for of the part that runs.
MCFairness ==
    /\ T!Fairness
    /\ service = "hardcover" => H!Fairness
    /\ Fairness

MCSpec == MCInit /\ [][MCNext]_allVars /\ MCFairness

-----------------------------------------------------------------------------

\* A save of the tunnel's settings is answered.
SaveEnds ==
    [](service = "tunnel" => T!TypeOK) /\ T!SaveEnds

\* Hardcover: when the person stops, there comes a time with nothing to send, and a book
\* finished here is not left there as being read.
PushesArrive ==
    service = "hardcover" => []H!TypeOK /\ H!PushesSettle /\ H!FinishedReaches
=============================================================================
