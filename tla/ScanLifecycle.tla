--------------------------- MODULE ScanLifecycle ---------------------------
(***************************************************************************)
(* What a Deep Scan promises the people who asked for it, without how it   *)
(* is read: a scan is asked for, waits its turn, is read, and ends in      *)
(* exactly one way.  A result either applies by itself or waits for an     *)
(* admin, whose decision is final.                                         *)
(***************************************************************************)
CONSTANTS Scan      \* the scans ever asked for

VARIABLE phase      \* where each of them is

Phase == {"none", "asked", "waiting", "reading", "review",
          "applied", "kept", "refused", "stopped", "failed"}
Final == {"applied", "kept", "refused", "stopped", "failed"}

Init == phase = [s \in Scan |-> "none"]

Move(s, from, to) == phase[s] \in from /\ phase' = [phase EXCEPT ![s] = to]

Ask(s)     == Move(s, {"none"}, "asked")
Start(s)   == Move(s, {"none"}, "waiting")
Approve(s) == Move(s, {"asked"}, "waiting")
Refuse(s)  == Move(s, {"asked"}, "refused")
Stop(s)    == Move(s, {"waiting", "reading"}, "stopped")
Read(s)    == Move(s, {"waiting"}, "reading")
Apply(s)   == Move(s, {"reading", "review"}, "applied")
Hold(s)    == Move(s, {"reading"}, "review")
Keep(s)    == Move(s, {"review"}, "kept")
Fail(s)    == Move(s, {"waiting", "reading"}, "failed")

\* Its machine went off, or the process restarted: back in line.
Requeue(s) == Move(s, {"reading"}, "waiting")

\* A restart puts every scan it interrupted back, and an admin can turn down
\* every held scan at once.
RequeueAll == phase' = [s \in Scan |-> IF phase[s] = "reading" THEN "waiting" ELSE phase[s]]
KeepAll    == phase' = [s \in Scan |-> IF phase[s] = "review" THEN "kept" ELSE phase[s]]

Next ==
    \/ \E s \in Scan :
         \/ Ask(s) \/ Start(s) \/ Approve(s) \/ Refuse(s) \/ Stop(s) \/ Read(s)
         \/ Apply(s) \/ Hold(s) \/ Keep(s) \/ Fail(s) \/ Requeue(s)
    \/ RequeueAll \/ KeepAll

Spec == Init /\ [][Next]_phase
=============================================================================
