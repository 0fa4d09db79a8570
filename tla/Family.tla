------------------------------- MODULE Family -------------------------------
(***************************************************************************)
(* Family devices and PINs (api/family_handlers.go, internal/auth/         *)
(* family.go, store/family.go): a shared device opens on everyone's        *)
(* profiles, a profile with a PIN asks for it, and wrong tries lock the    *)
(* profile on that device for longer and longer. The count and the lock    *)
(* are kept in memory and taken one after the other around the slow check. *)
(*                                                                         *)
(* One device and one profile; time is counted in first lock lengths.      *)
(***************************************************************************)
EXTENDS Naturals, FiniteSets

CONSTANTS
    Visit,     \* requests to switch at one time
    Tries,     \* this many wrong tries lock the profile
    MaxShift,  \* the lock stops doubling here
    MaxLock,   \* and is never longer than this
    MaxWrong,  \* bound: wrong tries in a row
    MaxClock   \* bound: the clock

VARIABLES
    clock,
    device,    \* the device is a family device
    parent,    \* the profile is a parent's
    pin,       \* the profile has a PIN
    fails,     \* pinTries.fails
    until,     \* pinTries.until
    visit,     \* each request: idle, past the lock, or switched
    wrong,     \* history: wrong answers since a right one or a start
    lockedAt   \* history: when the first lock of them came

vars == <<clock, device, parent, pin, fails, until, visit, wrong, lockedAt>>

Least(a, b) == IF a < b THEN a ELSE b

Needs == IF pin THEN "pin" ELSE IF parent THEN "password" ELSE "none"

TypeOK ==
    /\ clock \in 0..MaxClock /\ {device, parent, pin} \subseteq BOOLEAN
    /\ fails \in 0..MaxWrong /\ wrong \in 0..MaxWrong
    /\ until \in 0..(MaxClock + MaxLock) /\ lockedAt \in 0..MaxClock
    /\ visit \in [Visit -> {"idle", "asked"}]

Init ==
    /\ clock = 0 /\ device = FALSE /\ parent \in BOOLEAN /\ pin = FALSE
    /\ fails = 0 /\ until = 0 /\ wrong = 0 /\ lockedAt = 0
    /\ visit = [v \in Visit |-> "idle"]

Tick ==
    /\ clock < MaxClock /\ clock' = clock + 1
    /\ UNCHANGED <<device, parent, pin, fails, until, visit, wrong, lockedAt>>

Forgotten == fails' = 0 /\ until' = 0 /\ wrong' = 0

\* The counts do not outlive the process.
Restart ==
    /\ Forgotten
    /\ visit' = [v \in Visit |-> "idle"]
    /\ UNCHANGED <<clock, device, parent, pin, lockedAt>>

\* A parent turns it on; a device that is one already is not made again.
MakeFamilyDevice ==
    /\ device' = TRUE
    /\ UNCHANGED <<clock, parent, pin, fails, until, visit, wrong, lockedAt>>

\* Forgotten or removed: a device made later has a key of its own.
RemoveFamilyDevice ==
    /\ device /\ device' = FALSE
    /\ \A v \in Visit : visit[v] = "idle"
    /\ Forgotten
    /\ UNCHANGED <<clock, parent, pin, visit, lockedAt>>

\* One's own with the password, a kid's by a parent; empty takes it away.
SetPIN ==
    /\ pin' \in BOOLEAN
    /\ UNCHANGED <<clock, device, parent, fails, until, visit, wrong, lockedAt>>

-----------------------------------------------------------------------------
(* handleFamilySwitch.                                                     *)

\* Mutant: the lock is not looked at.
AskAnyway(v) ==
    /\ device /\ visit[v] = "idle"
    /\ visit' = [visit EXCEPT ![v] = "asked"]
    /\ UNCHANGED <<clock, device, parent, pin, fails, until, wrong, lockedAt>>

\* wait, and then the check of the PIN or the password, which takes its time.
Ask(v) ==
    /\ device /\ visit[v] = "idle"
    /\ until <= clock
    /\ visit' = [visit EXCEPT ![v] = "asked"]
    /\ UNCHANGED <<clock, device, parent, pin, fails, until, wrong, lockedAt>>

Lock(n) == Least(2 ^ Least(n - Tries, MaxShift), MaxLock)

Failed(v) ==
    /\ visit[v] = "asked" /\ Needs # "none" /\ wrong < MaxWrong
    /\ visit' = [visit EXCEPT ![v] = "idle"]
    /\ fails' = fails + 1 /\ wrong' = wrong + 1
    /\ until' = IF fails' >= Tries THEN clock + Lock(fails') ELSE until
    /\ lockedAt' = IF wrong' = Tries THEN clock ELSE lockedAt
    /\ UNCHANGED <<clock, device, parent, pin>>

\* passed, and SwitchTo, which starts a session of the profile.
Passed(v) ==
    /\ visit[v] = "asked"
    /\ visit' = [visit EXCEPT ![v] = "idle"]
    /\ Forgotten
    /\ UNCHANGED <<clock, device, parent, pin, lockedAt>>

Next ==
    \/ Tick \/ Restart \/ MakeFamilyDevice \/ RemoveFamilyDevice \/ SetPIN
    \/ \E v \in Visit : Ask(v) \/ Failed(v) \/ Passed(v)

Spec == Init /\ [][Next]_vars

-----------------------------------------------------------------------------

\* Requests that are past the lock when it comes are the only ones it does not stop: before
\* the first lock is over there is at most one wrong answer of each beyond the allowed.
LockHolds ==
    wrong >= Tries /\ clock < lockedAt + 1 => wrong <= Tries + Cardinality(Visit) - 1
=============================================================================
