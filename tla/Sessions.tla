------------------------------ MODULE Sessions ------------------------------
(***************************************************************************)
(* Sign-ins of one person (internal/auth/auth.go, the sessions of          *)
(* store/users.go): a sign-in is a row with an end, a request that finds   *)
(* enough of it used up moves the end, and signing out, a new password or  *)
(* a switch of profile deletes it.                                         *)
(***************************************************************************)
EXTENDS Naturals, Integers

CONSTANTS
    Sign,        \* sign-ins at one time: the browsers' cookies
    Short,       \* shortSession: without "keep me signed in"
    Remembered,  \* what lifetime() can give, by the days in the settings
    RenewAfter,
    MaxTime      \* bound: the clock

VARIABLES
    now,
    life,     \* the setting's lifetime
    row,      \* each sign-in's row: its end and whether it is remembered; 0, no row
    using,    \* requests that read their row and go on to extend it
    held      \* history: each sign-in's last use and the lifetime then; 0, signed out

vars == <<now, life, row, using, held>>

NoRow  == [end |-> 0, remember |-> FALSE]
NoUse  == [at |-> 0, life |-> 0]

Latest(S) == CHOOSE x \in S : \A y \in S : y <= x
MaxLife   == Latest(Remembered \cup {Short})
Least(a, b) == IF a < b THEN a ELSE b

TypeOK ==
    /\ now \in 1..MaxTime /\ life \in Remembered
    /\ row \in [Sign -> [end : 0..(MaxTime + MaxLife), remember : BOOLEAN]]
    /\ using \in [Sign -> 0..MaxLife]
    /\ held \in [Sign -> [at : 0..MaxTime, life : 0..MaxLife]]

Init ==
    /\ now = 1 /\ life \in Remembered
    /\ row = [s \in Sign |-> NoRow]
    /\ using = [s \in Sign |-> 0]
    /\ held = [s \in Sign |-> NoUse]

Tick ==
    /\ now < MaxTime /\ now' = now + 1
    /\ UNCHANGED <<life, row, using, held>>

SetDays ==
    /\ life' \in Remembered
    /\ UNCHANGED <<now, row, using, held>>

-----------------------------------------------------------------------------

Life(remember) == IF remember THEN life ELSE Short

Valid(s) == row[s].end > now

startSession(s, remember) ==
    /\ row' = [row EXCEPT ![s] = [end |-> now + Life(remember), remember |-> remember]]
    /\ held' = [held EXCEPT ![s] = [at |-> now, life |-> Life(remember)]]

\* After a password, setup, a changed password, or a switch of profile.
Login(s, remember) ==
    /\ row[s].end = 0 /\ using[s] = 0
    /\ startSession(s, remember)
    /\ UNCHANGED <<now, life, using>>

Due(s, l) == l - (row[s].end - now) >= Least(RenewAfter, l \div 2)

Served(s, l) == held' = IF held[s] = NoUse THEN held ELSE [held EXCEPT ![s] = [at |-> now, life |-> l]]

\* current: the row is read, and counts if its end has not come.
Use(s) ==
    /\ using[s] = 0 /\ Valid(s)
    /\ LET l == Life(row[s].remember) IN
         IF Due(s, l)
         THEN using' = [using EXCEPT ![s] = l] /\ held' = held
         ELSE Served(s, l) /\ using' = using
    /\ UNCHANGED <<now, life, row>>

\* Mutant: the row is written back whole.
ExtendAny(s) ==
    /\ using[s] > 0
    /\ row' = [row EXCEPT ![s].end = now + using[s]]
    /\ Served(s, using[s])
    /\ using' = [using EXCEPT ![s] = 0]
    /\ UNCHANGED <<now, life>>

\* ExtendSession updates the row it still finds.
Extend(s) ==
    /\ using[s] > 0
    /\ row' = IF row[s].end = 0 THEN row ELSE [row EXCEPT ![s].end = now + using[s]]
    /\ Served(s, using[s])
    /\ using' = [using EXCEPT ![s] = 0]
    /\ UNCHANGED <<now, life>>

\* Logout, and SwitchTo for the profile it leaves.
Logout(s) ==
    /\ row' = [row EXCEPT ![s] = NoRow]
    /\ held' = [held EXCEPT ![s] = NoUse]
    /\ UNCHANGED <<now, life, using>>

\* A changed or reset password (the command line's too), or the account deleted.
DeleteUserSessions ==
    /\ row' = [s \in Sign |-> NoRow]
    /\ held' = [s \in Sign |-> NoUse]
    /\ UNCHANGED <<now, life, using>>

\* A start: the process is gone, and ended rows are cleared.
PurgeExpired ==
    /\ using' = [s \in Sign |-> 0]
    /\ row' = [s \in Sign |-> IF Valid(s) THEN row[s] ELSE NoRow]
    /\ held' = [s \in Sign |-> IF Valid(s) THEN held[s] ELSE NoUse]
    /\ UNCHANGED <<now, life>>

Next ==
    \/ Tick \/ SetDays \/ DeleteUserSessions \/ PurgeExpired
    \/ \E s \in Sign : Use(s) \/ Extend(s) \/ Logout(s) \/ \E b \in BOOLEAN : Login(s, b)

Spec == Init /\ [][Next]_vars

-----------------------------------------------------------------------------

\* Who comes back within half of a sign-in's length is signed in, however the setting was
\* changed and whichever of the visits moved the end.
StaysSignedIn ==
    \A s \in Sign :
        held[s] # NoUse /\ using[s] = 0 /\ now - held[s].at < held[s].life - Least(RenewAfter, held[s].life \div 2)
        => Valid(s)

\* A sign-in that was ended stays ended: a request that read it before does not bring it back.
EndedStaysEnded ==
    \A s \in Sign : held[s] = NoUse => row[s].end = 0
=============================================================================
