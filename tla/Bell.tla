-------------------------------- MODULE Bell --------------------------------
(***************************************************************************)
(* The bell (store/notifications.go): notices for admins and editors, the  *)
(* newest of them kept. The module follows one notice, the one that says   *)
(* of a list that something on it waits, among all others.                 *)
(***************************************************************************)
EXTENDS Naturals

CONSTANT MaxNotices   \* notices kept (300 in the code)

VARIABLES
    ahead,    \* how many notices are newer than the list's unread one; MaxNotices: none is unread
    since,    \* history: notices written since it was written last, while it is unread
    silent    \* history: somebody read or deleted it, or it could not be written, or its
              \* clearing was overtaken

bellVars == <<ahead, since, silent>>

BellOK == ahead \in 0..MaxNotices /\ since \in 0..MaxNotices /\ silent \in BOOLEAN

Empty == ahead = MaxNotices /\ since = 0 /\ silent = FALSE

Unread == ahead < MaxNotices

\* Mutant: a notice that is written again keeps its place.
WrittenInPlace(overtaken) ==
    ahead' = (IF Unread THEN ahead ELSE 0) /\ since' = 0 /\ silent' = overtaken

\* An unread notice of the same words is written again and is the newest; else a new one is.
Written(overtaken) == ahead' = 0 /\ since' = 0 /\ silent' = overtaken

\* Errors are only logged.
NotWritten == ahead' = ahead /\ since' = 0 /\ silent' = TRUE

\* Another notice is written: the one after j others again, or (j = MaxNotices) a new one. What
\* is beyond the newest MaxNotices is deleted, read or not.
OtherNotice(j) ==
    /\ Unread /\ j # ahead
    /\ ahead' = IF ahead < j THEN ahead + 1 ELSE ahead
    /\ since' = IF silent \/ since = MaxNotices THEN since ELSE since + 1
    /\ silent' = silent

\* Every unread one of the list.
Resolve == ahead' = MaxNotices /\ UNCHANGED <<since, silent>>

\* Marking it read, and clearing them all, which differ in the rows that stay only.
MarkNotificationsRead == Unread /\ ahead' = MaxNotices /\ since' = 0 /\ silent' = TRUE

DismissNotifications(j) ==
    \/ j = ahead /\ MarkNotificationsRead
    \/ j < ahead /\ Unread /\ ahead' = ahead - 1 /\ UNCHANGED <<since, silent>>

\* What others do with the bell.
BellNext == MarkNotificationsRead \/ \E j \in 0..MaxNotices : OtherNotice(j) \/ DismissNotifications(j)

\* The notice is there, or has a reason not to be.
Told == Unread \/ silent \/ since = MaxNotices
=============================================================================
