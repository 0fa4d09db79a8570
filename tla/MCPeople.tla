------------------------------ MODULE MCPeople ------------------------------
(* The parts around the program's people, side by side for TLC: they share *)
(* no state, so `running` says which of them takes this behaviour's steps, *)
(* and the others stay as they began.                                      *)
EXTENDS Accounts, TLC

CONSTANTS
    Sign, Short, Remembered, RenewAfter, MaxClock,
    Visit, Tries, MaxShift, MaxLock, MaxWrong,
    ReaderBook, Doc, Copies, NoBook, MaxJobs,
    QueueBook, Shelf, MaxMinute,
    WishBook, Person, Parent, MaxRows, MaxNotices,
    Reader, Device, Notice, MaxKeys, MaxGen

\* Lengths of sign-ins are positive, and one of them is the longest.
ASSUME SignAssumption ==
    /\ RenewAfter \in Nat /\ MaxClock \in Nat \ {0}
    /\ Remembered \cup {Short} \subseteq Nat \ {0} /\ Remembered # {}
    /\ \E x \in Remembered \cup {Short} : \A y \in Remembered \cup {Short} : y <= x

\* A lock, doubled as often as it may be, still has a length.
ASSUME LockAssumption ==
    /\ IsFiniteSet(Visit)
    /\ Tries \in Nat \ {0} /\ MaxShift \in Nat /\ MaxLock \in Nat \ {0} /\ MaxWrong \in Nat
    /\ \A k \in 0..MaxShift : 2 ^ k \in Nat \ {0}

ASSUME ReaderAssumption ==
    /\ NoBook \notin ReaderBook
    /\ Copies \in [Doc -> ReaderBook \cup {NoBook}]

ASSUME ShelfAssumption ==
    /\ MaxMinute \in Nat
    /\ "koreader" \in Shelf

ASSUME RequestAssumption == MaxRows \in Nat /\ WishBook # {} /\ MaxNotices \in Nat \ {0}

ASSUME PushAssumption == MaxKeys \in Nat /\ MaxGen \in Nat

VARIABLES
    running,
    today, life, session, using, held,
    clock, device, parent, pin, fails, until, visit, wrong, lockedAt,
    fits, docs, known, row, choice, shelf, job, late,
    minute, item, place, report, saved, starting, adding, touched,
    list, owned, rows, asking, deciding, decided, ahead, since, silent,
    key, memory, locked, keys, asker, gen, last, subs, sending

sessionVars    == <<today, life, session, using, held>>
familyVars     == <<clock, device, parent, pin, fails, until, visit, wrong, lockedAt>>
ereaderVars    == <<fits, docs, known, row, choice, shelf, job, late>>
nightstandVars == <<minute, item, place, report, saved, starting, adding, touched>>
requestVars    == <<list, owned, rows, asking, deciding, decided, ahead, since, silent>>
pushVars       == <<key, memory, locked, keys, asker, gen, last, subs, sending>>

S == INSTANCE Sessions WITH now <- today, MaxTime <- MaxClock, row <- session
F == INSTANCE Family
E == INSTANCE EReader WITH Book <- ReaderBook, None <- NoBook
N == INSTANCE Nightstand WITH Book <- QueueBook, now <- minute, MaxNow <- MaxMinute
R == INSTANCE Requests WITH Book <- WishBook
P == INSTANCE Push WITH User <- Reader, saved <- key

allVars == <<running, vars, sessionVars, familyVars, ereaderVars, nightstandVars, requestVars, pushVars>>

MCInit ==
    /\ running \in {"accounts", "sessions", "family", "ereader", "nightstand", "requests", "push"}
    /\ Init /\ S!Init /\ F!Init /\ E!Init /\ N!Init /\ R!Init /\ P!Init
    /\ running # "sessions" => life = 4
    /\ running # "family" => ~parent
    /\ running # "requests" => list = "covers"

MCNext ==
    /\ UNCHANGED running
    /\ \/ running = "accounts"   /\ Next   /\ UNCHANGED <<sessionVars, familyVars, ereaderVars, nightstandVars, requestVars, pushVars>>
       \/ running = "sessions"   /\ S!Next /\ UNCHANGED <<vars, familyVars, ereaderVars, nightstandVars, requestVars, pushVars>>
       \/ running = "family"     /\ F!Next /\ UNCHANGED <<vars, sessionVars, ereaderVars, nightstandVars, requestVars, pushVars>>
       \/ running = "ereader"    /\ E!Next /\ UNCHANGED <<vars, sessionVars, familyVars, nightstandVars, requestVars, pushVars>>
       \/ running = "nightstand" /\ N!Next /\ UNCHANGED <<vars, sessionVars, familyVars, ereaderVars, requestVars, pushVars>>
       \/ running = "requests"   /\ R!Next /\ UNCHANGED <<vars, sessionVars, familyVars, ereaderVars, nightstandVars, pushVars>>
       \/ running = "push"       /\ P!Next /\ UNCHANGED <<vars, sessionVars, familyVars, ereaderVars, nightstandVars, requestVars>>

\* For TLC: every file is the library's file of one book.
OneBook == [d \in Doc |-> CHOOSE b \in ReaderBook : TRUE]

MCSpec == MCInit /\ [][MCNext]_allVars

-----------------------------------------------------------------------------

\* Sign-ins: who comes back within half of a sign-in's length is still signed in, and a
\* sign-in that was ended stays ended.
SignInsLast ==
    running = "sessions" => S!TypeOK /\ S!StaysSignedIn /\ S!EndedStaysEnded

\* The PIN: wrong answers past the allowed number are at most one of each request that was
\* on its way.
LockHolds ==
    running = "family" => F!TypeOK /\ F!LockHolds

\* What the person says a file is stands, whatever report or look-up began before.
ChoiceSurvives ==
    running = "ereader" => E!TypeOK /\ E!ChoiceSurvives

\* The Nightstand: no report moves a book back, takes it off or shows it again; reading of
\* before the person's last word moves nothing; a book opened since does not go on waiting.
ReportsMoveOn ==
    /\ [](running = "nightstand" => N!TypeOK)
    /\ [][running = "nightstand" => N!NeverBack /\ N!OldReadingMovesNothing /\ N!OpenedMovesAlong]_allVars

\* Requests: one is closed once, and what waits for the parents is in the bell until somebody
\* saw it, unless it could not be written or as many others came as the bell keeps.
RequestsAreKept ==
    /\ [](running = "requests" => R!TypeOK /\ R!WaitingIsTold)
    /\ [][running = "requests" => R!DecidedStands]_allVars

\* Phones: browsers subscribe with the key that is saved, and only its push service or its
\* person ends a device's notifications.
PhonesAreServed ==
    /\ [](running = "push" => P!TypeOK /\ P!OneKey)
    /\ [][running = "push" => P!LiveStays]_allVars
=============================================================================
