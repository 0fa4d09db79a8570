------------------------------ MODULE Deletes ------------------------------
(***************************************************************************)
(* Books leave Calibre (store/deletes.go, api/deletes_handlers.go,         *)
(* calibresrv_handlers.go, calibresrv/books.go): anyone asks to delete a   *)
(* book, an admin decides, and NovelCheck removes the book's entries       *)
(* through the Content server; or an admin removes every book a Hide       *)
(* filter catches, after a review of the list. A removal is a conversation *)
(* with Calibre, batch by batch, while people ask, cancel and rate.        *)
(***************************************************************************)
EXTENDS Bell, FiniteSets

CONSTANTS
    Entry,      \* Calibre's entries of its own library
    Book,       \* NovelCheck's books
    Of,         \* the book each entry is a copy of
    Elsewhere,  \* books with a copy outside Calibre too
    Shared,     \* the numbers of these that another library has, as other books
    User,
    Req,        \* the requests served at once
    Batch,      \* entries in one call (200 in the code)
    MaxRows     \* bound: requests to delete there ever are

VARIABLES
    calibre,    \* entries Calibre has
    theirs,     \* the numbers the other library has
    served,     \* the library in the settings of the Content server
    listed,     \* entries NovelCheck has as copies
    rows,       \* delete_requests
    asking,     \* people whose request is saved and whose notice is not written yet
    run         \* each request: where it is, what it has read

vars == <<calibre, theirs, served, listed, rows, asking, run, bellVars>>

Library == {"same", "other"}
Row == [book : Book, user : User, st : {"pending", "lost", "deleted", "closed"}]
Rows == 1..MaxRows
Idle == [at |-> "idle", kind |-> "delete", want |-> {}, left |-> {}, ids |-> {}, review |-> {}, on |-> "same"]

TypeOK ==
    /\ calibre \subseteq Entry /\ theirs \subseteq Entry /\ listed \subseteq Entry
    /\ served \in Library
    /\ DOMAIN rows \subseteq Rows /\ \A i \in DOMAIN rows : rows[i] \in Row
    /\ asking \subseteq User /\ BellOK
    /\ \A r \in Req : /\ run[r].at \in {"idle", "reviewed", "ids", "titles", "remove", "sync", "mark", "count", "resolve"}
                      /\ run[r].kind \in {"delete", "hide"} /\ run[r].on \in Library
                      /\ run[r].want \subseteq Entry /\ run[r].left \subseteq Entry /\ run[r].review \subseteq Entry
                      /\ run[r].ids \subseteq Rows

Init ==
    /\ calibre = Entry /\ listed = Entry
    /\ theirs = Shared /\ served = "same"
    /\ rows = [i \in {} |-> 0]
    /\ asking = {} /\ Empty
    /\ run = [r \in Req |-> Idle]

There(b) == b \in Elsewhere \/ \E e \in listed : Of[e] = b
Pending(b) == {i \in DOMAIN rows : rows[i].st = "pending" /\ rows[i].book = b}
PendingDeletes == {i \in DOMAIN rows : rows[i].st = "pending"}
SetRows(ids, st) == rows' = [i \in DOMAIN rows |-> IF i \in ids THEN [rows[i] EXCEPT !.st = st] ELSE rows[i]]
Go(r, at) == run' = [run EXCEPT ![r].at = at]

-----------------------------------------------------------------------------
(* Others.                                                                 *)

CalibreRemoves(e) ==
    /\ e \in calibre /\ calibre' = calibre \ {e}
    /\ UNCHANGED <<theirs, served, listed, rows, asking, run, bellVars>>

SaveServer(l) ==
    /\ l # served /\ served' = l
    /\ UNCHANGED <<calibre, theirs, listed, rows, asking, run, bellVars>>

\* A book without a copy goes, and its requests lose it.
Read ==
    /\ listed' = calibre
    /\ rows' = [i \in DOMAIN rows |-> IF rows[i].st = "pending" /\ rows[i].book \notin Elsewhere
                                            /\ ~\E e \in calibre : Of[e] = rows[i].book
                                         THEN [rows[i] EXCEPT !.st = "lost"] ELSE rows[i]]

Sync ==
    /\ Read
    /\ UNCHANGED <<calibre, theirs, served, asking, run, bellVars>>

-----------------------------------------------------------------------------
(* People.                                                                 *)

\* Asking again changes the reason only. Of several books at once (bulk_handlers.go) the notice
\* is written after all.
RequestDelete(b, u) ==
    /\ There(b)
    /\ \/ /\ \E i \in Pending(b) : rows[i].user = u
          /\ UNCHANGED rows
       \/ /\ \A i \in Pending(b) : rows[i].user # u
          /\ \E i \in Rows : /\ DOMAIN rows = 1..(i - 1)
                             /\ rows' = [j \in 1..i |-> IF j = i THEN [book |-> b, user |-> u, st |-> "pending"] ELSE rows[j]]
    /\ asking' = asking \cup {u}
    /\ UNCHANGED <<calibre, theirs, served, listed, run, bellVars>>

\* A statement of its own, which may fail.
Notify(u) ==
    /\ u \in asking /\ asking' = asking \ {u}
    /\ Written(\E r \in Req : run[r].at = "resolve") \/ NotWritten
    /\ UNCHANGED <<calibre, theirs, served, listed, rows, run>>

CancelDelete(r, b, u) ==
    /\ run[r].at = "idle"
    /\ \E i \in Pending(b) : rows[i].user = u /\ SetRows({i}, "closed")
    /\ Go(r, "count")
    /\ UNCHANGED <<calibre, theirs, served, listed, asking, bellVars>>

Count(r) ==
    /\ run[r].at = "count"
    /\ IF PendingDeletes = {} THEN Go(r, "resolve") ELSE run' = [run EXCEPT ![r] = Idle]
    /\ UNCHANGED <<calibre, theirs, served, listed, rows, asking, bellVars>>

ResolveDeleteNotice(r) ==
    /\ run[r].at = "resolve"
    /\ Resolve
    /\ run' = [run EXCEPT ![r] = Idle]
    /\ UNCHANGED <<calibre, theirs, served, listed, rows, asking>>

\* "dismiss" and "done".
DecideDeletes(r, bs) ==
    /\ run[r].at = "idle"
    /\ SetRows(UNION {Pending(b) : b \in bs}, "closed")
    /\ Go(r, "count")
    /\ UNCHANGED <<calibre, theirs, served, listed, asking, bellVars>>

-----------------------------------------------------------------------------
(* An admin removes books: the requests' books, or what the filter shows.  *)

\* Books that are not in Calibre are left pending.
HandleDecideDeletes(r, bs) ==
    LET want == {e \in listed : Of[e] \in bs} IN
    /\ run[r].at = "idle"
    /\ run' = [run EXCEPT ![r] = [Idle EXCEPT !.at = IF want = {} THEN "count" ELSE "ids", !.want = want]]
    /\ UNCHANGED <<calibre, theirs, served, listed, rows, asking, bellVars>>

\* Before the books disappear.
PendingRequestIDs(r) ==
    /\ run[r].at = "ids"
    /\ run' = [run EXCEPT ![r].at = "titles", ![r].ids = UNION {Pending(Of[e]) : e \in run[r].want}]
    /\ UNCHANGED <<calibre, theirs, served, listed, rows, asking, bellVars>>

\* Ratings and flags change what the filter catches from one look to the next.
CalibreMatches(caught) == {e \in listed : Of[e] \in caught}

Review(r, caught) ==
    /\ run[r].at = "idle" /\ CalibreMatches(caught) # {}
    /\ run' = [run EXCEPT ![r] = [Idle EXCEPT !.at = "reviewed", !.kind = "hide", !.review = CalibreMatches(caught)]]
    /\ UNCHANGED <<calibre, theirs, served, listed, rows, asking, bellVars>>

\* The list is made again; what is compared is its length.
HandleCalibreRemove(r, caught) ==
    LET now == CalibreMatches(caught) IN
    /\ run[r].at = "reviewed"
    /\ run' = [run EXCEPT ![r] = IF Cardinality(now) = Cardinality(run[r].review)
                                   THEN [@ EXCEPT !.at = "titles", !.want = now, !.review = {}] ELSE Idle]
    /\ UNCHANGED <<calibre, theirs, served, listed, rows, asking, bellVars>>

Serves(l) == IF l = "same" THEN calibre ELSE theirs

\* Mutant: what has another title is left out, as what is gone is.
TitlesSkip(r) ==
    /\ run[r].at = "titles"
    /\ run' = [run EXCEPT ![r].at = "remove", ![r].on = served, ![r].left = run[r].want \cap Serves(served)]
    /\ UNCHANGED <<calibre, theirs, served, listed, rows, asking, bellVars>>

\* Every title is compared before anything is removed; an entry Calibre has no more is skipped,
\* one of another title, or no answer, ends the request.
Titles(r) ==
    /\ run[r].at = "titles"
    /\ \/ /\ served = "same" \/ run[r].want \cap theirs = {}
          /\ run' = [run EXCEPT ![r].at = "remove", ![r].on = served, ![r].left = run[r].want \cap Serves(served)]
       \/ run' = [run EXCEPT ![r] = Idle]
    /\ UNCHANGED <<calibre, theirs, served, listed, rows, asking, bellVars>>

Taken(r, part) ==
    /\ part # {} /\ part \subseteq run[r].left
    /\ Cardinality(part) = Batch \/ (part = run[r].left /\ Cardinality(part) < Batch)
    /\ calibre' = IF run[r].on = "same" THEN calibre \ part ELSE calibre
    /\ theirs'  = IF run[r].on = "same" THEN theirs ELSE theirs \ part

\* Batch by batch; one that fails ends the request, what was removed stays removed, and nothing
\* is marked. A batch whose answer is lost fails too.
Remove(r) ==
    /\ run[r].at = "remove"
    /\ \/ run[r].left = {} /\ Go(r, "sync") /\ UNCHANGED <<calibre, theirs>>
       \/ \E part \in SUBSET run[r].left : Taken(r, part) /\ (run' = [run EXCEPT ![r].left = @ \ part] \/ run' = [run EXCEPT ![r] = Idle])
       \/ run[r].left # {} /\ run' = [run EXCEPT ![r] = Idle] /\ UNCHANGED <<calibre, theirs>>
    /\ UNCHANGED <<served, listed, rows, asking, bellVars>>

\* Syncer.Run, which may fail.
SyncAfter(r) ==
    /\ run[r].at = "sync"
    /\ run' = [run EXCEPT ![r] = IF run[r].kind = "hide" THEN Idle ELSE [@ EXCEPT !.at = "mark"]]
    /\ Read \/ UNCHANGED <<listed, rows>>
    /\ UNCHANGED <<calibre, theirs, served, asking, bellVars>>

\* By number, so the ones that lost their book are closed too; one withdrawn meanwhile is not.
DecideRequests(r) ==
    /\ run[r].at = "mark"
    /\ SetRows({i \in run[r].ids : rows[i].st \in {"pending", "lost"}}, "deleted")
    /\ run' = [run EXCEPT ![r] = [Idle EXCEPT !.at = "count"]]
    /\ UNCHANGED <<calibre, theirs, served, listed, asking, bellVars>>

\* People read and dismiss notices, and other parts write theirs.
Others ==
    /\ BellNext
    /\ UNCHANGED <<calibre, theirs, served, listed, rows, asking, run>>

\* The program ends: no request goes on, and what was on its way to the bell does not get there.
Stop ==
    /\ run' = [r \in Req |-> Idle] /\ asking' = {}
    /\ IF asking # {} THEN NotWritten ELSE UNCHANGED bellVars
    /\ UNCHANGED <<calibre, theirs, served, listed, rows>>

Next ==
    \/ \E e \in Entry : CalibreRemoves(e)
    \/ \E l \in Library : SaveServer(l)
    \/ \E u \in User : Notify(u) \/ \E b \in Book : RequestDelete(b, u)
    \/ Sync \/ Others \/ Stop
    \/ \E r \in Req :
         \/ \E b \in Book, u \in User : CancelDelete(r, b, u)
         \/ \E bs \in SUBSET Book : bs # {} /\ (DecideDeletes(r, bs) \/ HandleDecideDeletes(r, bs))
         \/ PendingRequestIDs(r) \/ \E bs \in SUBSET Book : Review(r, bs) \/ HandleCalibreRemove(r, bs)
         \/ Titles(r) \/ Remove(r) \/ SyncAfter(r)
         \/ DecideRequests(r) \/ Count(r) \/ ResolveDeleteNotice(r)

Spec == Init /\ [][Next]_vars

-----------------------------------------------------------------------------

\* "Nothing is marked; the error explains why": when requests are marked deleted, none of the
\* numbers that were to go is left in the library the Content server served, every batch of them,
\* whatever failed on the way and whoever asked, cancelled or synced meanwhile. That may be
\* another library, which never had them.
DeletedMeansRemoved == \A r \in Req : DecideRequests(r) => run[r].want \cap Serves(run[r].on) = {}

\* "The wrong library can never be touched", whichever of the two is saved as the Content
\* server's while a removal is on its way, and though their numbers partly agree.
OtherLibraryStays == theirs' = theirs

\* What waits for review is in the bell, until somebody saw it or as many others came as the
\* bell keeps; but for a notice that could not be written, and what is asked between a count of
\* none and the closing of the notice.
WaitingIsTold == PendingDeletes # {} => Told \/ asking # {}
=============================================================================
