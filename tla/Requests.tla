------------------------------ MODULE Requests ------------------------------
(***************************************************************************)
(* What people ask of the parents and how the bell tells them: books for   *)
(* the wishlist, wrong covers, problems (store/wishlist.go, covers.go,     *)
(* problems.go, notifications.go and their handlers). A request is saved,  *)
(* then a notice is written; a decision is saved, then what is left is     *)
(* counted, then the notice is cleared. Each is a statement of its own.    *)
(***************************************************************************)
EXTENDS Bell, FiniteSets

CONSTANTS
    Person, Book,
    Parent,      \* those who decide
    MaxRows      \* bound: requests ever made

List == {"wishlist", "covers", "problems"}

VARIABLES
    list,        \* the list that is followed; the notices of the others are among the bell's others
    owned,       \* the books a library has
    rows,        \* the requests: n is the row's id
    asking,      \* each person: where a request is on its way
    deciding,    \* each parent: where a decision is on its way
    decided      \* history: what each closed row was closed as

vars == <<list, owned, rows, asking, deciding, decided, bellVars>>

Open   == {"wanted", "approved", "open"}
Closed == {"acquired", "declined", "done", "withdrawn"}
Row    == [n : 1..MaxRows, who : Person, book : Book, status : Open \cup Closed, told : BOOLEAN]
Asked  == [at : {"idle", "insert", "notify"}, book : Book]
Answer == {"idle", "count", "resolve"}

TypeOK ==
    /\ list \in List
    /\ owned \subseteq Book
    /\ rows \subseteq Row
    /\ asking \in [Person -> Asked]
    /\ deciding \in [Parent -> Answer]
    /\ DOMAIN decided = 1..MaxRows /\ \A n \in 1..MaxRows : decided[n] \in Closed \cup {"open"}
    /\ BellOK

Init ==
    /\ list \in List
    /\ owned = {} /\ rows = {} /\ Empty
    /\ asking = [p \in Person |-> [at |-> "idle", book |-> CHOOSE b \in Book : TRUE]]
    /\ deciding = [a \in Parent |-> "idle"]
    /\ decided = [n \in 1..MaxRows |-> "open"]

OpenRows == {r \in rows : r.status \in Open}
\* PendingWishes counts what no parent has looked at; an approved wish is still open.
Waiting  == {r \in OpenRows : r.status # "approved"}

-----------------------------------------------------------------------------
(* Asking.                                                                 *)

Ask(p, l, b) ==
    /\ list = l /\ asking[p].at = "idle"
    /\ asking' = [asking EXCEPT ![p] = [at |-> "insert", book |-> b]]
    /\ UNCHANGED <<list, owned, rows, deciding, decided, bellVars>>

\* A wish is for a book the family does not have.
AddWish(p, b) == b \notin owned /\ Ask(p, "wishlist", b)
ReportCover(p, b)   == Ask(p, "covers", b)
ReportProblem(p, b) == Ask(p, "problems", b)

Mine(p, b) == {r \in OpenRows : r.who = p /\ r.book = b}

New(p, b, told) ==
    [n |-> Cardinality(rows) + 1, who |-> p, book |-> b, told |-> told,
     status |-> IF list = "wishlist" THEN "wanted" ELSE "open"]

\* One open wish, and one open cover report, of a person and a book: a second
\* wish is refused, a second report only changes the note.
Again(p) == list # "problems" /\ Mine(p, asking[p].book) # {}

Insert(p) ==
    /\ asking[p].at = "insert"
    /\ IF Again(p) THEN rows' = rows ELSE Cardinality(rows) < MaxRows /\ rows' = rows \cup {New(p, asking[p].book, TRUE)}
    /\ asking' = [asking EXCEPT ![p].at = IF Again(p) /\ list = "wishlist" THEN "idle" ELSE "notify"]
    /\ UNCHANGED <<list, owned, deciding, decided, bellVars>>

\* A suggestion that is wished for goes on the list, and no notice is written.
WishSuggestion(p, b) ==
    /\ list = "wishlist" /\ b \notin owned /\ Cardinality(rows) < MaxRows /\ Mine(p, b) = {}
    /\ rows' = rows \cup {New(p, b, FALSE)}
    /\ UNCHANGED <<list, owned, asking, deciding, decided, bellVars>>

\* A statement of its own, which may fail. Its other half is the push (Push).
Notify(p) ==
    /\ asking[p].at = "notify"
    /\ Written(\E a \in Parent : deciding[a] = "resolve") \/ NotWritten
    /\ asking' = [asking EXCEPT ![p].at = "idle"]
    /\ UNCHANGED <<list, owned, rows, deciding, decided>>

-----------------------------------------------------------------------------
(* Deciding.                                                               *)

Close(s, st) ==
    /\ rows' = {IF r \in s THEN [r EXCEPT !.status = st] ELSE r : r \in rows}
    /\ decided' = [n \in 1..MaxRows |-> IF st \in Closed /\ (\E r \in s : r.n = n) THEN st ELSE decided[n]]

\* DecideWish and CloseProblemReport: the row the page names, if it is still open.
SetOpen(r, st) == r.status \in Open /\ Close({r}, st)

Begin(a) == deciding' = [deciding EXCEPT ![a] = "count"]

DecideWish(a, r) ==
    /\ list = "wishlist" /\ deciding[a] = "idle"
    /\ \E st \in {"approved", "declined", "acquired"} : SetOpen(r, st)
    /\ Begin(a)
    /\ UNCHANGED <<list, owned, asking, bellVars>>

CloseProblemReport(a, r) ==
    /\ list = "problems" /\ deciding[a] = "idle"
    /\ SetOpen(r, "done")
    /\ Begin(a)
    /\ UNCHANGED <<list, owned, asking, bellVars>>

\* Everybody's report of the book at once.
CloseCoverReports(a, r) ==
    LET all == {x \in OpenRows : x.book = r.book} IN
    /\ list = "covers" /\ deciding[a] = "idle" /\ all # {}
    /\ Close(all, "done")
    /\ Begin(a)
    /\ UNCHANGED <<list, owned, asking, bellVars>>

Count(a) ==
    /\ deciding[a] = "count"
    /\ deciding' = [deciding EXCEPT ![a] = IF Waiting = {} THEN "resolve" ELSE "idle"]
    /\ UNCHANGED <<list, owned, rows, asking, decided, bellVars>>

ResolveNotice(a) ==
    /\ deciding[a] = "resolve"
    /\ Resolve
    /\ deciding' = [deciding EXCEPT ![a] = "idle"]
    /\ UNCHANGED <<list, owned, rows, asking, decided>>

-----------------------------------------------------------------------------

\* The one who wished may take it back while it is open.
RemoveWish(p, b) ==
    /\ list = "wishlist" /\ Mine(p, b) # {}
    /\ Close(Mine(p, b), "withdrawn")
    /\ UNCHANGED <<list, owned, asking, deciding, bellVars>>

\* Opening the wishlist: what has arrived is marked so.
Wishes ==
    LET here == {r \in OpenRows : r.book \in owned} IN
    /\ list = "wishlist" /\ here # {}
    /\ Close(here, "acquired")
    /\ UNCHANGED <<list, owned, asking, deciding, bellVars>>

\* A book arrives in a library, or leaves it; only a wish asks for that.
Arrive(b) ==
    /\ list = "wishlist"
    /\ owned' = IF b \in owned THEN owned \ {b} ELSE owned \cup {b}
    /\ UNCHANGED <<list, rows, asking, deciding, decided, bellVars>>

\* People read and dismiss notices, and other parts write theirs.
Others ==
    /\ BellNext
    /\ UNCHANGED <<list, owned, rows, asking, deciding, decided>>

\* The program ends: what was on its way to the bell does not get there.
Stop ==
    /\ asking' = [p \in Person |-> [asking[p] EXCEPT !.at = "idle"]]
    /\ deciding' = [a \in Parent |-> "idle"]
    /\ IF \E p \in Person : asking[p].at = "notify" THEN NotWritten ELSE UNCHANGED bellVars
    /\ UNCHANGED <<list, owned, rows, decided>>

Next ==
    \/ \E p \in Person :
         \/ \E b \in Book : WishSuggestion(p, b) \/ RemoveWish(p, b) \/ AddWish(p, b) \/ ReportCover(p, b) \/ ReportProblem(p, b)
         \/ Insert(p) \/ Notify(p)
    \/ \E a \in Parent :
         \/ \E r \in rows : DecideWish(a, r) \/ CloseProblemReport(a, r) \/ CloseCoverReports(a, r)
         \/ Count(a) \/ ResolveNotice(a)
    \/ Wishes
    \/ \E b \in Book : Arrive(b)
    \/ Others \/ Stop

Spec == Init /\ [][Next]_vars

-----------------------------------------------------------------------------

\* Parents decide from pages of any age, a wish is taken back, and opening the list marks
\* what arrived: a request is closed once, and stays closed as it was.
DecidedStands == \A n \in 1..MaxRows : decided[n] # "open" => decided'[n] = decided[n]

\* Whoever asked and had a notice to write is in the bell until nothing of the list waits,
\* somebody saw it, it could not be written, or as many others were written since as the bell
\* keeps, though notices are cleared after counting.
WaitingIsTold ==
    (\E r \in Waiting : r.told) => Told \/ \E p \in Person : asking[p].at = "notify"
=============================================================================
