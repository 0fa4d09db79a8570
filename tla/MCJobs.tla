------------------------------- MODULE MCJobs -------------------------------
(* The long jobs that share the library with its people, side by side for  *)
(* TLC: format cleanup, removals from Calibre, shelves and their fills,    *)
(* and Discover. They share no state here, so `running` says which of them *)
(* takes this behaviour's steps, and the others stay as they began.        *)
EXTENDS Naturals, Sequences, FiniteSets, TLC

CONSTANTS
    CleanEntry, Format, Epub, Cleaner,
    CalEntry, CalBook, CopyOf, Elsewhere, Shared, User, Req, Batch, MaxRows, MaxNotices,
    ShelfBook, Coll, Season, None, MaxIdeas,
    ListedBook, Weekly, Fallback, Classics, Answers, Caller, Loop, Week, Daily, MaxDay

ASSUME CleanupAssumption == CleanEntry # {} /\ Epub \in Format

ASSUME RemovalAssumption ==
    /\ CopyOf \in [CalEntry -> CalBook] /\ Shared \subseteq CalEntry
    /\ MaxRows \in Nat /\ MaxNotices \in Nat \ {0}

\* Shelves are told apart from each other, from no shelf, and from what the ideas' loop does.
ASSUME ShelfAssumption ==
    /\ IsFiniteSet(Coll)
    /\ Season \notin Coll /\ None \notin Coll \cup {Season} /\ Coll \cap {"idle", "asked"} = {}

\* There is a list to ask for, and no list has the name of another step.
ASSUME ListAssumption ==
    LET Lists == {Weekly[i] : i \in DOMAIN Weekly} IN
    /\ Weekly \in Seq(Lists) /\ Weekly # <<>>
    /\ Lists \cap {"idle", "begin", "fill", "classics", "choose", "count", "end"} = {}
    /\ IsFiniteSet(ListedBook) /\ Week \in Nat /\ Daily \in Nat /\ MaxDay \in Nat

\* Values for TLC: each of two entries has a book of its own, and one of two lists has books.
TwoCopies  == ("e1" :> "b1") @@ ("e2" :> "b2")
TwoLists   == <<"n1", "n2">>
TwoAnswers == ("n1" :> {"b1", "b2"}) @@ ("n2" :> {}) @@ ("o" :> {"b1"}) @@ ("cl" :> {"b2"})

VARIABLES
    running,
    has, seen, same, bin, log, job, stop, jobs, blind,
    calibre, theirs, served, listed, rows, asking, removal, ahead, since, silent,
    fresh, season, build, coll, updated, rejects, fill, ideas, taken, overtook,
    today, items, status, refreshing, last, nytLast, rated, refused, at, fetched, chosen, sent

formatVars   == <<has, seen, same, bin, log, job, stop, jobs, blind>>
deleteVars   == <<calibre, theirs, served, listed, rows, asking, removal, ahead, since, silent>>
shelfVars    == <<fresh, season, build, coll, updated, rejects, fill, ideas, taken, overtook>>
discoverVars == <<today, items, status, refreshing, last, nytLast, rated, refused, at, fetched, chosen, sent>>

F == INSTANCE Formats WITH Entry <- CleanEntry, Admin <- Cleaner, running <- job, run <- jobs
D == INSTANCE Deletes WITH Entry <- CalEntry, Book <- CalBook, Of <- CopyOf, run <- removal
S == INSTANCE Shelves WITH Book <- ShelfBook
L == INSTANCE Discover WITH Book <- ListedBook, NYT <- Weekly, On <- Answers, running <- refreshing, notice <- refused

vars == <<running, formatVars, deleteVars, shelfVars, discoverVars>>

Init ==
    /\ running \in {"formats", "deletes", "shelves", "discover"}
    /\ F!Init /\ D!Init /\ S!Init /\ L!Init
    /\ running # "formats" => same

Next ==
    /\ UNCHANGED running
    /\ \/ running = "formats"  /\ F!Next /\ UNCHANGED <<deleteVars, shelfVars, discoverVars>>
       \/ running = "deletes"  /\ D!Next /\ UNCHANGED <<formatVars, shelfVars, discoverVars>>
       \/ running = "shelves"  /\ S!Next /\ UNCHANGED <<formatVars, deleteVars, discoverVars>>
       \/ running = "discover" /\ L!Next /\ UNCHANGED <<formatVars, deleteVars, shelfVars>>

Spec == Init /\ [][Next]_vars

-----------------------------------------------------------------------------

\* Formats: jobs run one at a time, and without a view of the recycle bin one file is
\* removed and no more; every book keeps a format that is kept, and no format goes or comes
\* in a library that is not NovelCheck's.
CleanupIsSafe ==
    /\ [](running = "formats" => F!TypeOK /\ F!OneJob /\ F!OneFileBlind)
    /\ [][running = "formats" => F!KeptFormatStays /\ F!OtherLibraryUntouched]_vars

\* Removals: what waits for review is in the bell until somebody saw it, unless it could not be
\* written or as many others came as the bell keeps; requests are marked deleted when none of the
\* numbers is left in the library that was served; and no entry goes from another library.
RemovalIsSafe ==
    /\ [](running = "deletes" => D!TypeOK /\ D!WaitingIsTold)
    /\ [][running = "deletes" => D!DeletedMeansRemoved /\ D!OtherLibraryStays]_vars

\* Shelves: a book taken off a shelf stays off until a person puts it back.
RejectedStaysOff ==
    running = "shelves" => S!TypeOK /\ S!RejectedStaysOff

\* Discover: outside lists are fetched by one refresh at a time, and a day's refreshes stay
\* within the day's allowance of ratings.
DailyAllowance ==
    running = "discover" => L!TypeOK /\ L!OneRefresh /\ L!DailyAllowance
=============================================================================
