------------------------------ MODULE MCTools ------------------------------
(* The starts of the process and safe mode, what parents and admins do     *)
(* with entries, titles, texts and lists of books, and two admins with the *)
(* tunnel, side by side for TLC: the parts share no state, so `running`    *)
(* says which of them takes this behaviour's steps, and the others stay as *)
(* they began.                                                             *)
EXTENDS SafeMode, Sequences, TLC

CONSTANTS
    Titled, Theirs, Typed, MaxChanges, Pusher,
    Copy, CopyOf, FilesOf, SizeOf, Remover, Batch,
    Headings, MaxWords, MaxSections, Contexts, SystemTokens,
    LocalWordsPerPart, CloudWordsPerPart, minWordsPerPart, answerRoom, marginTokens, partTries, Around,
    Lists, Sites, maxMore, maxTotal, maxPage, Reach, MaxBooks,
    Saver, MaxConnectors

ASSUME TitlesAssumption ==
    /\ Theirs \subseteq {"numbered", "tidy", "other", "gone"} /\ Typed \subseteq {"numbered", "tidy", "other"}
    /\ MaxChanges \in Nat

ASSUME CopiesAssumption ==
    /\ Copy \subseteq Nat /\ IsFiniteSet(Copy)
    /\ \A e \in Copy : IsFiniteSet(FilesOf[e]) /\ SizeOf[e] \in Nat

\* A part is at least a word, a try may follow one that failed.
ASSUME PartsAssumption ==
    /\ {MaxWords, MaxSections, SystemTokens, answerRoom, marginTokens, Around} \subseteq Nat /\ Contexts \subseteq Nat
    /\ {LocalWordsPerPart, CloudWordsPerPart, minWordsPerPart} \subseteq Nat \ {0}
    /\ partTries \in Nat /\ partTries > 1

\* A card of an event's list, and how a site gives out the list.
OneCard == [heading : STRING, words : STRING, asin : STRING, author : STRING, amazon : BOOLEAN]
OneSite == [kind : {"none", "offset", "page", "links"}, first : Nat, chunk : Nat \ {0},
            tells : BOOLEAN, gives : BOOLEAN, round : BOOLEAN, home : BOOLEAN]

ASSUME PagesAssumption ==
    /\ Lists \subseteq Seq(OneCard) /\ Sites \subseteq OneSite
    /\ {maxMore, maxTotal, maxPage} \subseteq Nat \ {0} /\ {Reach, MaxBooks} \subseteq Nat

ASSUME TunnelAssumption == MaxConnectors \in Nat \ {0}

VARIABLES
    running,
    entries, theirs, served, book, push, clock, others, foreign, mixed, renamed, wrong,
    copies, rowsOf, request, touched, overlapped, followed,
    sections, context, parts, results, try, scan, onlyLong,
    list, site, fetch, next, requests, pages, got, brought, cutShort,
    enabled, token, manager, tunnel, sup, saving, notice, twoSaves

titleVars  == <<entries, theirs, served, book, push, clock, others, foreign, mixed, renamed, wrong>>
copyVars   == <<copies, rowsOf, request, touched, overlapped, followed>>
partVars   == <<sections, context, parts, results, try, scan, onlyLong>>
pageVars   == <<list, site, fetch, next, requests, pages, got, brought, cutShort>>
tunnelVars == <<enabled, token, manager, tunnel, sup, saving, notice, twoSaves>>

\* Three copies of one book and a single one of another: the largest file is
\* not the best format.
TwoBooks  == [e \in 1..4 |-> IF e < 4 THEN "dune" ELSE "emma"]
TheFiles  == [e \in 1..4 |-> IF e = 1 THEN {"pdf"} ELSE IF e = 2 THEN {"epub"} ELSE {"azw3", "mobi"}]
TheSizes  == [e \in 1..4 |-> IF e = 1 THEN 3 ELSE e]

\* A list of five books, one with repeats of every kind, one of buttons below headings,
\* with a link to elsewhere and a title that is too short, and one of several buttons
\* below one heading, the last too far from it.
Card(heading, words, asin, author) == [heading |-> heading, words |-> words, asin |-> asin, author |-> author, amazon |-> TRUE]
Listed(asin, words, author) == Card("", words, asin, author)
Elsewhere == [Card("more", "more", "", "") EXCEPT !.amazon = FALSE]
EventLists ==
    {<<>>,
     <<Listed("A", "tess", "x"), Listed("B", "ulys", ""), Listed("", "vera", ""), Listed("D", "wild", "y"), Listed("", "zuri", "")>>,
     <<Listed("A", "tess", ""), Listed("A", "ulys", "x"), Listed("", "tess", ""), Listed("B", "tess", ""), Listed("C", "wild", "y")>>,
     <<Card("tess", "", "A", ""), Elsewhere, Card("ulys", "", "B", "x"), Listed("C", "t", ""), Card("vera", "", "", "")>>,
     <<Card("tess", "", "A", ""), Card("", "", "B", "x"), Card("", "", "", ""), Listed("D", "vera", "")>>}
EventSites == [kind : {"none", "offset", "page", "links"}, first : 0..3, chunk : 1..3,
               tells : BOOLEAN, gives : BOOLEAN, round : BOOLEAN, home : BOOLEAN]

T == INSTANCE TitleFixes WITH Book <- Titled, Admin <- Pusher, MaxEdits <- MaxChanges, calibre <- entries
D == INSTANCE Duplicates WITH Entry <- Copy, Of <- CopyOf, Admin <- Remover,
        calibre <- copies, listed <- rowsOf, mixed <- overlapped
P == INSTANCE ScanParts WITH Titles <- Headings, at <- scan
E == INSTANCE EventPages WITH at <- fetch, asked <- requests, links <- pages
U == INSTANCE Tunnel WITH owner <- manager, state <- tunnel, overlapped <- twoSaves

allVars == <<running, vars, titleVars, copyVars, partVars, pageVars, tunnelVars>>

NoSite == [kind |-> "none", first |-> 0, chunk |-> 1, tells |-> FALSE, gives |-> FALSE, round |-> FALSE, home |-> TRUE]

\* A part that does not run has one way to begin.
Still ==
    /\ running # "titles" => theirs = [b \in Titled |-> "other"]
    /\ running # "parts"  => sections = <<>> /\ context = 0
    /\ running # "pages"  => list = <<>> /\ site = NoSite

MCInit ==
    /\ running \in {"starts", "titles", "copies", "parts", "pages", "tunnel"}
    /\ Still
    /\ Init /\ T!Init /\ D!Init /\ P!Init /\ E!Init /\ U!Init

MCNext ==
    /\ UNCHANGED running
    /\ \/ running = "starts" /\ Next   /\ UNCHANGED <<titleVars, copyVars, partVars, pageVars, tunnelVars>>
       \/ running = "titles" /\ T!Next /\ UNCHANGED <<vars, copyVars, partVars, pageVars, tunnelVars>>
       \/ running = "copies" /\ D!Next /\ UNCHANGED <<vars, titleVars, partVars, pageVars, tunnelVars>>
       \/ running = "parts"  /\ P!Next /\ UNCHANGED <<vars, titleVars, copyVars, pageVars, tunnelVars>>
       \/ running = "pages"  /\ E!Next /\ UNCHANGED <<vars, titleVars, copyVars, partVars, tunnelVars>>
       \/ running = "tunnel" /\ U!Next /\ UNCHANGED <<vars, titleVars, copyVars, partVars, pageVars>>

MCSpec == MCInit /\ [][MCNext]_allVars

-----------------------------------------------------------------------------

\* Starts: a crash loop ends in safe mode.
LoopsAreCaught ==
    running = "starts" => TypeOK /\ CrashLoopIsCaught

\* Titles: our own edit does not put a rated book on offer for a new rating, a change by
\* somebody else does, and a library with other books under the chosen numbers is not changed.
TidyingIsNeutral ==
    running = "titles" => T!TypeOK /\ T!OwnEditNotOffered /\ T!OthersEditOffered /\ T!OtherLibraryUntouched

\* Duplicates: a book whose copies are removed keeps one, and the suggested copy has the
\* best formats there were.
BestCopyStays ==
    running = "copies" => D!TypeOK /\ D!LastCopyKept /\ D!BestKept

\* Parts: they are the whole book in order, each fits the model's context, halving one does
\* not use up its tries, and the reader in Review opens the part a finding is from, also
\* with the label alone if no other part has it.
BookIsReadWhole ==
    running = "parts" =>
        P!TypeOK /\ P!NothingLost /\ P!PartsFit /\ P!SplitsAreNoTries /\ P!PassageIsPart /\ P!LabelFindsPart

\* Event pages: each book of an event's list is found, and none is listed twice.
ListIsRead ==
    running = "pages" => E!TypeOK /\ E!AllFound /\ E!NoneTwice

\* Tunnel: unless two saves of its settings overlap, one supervisor of a connector lives,
\* and while nobody saves the state on the admin page is "off" if no connector is left.
TunnelIsAsShown ==
    running = "tunnel" => U!TypeOK /\ U!OneConnector /\ U!StateIsTrue
=============================================================================
