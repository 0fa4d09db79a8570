----------------------------- MODULE TitleFixes -----------------------------
(***************************************************************************)
(* Titles are tidied in Calibre (store/titlefix.go, delta.go,              *)
(* api/titlefix_handlers.go, calibresrv/books.go): what the Content server *)
(* has is compared first, then each entry is renamed, and the library is   *)
(* read again. Calibre stamps every change, and a rated book that changed  *)
(* since its rating is offered for a new one; our own edit must not do so. *)
(***************************************************************************)
EXTENDS Naturals

CONSTANTS
    Book,       \* rated books, each with one entry in Calibre
    Theirs,     \* what another library may have under the same numbers
    Admin,      \* pushes that may be under way at once
    Typed,      \* titles an admin or a reader of Calibre types
    MaxEdits    \* bound: changes in Calibre

Title == {"numbered", "tidy", "other"}      \* what a title can be
Server == {"same", "other"}                 \* the library a Content server has

VARIABLES
    calibre,    \* each entry's title, and when it changed
    theirs,     \* the other library's titles under these numbers
    served,     \* the library of the Content server that is set
    book,       \* NovelCheck's rows: title, title_fix, modified (of its copy), rated_modified
    push,       \* each push
    clock,      \* changes so far
    others,     \* history: changed by somebody else, as far as a sync with no push under way read it
    foreign,    \* history: changed by somebody else since the rating
    mixed,      \* history: a push overlapped another or a rating, broke off or went to the other library
    renamed,    \* history: what pushes renamed in the other library
    wrong       \* history: the other library was changed though it has another book under a chosen number

vars == <<calibre, theirs, served, book, push, clock, others, foreign, mixed, renamed, wrong>>

NoPush == [at |-> "idle", server |-> "same", books |-> {}, want |-> [b \in Book |-> "tidy"], title |-> "tidy",
           left |-> {}, found |-> {}, now |-> 0, unchanged |-> FALSE, accept |-> {}]

TypeOK ==
    /\ calibre \in [Book -> [title : Title, at : 0..MaxEdits]]
    /\ theirs \in [Book -> Title \cup {"gone"}] /\ served \in Server
    /\ book \in [Book -> [title : Title, fix : BOOLEAN, modified : 0..MaxEdits, rated : 0..MaxEdits]]
    /\ \A a \in Admin : /\ push[a].at \in {"idle", "titles", "next", "set", "save", "accept"}
                        /\ push[a].left \subseteq push[a].books /\ push[a].found \subseteq push[a].books /\ push[a].accept \subseteq push[a].books
    /\ clock \in 0..MaxEdits /\ others \subseteq Book /\ foreign \subseteq Book
    /\ renamed \subseteq Book /\ mixed \in BOOLEAN /\ wrong \in BOOLEAN

Init ==
    /\ calibre = [b \in Book |-> [title |-> "numbered", at |-> 0]]
    /\ theirs \in [Book -> Theirs] /\ served = "same"
    /\ book = [b \in Book |-> [title |-> "tidy", fix |-> TRUE, modified |-> 0, rated |-> 0]]
    /\ push = [a \in Admin |-> NoPush] /\ clock = 0
    /\ others = {} /\ foreign = {} /\ mixed = FALSE /\ renamed = {} /\ wrong = FALSE

\* NormKey leaves numbers out: the tidy title and the numbered one are the same book.
NormKey(title) == IF title = "other" THEN "other" ELSE "dune"

\* A rated book whose copy changed after what its rating saw.
Changed(b) == book[b].rated < book[b].modified

-----------------------------------------------------------------------------
(* Calibre, and what reads it.                                             *)

CalibreEdit(b, title) ==
    /\ clock < MaxEdits
    /\ clock' = clock + 1
    /\ calibre' = [calibre EXCEPT ![b] = [title |-> title, at |-> clock + 1]]
    /\ foreign' = foreign \cup {b}
    /\ UNCHANGED <<theirs, served, book, push, others, mixed, renamed, wrong>>

\* The sync files each entry under its tidy title, with the time of its last change.
Read ==
    book' = [b \in Book |->
               [book[b] EXCEPT !.title = IF calibre[b].title = "numbered" THEN "tidy" ELSE calibre[b].title,
                               !.fix = calibre[b].title = "numbered", !.modified = calibre[b].at]]

Idle == \A a \in Admin : push[a].at = "idle"

Sync ==
    /\ Read
    /\ others' = IF Idle THEN others \cup {b \in foreign : book[b].modified < calibre[b].at} ELSE others
    /\ UNCHANGED <<calibre, theirs, served, push, clock, foreign, mixed, renamed, wrong>>

\* A new rating has seen the book as the last sync read it.
Rate(b) ==
    /\ book' = [book EXCEPT ![b].rated = book[b].modified]
    /\ others' = others \ {b}
    /\ foreign' = IF calibre[b].at = book[b].modified THEN foreign \ {b} ELSE foreign
    /\ mixed' = (mixed \/ \E a \in Admin : b \in push[a].books)
    /\ UNCHANGED <<calibre, theirs, served, push, clock, renamed, wrong>>

SaveServer(l) ==
    /\ l # served
    /\ served' = l
    /\ UNCHANGED <<calibre, theirs, book, push, clock, others, foreign, mixed, renamed, wrong>>

-----------------------------------------------------------------------------
(* A push.                                                                 *)

Begin(a, books, title) ==
    /\ push[a].at = "idle" /\ books # {}
    /\ push' = [push EXCEPT ![a] = [NoPush EXCEPT !.at = "titles", !.server = served, !.books = books, !.left = books,
                                    !.want = [b \in Book |-> book[b].title], !.title = title]]
    /\ mixed' = (mixed \/ ~Idle \/ served = "other")
    /\ UNCHANGED <<calibre, theirs, served, book, clock, others, foreign, renamed, wrong>>

\* The chosen titles, as NovelCheck shows them, or one title as it was typed.
FixTitles(a, books) == (\A b \in books : book[b].fix) /\ Begin(a, books, "tidy")
SaveCalibreTitle(a, b, title) == Begin(a, {b}, title)

Have(a, b) == IF push[a].server = "same" THEN calibre[b].title ELSE theirs[b]
Fits(a, b) == Have(a, b) \in {"gone", push[a].want[b]} \/ NormKey(Have(a, b)) = NormKey(push[a].want[b])

Fit(a) == \A b \in push[a].books : Fits(a, b)

\* Nothing is changed unless every entry is the book that was expected.
Titles(a, ok) ==
    /\ push[a].at = "titles"
    /\ push' = IF ok /\ Fit(a)
               THEN [push EXCEPT ![a].at = "next", ![a].found = {b \in push[a].books : Have(a, b) # "gone"}]
               ELSE [push EXCEPT ![a] = NoPush]
    /\ UNCHANGED <<calibre, theirs, served, book, clock, others, foreign, mixed, renamed, wrong>>

\* Mutant: every rating is kept.
KeepAll(b) == TRUE

Unchanged(b) == ~Changed(b)

\* Whether the book had changed already is read before our own change; an
\* entry that is gone from Calibre is passed over.
NextBook(a, b) ==
    /\ push[a].at = "next" /\ b \in push[a].left
    /\ push' = [push EXCEPT ![a].left = @ \ {b}, ![a].now = b, ![a].unchanged = Unchanged(b),
                            ![a].at = IF b \in push[a].found THEN "set" ELSE "next"]
    /\ UNCHANGED <<calibre, theirs, served, book, clock, others, foreign, mixed, renamed, wrong>>

SetMetadata(a) ==
    LET b == push[a].now IN
    /\ push[a].at = "set"
    /\ IF push[a].server = "same"
       THEN /\ clock < MaxEdits /\ clock' = clock + 1
            /\ calibre' = [calibre EXCEPT ![b] = [title |-> push[a].title, at |-> clock + 1]]
            /\ UNCHANGED <<theirs, renamed, wrong>>
       ELSE /\ theirs' = [theirs EXCEPT ![b] = push[a].title]
            /\ wrong' = (wrong \/ \E c \in push[a].found \ renamed : NormKey(theirs[c]) # NormKey(push[a].want[c]))
            /\ renamed' = renamed \cup {b}
            /\ UNCHANGED <<calibre, clock>>
    /\ push' = [push EXCEPT ![a].at = "save"]
    /\ UNCHANGED <<served, book, others, foreign, mixed>>

SavedToCalibre(a) ==
    LET b == push[a].now IN
    /\ push[a].at = "save"
    /\ book' = [book EXCEPT ![b].title = push[a].title, ![b].fix = FALSE]
    /\ push' = [push EXCEPT ![a].at = "next", ![a].accept = IF push[a].unchanged THEN @ \cup {b} ELSE @]
    /\ UNCHANGED <<calibre, theirs, served, clock, others, foreign, mixed, renamed, wrong>>

\* An error on the way: the titles set so far stay, the rest and the sync are left out.
Fails(a) ==
    /\ push[a].at \in {"next", "set", "save", "accept"}
    /\ push' = [push EXCEPT ![a] = NoPush] /\ mixed' = TRUE
    /\ UNCHANGED <<calibre, theirs, served, book, clock, others, foreign, renamed, wrong>>

\* The library is read again,
ReadAgain(a) ==
    /\ push[a].at = "next" /\ push[a].left = {}
    /\ Read
    /\ push' = [push EXCEPT ![a].at = "accept"]
    /\ UNCHANGED <<calibre, theirs, served, clock, others, foreign, mixed, renamed, wrong>>

Current(b) == book[b].modified

\* and the ratings of books that only we changed are moved up to it.
AcceptModified(a) ==
    /\ push[a].at = "accept"
    /\ book' = [b \in Book |-> IF b \in push[a].accept THEN [book[b] EXCEPT !.rated = Current(b)] ELSE book[b]]
    /\ push' = [push EXCEPT ![a] = NoPush]
    /\ UNCHANGED <<calibre, theirs, served, clock, others, foreign, mixed, renamed, wrong>>

Next ==
    \/ \E b \in Book : Rate(b) \/ \E t \in Typed : CalibreEdit(b, t)
    \/ Sync \/ \E l \in Server : SaveServer(l)
    \/ \E a \in Admin :
         \/ \E books \in SUBSET Book : FixTitles(a, books)
         \/ \E b \in Book, t \in Typed : SaveCalibreTitle(a, b, t)
         \/ \E ok \in BOOLEAN : Titles(a, ok)
         \/ \E b \in Book : NextBook(a, b)
         \/ SetMetadata(a) \/ SavedToCalibre(a) \/ Fails(a) \/ ReadAgain(a) \/ AcceptModified(a)

Spec == Init /\ [][Next]_vars

-----------------------------------------------------------------------------

\* When no push is under way, a book that nobody but us changed since its
\* rating is not offered for a new one, unless a push broke off, overlapped
\* another or a rating, or went to a server with another library.
OwnEditNotOffered ==
    Idle /\ ~mixed => \A b \in Book : b \notin foreign => ~Changed(b)

\* A change by somebody else that a sync read while no push was under way
\* keeps the book on offer until it is rated again, whatever is pushed.
OthersEditOffered ==
    \A b \in others : Changed(b)

\* A library that has another book under one of the chosen numbers, and not
\* because a push renamed it, is not changed at all.
OtherLibraryUntouched == ~wrong
=============================================================================
