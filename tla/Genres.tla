------------------------------- MODULE Genres -------------------------------
(***************************************************************************)
(* Genres (genrefill/genrefill.go, llm/genres.go, store/facets.go,         *)
(* store/calibrebooks.go): Calibre's tags give a book its genres; for the  *)
(* books that have none an admin may ask the AI, a batch at a time, within *)
(* the hourly token cap, and may stop it. The library is synced meanwhile. *)
(***************************************************************************)
EXTENDS Naturals, FiniteSets

CONSTANTS
    Books,      \* the library's books, numbered
    Batch,      \* books in one call (25 in the code)
    MaxTagged   \* bound: changes of tags in Calibre

ASSUME GenresAssumption ==
    /\ Books \subseteq Nat /\ IsFiniteSet(Books)
    /\ Batch \in Nat /\ MaxTagged \in Nat

VARIABLES
    tagged,     \* books that have a tag NovelCheck knows, in Calibre
    changes,    \* changes of tags so far
    source,     \* genre_source of each book
    seen,       \* history: books whose tags the last sync read
    paid,       \* history: books the AI was asked about and that had no tags since
    at,         \* where the run is; "off" when running is false
    cancelled,  \* Stop was called
    picked,     \* the books of this call
    left,       \* those whose answer is not saved yet
    answered,   \* those the answer has a category for
    room        \* the next call fits into this hour's tokens

vars == <<tagged, changes, source, seen, paid, at, cancelled, picked, left, answered, room>>

TypeOK ==
    /\ tagged \subseteq Books /\ changes \in 0..MaxTagged
    /\ source \in [Books -> {"", "ai", "calibre"}]
    /\ seen \subseteq Books /\ paid \subseteq Books
    /\ at \in {"off", "pick", "budget", "ask", "save"}
    /\ cancelled \in BOOLEAN /\ room \in BOOLEAN
    /\ picked \subseteq Books /\ left \subseteq picked /\ answered \subseteq picked
    /\ Cardinality(picked) <= Batch

Init ==
    /\ tagged = {} /\ changes = 0 /\ seen = {} /\ paid = {}
    /\ source = [b \in Books |-> ""]
    /\ at = "off" /\ cancelled = FALSE
    /\ picked = {} /\ left = {} /\ answered = {} /\ room = TRUE

Missing == {b \in Books : source[b] = ""}

\* The first Batch of the missing books.
MissingGenres == {b \in Missing : Cardinality({c \in Missing : c < b}) < Batch}

running == at # "off"

-----------------------------------------------------------------------------
(* Calibre and the sync.                                                   *)

Tag(b) ==
    /\ changes < MaxTagged
    /\ changes' = changes + 1
    /\ tagged' = IF b \in tagged THEN tagged \ {b} ELSE tagged \cup {b}
    /\ UNCHANGED <<source, seen, paid, at, cancelled, picked, left, answered, room>>

\* Whether NovelCheck knows one of the book's tags.
FromTags(b) == b \in tagged

\* Without tags, genres the AI filled in stay.
Source(b) == IF FromTags(b) THEN "calibre" ELSE IF source[b] = "ai" THEN "ai" ELSE ""

\* The sync reads the book's entry.
UpsertCalibreBook(b) ==
    /\ source' = [source EXCEPT ![b] = Source(b)]
    /\ seen' = IF FromTags(b) THEN seen \cup {b} ELSE seen \ {b}
    /\ paid' = IF FromTags(b) THEN paid \ {b} ELSE paid
    /\ UNCHANGED <<tagged, changes, at, cancelled, picked, left, answered, room>>

\* Ratings use the hour's tokens too; the hour passes.
Spend == room' = FALSE /\ UNCHANGED <<tagged, changes, source, seen, paid, at, cancelled, picked, left, answered>>
WindowFrees == room' = TRUE /\ UNCHANGED <<tagged, changes, source, seen, paid, at, cancelled, picked, left, answered>>

-----------------------------------------------------------------------------
(* A run.                                                                  *)

unmoved == <<tagged, changes, seen, room>>

GenreFill == Missing # {}       \* what the handler asks before it starts one

Start ==
    /\ ~running /\ GenreFill
    /\ at' = "pick" /\ cancelled' = FALSE
    /\ UNCHANGED <<unmoved, source, paid, picked, left, answered>>

Stop ==
    /\ running
    /\ cancelled' = TRUE
    /\ UNCHANGED <<unmoved, source, paid, at, picked, left, answered>>

End ==
    /\ at' = "off" /\ cancelled' = FALSE
    /\ picked' = {} /\ left' = {} /\ answered' = {}
    /\ UNCHANGED <<unmoved, source, paid>>

\* The run ends when it was stopped, when there is nothing left or when the
\* books cannot be read.
Pick(ok) ==
    /\ at = "pick"
    /\ IF cancelled \/ MissingGenres = {} \/ ~ok
       THEN End
       ELSE /\ picked' = MissingGenres /\ left' = MissingGenres /\ answered' = {}
            /\ at' = "budget"
            /\ UNCHANGED <<unmoved, source, paid, cancelled>>

\* While the call would pass the cap the run waits, and Stop ends the wait.
WaitForBudget ==
    /\ at = "budget"
    /\ \/ room /\ at' = "ask" /\ UNCHANGED <<unmoved, source, paid, cancelled, picked, left, answered>>
       \/ ~room /\ cancelled /\ End

\* The answer has categories for some of the books (none, when it names them
\* without one). One that names no book of the batch, or is no JSON, counts as a
\* failure, as does a call that Stop cuts off: nothing of it is saved.
ParseGenres(some) ==
    /\ at = "ask" /\ ~cancelled
    /\ answered' = some /\ at' = "save"
    /\ UNCHANGED <<unmoved, source, paid, cancelled, picked, left>>

AskFails == at = "ask" /\ End

\* Mutant: a book is marked as done only when there is a category for it.
WhenAnswered(b) == b \in answered /\ source[b] # "calibre"

\* Mutant: the answer is saved whatever the sync did meanwhile.
Whatever(b) == TRUE

\* Books the answer skipped are marked done too; tags stay.
MayMark(b) == source[b] # "calibre"

SetAIGenres(b) ==
    /\ at = "save" /\ b \in left /\ \A c \in left : b <= c
    /\ left' = left \ {b}
    /\ source' = IF MayMark(b) THEN [source EXCEPT ![b] = "ai"] ELSE source
    /\ paid' = IF b \in seen THEN paid ELSE paid \cup {b}
    /\ at' = IF left = {b} THEN "pick" ELSE "save"
    /\ UNCHANGED <<unmoved, cancelled, picked, answered>>

SaveFails == at = "save" /\ End

Restart ==
    /\ running /\ End

Run ==
    \/ \E ok \in BOOLEAN : Pick(ok)
    \/ WaitForBudget
    \/ \E some \in SUBSET picked : ParseGenres(some)
    \/ AskFails \/ SaveFails
    \/ \E b \in Books : SetAIGenres(b)

Next ==
    \/ \E b \in Books : Tag(b) \/ UpsertCalibreBook(b)
    \/ Spend \/ WindowFrees
    \/ Start \/ Stop \/ Restart
    \/ Run

\* The run is a goroutine; a call and a save end, one way or the other; and
\* the hour's window frees again.
Fairness == SF_vars(Run /\ at # "budget") /\ SF_vars(WaitForBudget)
                /\ WF_vars(room = FALSE /\ WindowFrees)

Spec == Init /\ [][Next]_vars /\ Fairness

-----------------------------------------------------------------------------

\* A book whose tags the sync has read shows these, whatever the AI answers
\* and whenever it does.
TagsWin == \A b \in seen : source[b] = "calibre"

\* What the AI was asked about is not asked about again until Calibre had
\* tags for it: syncs of the library keep the answer.
AnswersStay == \A b \in paid : source[b] # ""

\* Genres stay with whom they are from: their types, and the two together.
GenresKept == TypeOK /\ TagsWin /\ AnswersStay

\* A run that was started ends: every book is asked about once, whatever the
\* answers leave out.
RunEnds == running ~> ~running
=============================================================================
