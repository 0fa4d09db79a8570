------------------------------ MODULE Shelves ------------------------------
(***************************************************************************)
(* Collections and seasonal shelves (collections/, store/collections.go,   *)
(* shelfrejects.go, seasoncache.go, themes.go, api/collection_handlers.go, *)
(* shelffit_handlers.go). A seasonal shelf shows the collection a parent   *)
(* built for it, or else the books its words match, kept in a cache that   *)
(* is made again when it is old. The AI fills in the background; a parent  *)
(* saves what it picked. A book taken off a shelf is remembered.           *)
(***************************************************************************)
EXTENDS Naturals, FiniteSets

CONSTANTS
    Book,
    Coll,       \* bound: the collections there ever are; numbers are not used again
    Season,     \* the seasonal shelf
    MaxIdeas,   \* the most ideas that wait for a parent
    None        \* no shelf

Shelf == Coll \cup {Season}

VARIABLES
    fresh,      \* seasonAt: the cache is of this library and of this hour
    season,     \* season_books
    build,      \* seasonReady between its reading and its writing
    coll,       \* collections and collection_books
    updated,    \* the order of their last changes: 1 for the last one changed, 0 for one that is not there
    rejects,    \* shelf_rejects
    fill,       \* the parent's fill: what for, what it skips, what it picked
    ideas,      \* the weekly ideas' loop
    taken,      \* history: books a parent took off a shelf and did not put back by hand
    overtook    \* history: those of them taken while a build or a fill was under way, or off one of two

vars == <<fresh, season, build, coll, updated, rejects, fill, ideas, taken, overtook>>

Gone == [kind |-> "none", season |-> FALSE, books |-> {}]
NoBuild == [on |-> FALSE, ids |-> {}]
NoFill == [at |-> "idle", for |-> None, skip |-> {}, picks |-> {}]

TypeOK ==
    /\ season \subseteq Book /\ fresh \in BOOLEAN
    /\ build \in [on : BOOLEAN, ids : SUBSET Book]
    /\ coll \in [Coll -> [kind : {"none", "manual", "ai", "idea", "deleted"}, season : BOOLEAN, books : SUBSET Book]]
    /\ updated \in [Coll -> Nat] /\ \A c, d \in Coll : updated[c] = updated[d] /\ updated[c] # 0 => c = d
    /\ rejects \subseteq Shelf \X Book /\ overtook \subseteq taken /\ taken \subseteq Shelf \X Book
    /\ fill \in [at : {"idle", "asked", "done"}, for : Shelf \cup {None}, skip : SUBSET Book, picks : SUBSET Book]
    /\ ideas \in {"idle", "asked"} \cup Coll

Init ==
    /\ fresh = FALSE /\ season = {} /\ build = NoBuild
    /\ coll = [c \in Coll |-> Gone] /\ updated = [c \in Coll |-> 0]
    /\ rejects = {} /\ fill = NoFill /\ ideas = "idle"
    /\ taken = {} /\ overtook = {}

Exists(c) == coll[c].kind \in {"manual", "ai", "idea"}
Fresh(c) == c \in Coll /\ coll[c].kind = "none"

\* The collection a seasonal shelf shows: the last changed of those built for it that have books.
Built == {c \in Coll : coll[c].season /\ coll[c].kind \in {"manual", "ai"} /\ coll[c].books # {}}
SeasonCollection == IF Built = {} THEN None ELSE CHOOSE c \in Built : \A d \in Built : updated[c] <= updated[d]

Shown(s) ==
    IF s \in Coll THEN coll[s].books
    ELSE IF SeasonCollection = None THEN season ELSE coll[SeasonCollection].books

\* The names a shelf's rejections go under.
ShelvesOf(s) ==
    IF s = Season THEN {Season} \cup ({SeasonCollection} \ {None})
    ELSE {s} \cup {Season : c \in {c \in {s} : coll[c].season}}

RejectsOf(s) == {b \in Book : \E n \in ShelvesOf(s) : <<n, b>> \in rejects}

\* Changed last: the ones that were before it move down.
Before(d, c) == updated[d] # 0 /\ (updated[c] = 0 \/ updated[d] < updated[c])
Touch(c) == updated' = [d \in Coll |-> IF d = c THEN 1 ELSE IF Before(d, c) THEN updated[d] + 1 ELSE updated[d]]
Leave(c) == updated' = [d \in Coll |-> IF d = c THEN 0 ELSE IF updated[d] > updated[c] THEN updated[d] - 1 ELSE updated[d]]

-----------------------------------------------------------------------------
(* The words of a seasonal shelf.                                          *)

\* Books come, go or are rated, or an hour is over.
Old ==
    /\ fresh /\ fresh' = FALSE
    /\ UNCHANGED <<season, build, coll, updated, rejects, fill, ideas, taken, overtook>>

\* Somebody visits; one at a time reads every book's text, and keeps the ones the words match.
SeasonReady(match) ==
    /\ ~fresh /\ ~build.on
    /\ build' = [on |-> TRUE, ids |-> {b \in match : <<Season, b>> \notin rejects}]
    /\ UNCHANGED <<fresh, season, coll, updated, rejects, fill, ideas, taken, overtook>>

Store ==
    /\ build.on
    /\ season' = build.ids /\ fresh' = TRUE /\ build' = NoBuild
    /\ UNCHANGED <<coll, updated, rejects, fill, ideas, taken, overtook>>

Fail ==
    /\ build.on /\ build' = NoBuild
    /\ UNCHANGED <<fresh, season, coll, updated, rejects, fill, ideas, taken, overtook>>

-----------------------------------------------------------------------------
(* Parents and their collections.                                          *)

PutBack(c, bs) ==
    LET names == {c} \cup {Season : x \in {x \in {c} : coll'[x].season}} IN
    /\ taken' = taken \ (names \X bs)
    /\ overtook' = overtook \ (names \X bs)

CreateCollection(c, kind, forSeason, bs) ==
    /\ Fresh(c)
    /\ coll' = [coll EXCEPT ![c] = [kind |-> kind, season |-> forSeason, books |-> bs]]
    /\ Touch(c)

NewCollection(c, bs) ==
    /\ CreateCollection(c, "manual", FALSE, bs)
    /\ UNCHANGED <<fresh, season, build, rejects, fill, ideas, taken, overtook>>

\* Whoever adds a book by hand may.
AddToCollection(c, b) ==
    /\ Exists(c) /\ b \notin coll[c].books
    /\ coll' = [coll EXCEPT ![c].books = @ \cup {b}]
    /\ Touch(c) /\ PutBack(c, {b})
    /\ UNCHANGED <<fresh, season, build, rejects, fill, ideas>>

RemoveFromCollection(c, b) ==
    /\ b \in coll[c].books
    /\ coll' = [coll EXCEPT ![c].books = @ \ {b}]
    /\ UNCHANGED <<fresh, season, build, updated, rejects, fill, ideas, taken, overtook>>

UpdateCollection(c) ==
    /\ Exists(c) /\ Touch(c)
    /\ UNCHANGED <<fresh, season, build, coll, rejects, fill, ideas, taken, overtook>>

KeepIdea(c) ==
    /\ coll[c].kind = "idea"
    /\ coll' = [coll EXCEPT ![c].kind = "ai"] /\ Touch(c)
    /\ UNCHANGED <<fresh, season, build, rejects, fill, ideas, taken, overtook>>

DeleteCollection(c) ==
    /\ Exists(c) /\ coll' = [coll EXCEPT ![c] = [Gone EXCEPT !.kind = "deleted"]]
    /\ Leave(c)
    /\ taken' = taken \ ({c} \X Book) /\ overtook' = overtook \ ({c} \X Book)
    /\ UNCHANGED <<fresh, season, build, rejects, fill, ideas>>

\* Mutant: a rejection is remembered of the shelf the parent looked at.
NamesHere(s) == {s}

\* The season's collection is named even where none is built.
NamesUnchecked(s) == ShelvesOf(s) \cup {SeasonCollection}

Names(s) == ShelvesOf(s)

\* "Not for this shelf", in one transaction.
RejectFromShelf(s, b) ==
    LET show  == IF s = Season THEN SeasonCollection ELSE s
        again == \E c \in Coll : c # show /\ coll[c].season /\ b \in coll[c].books
    IN
    /\ b \in Shown(s)
    /\ rejects' = rejects \cup (Names(s) \X {b})
    /\ season' = IF Season \in Names(s) THEN season \ {b} ELSE season
    /\ coll' = IF show = None THEN coll ELSE [coll EXCEPT ![show].books = @ \ {b}]
    /\ taken' = taken \cup (ShelvesOf(s) \X {b})
    /\ overtook' = IF build.on \/ fill.at # "idle" \/ ideas # "idle" \/ again THEN overtook \cup (ShelvesOf(s) \X {b}) ELSE overtook
    /\ UNCHANGED <<fresh, build, updated, fill, ideas>>

-----------------------------------------------------------------------------
(* The AI fills: two questions and a second look, minutes in the           *)
(* background; the parent's page waits for the job and saves its picks.    *)

FillExclude(s) == IF s = None THEN {} ELSE (IF s \in Coll THEN coll[s].books ELSE {}) \cup RejectsOf(s)

StartFill(s) ==
    /\ fill.at = "idle" /\ (s \in Coll => Exists(s))
    /\ fill' = [at |-> "asked", for |-> s, skip |-> FillExclude(s), picks |-> {}]
    /\ UNCHANGED <<fresh, season, build, coll, updated, rejects, ideas, taken, overtook>>

\* The AI picks from the candidates, which leave out what the fill skips; a second look
\* keeps some of them.
Picks == {bs \in SUBSET Book : bs \cap fill.skip = {}}

FillDone(picks) ==
    /\ fill.at = "asked" /\ picks \in Picks
    /\ fill' = IF picks = {} THEN NoFill ELSE [fill EXCEPT !.at = "done", !.picks = picks]
    /\ UNCHANGED <<fresh, season, build, coll, updated, rejects, ideas, taken, overtook>>

\* "Save": into the collection (Find more), or a new one, for the season when it was built for it.
SaveFill(c, ids) ==
    /\ fill.at = "done" /\ ids # {} /\ ids \subseteq fill.picks
    /\ IF fill.for \in Coll
       THEN /\ c = fill.for /\ Exists(c) /\ ~ids \subseteq coll[c].books
            /\ coll' = [coll EXCEPT ![c].books = @ \cup ids] /\ Touch(c)
       ELSE CreateCollection(c, "ai", fill.for = Season, ids)
    /\ fill' = NoFill
    /\ UNCHANGED <<fresh, season, build, rejects, ideas, taken, overtook>>

CloseFill ==
    /\ fill.at # "idle" /\ fill' = NoFill
    /\ UNCHANGED <<fresh, season, build, coll, updated, rejects, ideas, taken, overtook>>

\* Ideas nobody has kept yet.
PendingIdeas == {d \in Coll : coll[d].kind = "idea"}
IdeasDue == Cardinality(PendingIdeas) < MaxIdeas

\* Once a week: a collection, then its books.
MakeIdeas(c) ==
    /\ ideas = "idle" /\ IdeasDue
    /\ CreateCollection(c, "idea", FALSE, {})
    /\ ideas' = c
    /\ UNCHANGED <<fresh, season, build, rejects, fill, taken, overtook>>

FillIdea(bs) ==
    /\ ideas \in Coll
    /\ IF Exists(ideas) THEN coll' = [coll EXCEPT ![ideas].books = @ \cup bs] /\ Touch(ideas) ELSE UNCHANGED <<coll, updated>>
    /\ ideas' = "idle"
    /\ UNCHANGED <<fresh, season, build, rejects, fill, taken, overtook>>

\* Jobs and the stamps of the cache are in memory.
Restart ==
    /\ fresh' = FALSE /\ build' = NoBuild /\ fill' = NoFill /\ ideas' = "idle"
    /\ UNCHANGED <<season, coll, updated, rejects, taken, overtook>>

Next ==
    \/ Old \/ Store \/ Fail \/ CloseFill \/ Restart
    \/ \E b \in Book, s \in Shelf : RejectFromShelf(s, b)
    \/ \E s \in Shelf \cup {None} : StartFill(s)
    \/ \E bs \in SUBSET Book : SeasonReady(bs) \/ FillDone(bs) \/ FillIdea(bs)
    \/ \E c \in Coll :
         \/ UpdateCollection(c) \/ KeepIdea(c) \/ DeleteCollection(c) \/ MakeIdeas(c)
         \/ \E b \in Book : AddToCollection(c, b) \/ RemoveFromCollection(c, b)
         \/ \E bs \in SUBSET Book : NewCollection(c, bs) \/ SaveFill(c, bs)

Spec == Init /\ [][Next]_vars

-----------------------------------------------------------------------------

\* "Remembered, so the shelf's words and the AI never bring them back": a book a parent took off
\* a seasonal shelf or a collection stays off it until a person adds it, through new builds of
\* the cache, fills, and collections built, deleted and built again. Not claimed of a book taken
\* off while a build or a fill was under way, or off one of two collections of the season.
RejectedStaysOff == \A t \in taken \ overtook : t[2] \notin Shown(t[1])
=============================================================================
