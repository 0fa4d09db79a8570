---------------------------- MODULE Duplicates ----------------------------
(***************************************************************************)
(* Books that are in Calibre more than once (store/duplicates.go,          *)
(* api/duplicates_handlers.go, removeFromCalibre): the page suggests the   *)
(* entry to keep, an admin picks those to remove, and they leave Calibre   *)
(* batch by batch; then the library is read again.                         *)
(***************************************************************************)
EXTENDS Naturals, FiniteSets

CONSTANTS
    Entry,      \* Calibre's numbers
    Of,         \* the book each entry is of
    FilesOf,    \* the formats of each entry
    SizeOf,     \* the bytes of its files
    Admin,      \* requests served at once
    Batch       \* entries in one call (200 in the code)

VARIABLES
    calibre,    \* the entries Calibre has
    listed,     \* the entries the last sync read
    request,    \* each admin's request
    touched,    \* history: books somebody took an entry of in Calibre itself
    mixed,      \* history: requests overlapped, or one ended without the library being read again
    followed    \* history: each request removed all but the suggested entry

vars == <<calibre, listed, request, touched, mixed, followed>>

Book == {Of[e] : e \in Entry}
Idle == [at |-> "idle", ids |-> {}]

TypeOK ==
    /\ calibre \subseteq Entry /\ listed \subseteq Entry
    /\ request \in [Admin -> [at : {"idle", "titles", "remove"}, ids : SUBSET Entry]]
    /\ touched \subseteq Book /\ mixed \in BOOLEAN /\ followed \in BOOLEAN

Init ==
    /\ calibre = Entry /\ listed = Entry
    /\ request = [a \in Admin |-> Idle]
    /\ touched = {} /\ mixed = FALSE /\ followed = TRUE

Entries(b, there) == {e \in there : Of[e] = b}

\* The books with more than one entry.
CalibreDuplicates == {b \in Book : Cardinality(Entries(b, listed)) > 1}

FormatScore(f) ==
    CASE f = "epub" -> 8 [] f \in {"azw3", "kfx"} -> 4 [] f = "azw" -> 3 [] f = "mobi" -> 2 [] f = "pdf" -> 1 [] OTHER -> 0

Has(e, f) == IF f \in FilesOf[e] THEN FormatScore(f) ELSE 0
Score(e)  == Has(e, "epub") + Has(e, "azw3") + Has(e, "kfx") + Has(e, "azw") + Has(e, "mobi") + Has(e, "pdf")

\* The best formats, then the most files, the largest, the oldest.
Better(e, c) ==
    LET files(x) == Cardinality(FilesOf[x]) IN
    \/ Score(c) < Score(e)
    \/ Score(c) = Score(e) /\ files(c) < files(e)
    \/ Score(c) = Score(e) /\ files(c) = files(e) /\ SizeOf[c] < SizeOf[e]
    \/ Score(c) = Score(e) /\ files(c) = files(e) /\ SizeOf[c] = SizeOf[e] /\ e < c

SuggestKeep(es) == CHOOSE e \in es : \A c \in es \ {e} : Better(e, c)

-----------------------------------------------------------------------------

CalibreRemove(e) ==
    /\ e \in calibre
    /\ calibre' = calibre \ {e} /\ touched' = touched \cup {Of[e]}
    /\ UNCHANGED <<listed, request, mixed, followed>>

Sync == listed' = calibre /\ UNCHANGED <<calibre, request, touched, mixed, followed>>

\* Mutant: every entry of a book may be picked.
AsMany(b, ids) == Cardinality(Entries(b, ids)) <= Cardinality(Entries(b, listed))

\* One entry of the book at least is not picked.
KeepsOne(b, ids) == Cardinality(Entries(b, ids)) < Cardinality(Entries(b, listed))

\* Each picked entry must be a duplicate as the library was last read.
RemoveDuplicates(a, ids) ==
    /\ request[a].at = "idle" /\ ids # {}
    /\ ids \subseteq {e \in listed : Of[e] \in CalibreDuplicates}
    /\ \A b \in {Of[e] : e \in ids} : KeepsOne(b, ids)
    /\ request' = [request EXCEPT ![a] = [at |-> "titles", ids |-> ids]]
    /\ mixed' = (mixed \/ \E c \in Admin : request[c].at # "idle")
    /\ followed' = (followed /\ \A b \in {Of[e] : e \in ids} :
                        Entries(b, ids) = Entries(b, listed) \ {SuggestKeep(Entries(b, listed))})
    /\ UNCHANGED <<calibre, listed, touched>>

\* Entries that are gone from Calibre are left out; a server that does not
\* answer ends the request.
Titles(a, ok) ==
    /\ request[a].at = "titles"
    /\ request' = [request EXCEPT ![a] = IF ok THEN [at |-> "remove", ids |-> @.ids \cap calibre] ELSE Idle]
    /\ UNCHANGED <<calibre, listed, touched, mixed, followed>>

Remove(a, part) ==
    /\ request[a].at = "remove"
    /\ part \subseteq request[a].ids /\ part # {} /\ Cardinality(part) <= Batch
    /\ calibre' = calibre \ part
    /\ request' = [request EXCEPT ![a].ids = @ \ part]
    /\ UNCHANGED <<listed, touched, mixed, followed>>

\* A batch that is refused, or a library that cannot be read: what was removed
\* stays removed, and the list is as old as it was.
Fails(a) ==
    /\ request[a].at = "remove"
    /\ request' = [request EXCEPT ![a] = Idle] /\ mixed' = TRUE
    /\ UNCHANGED <<calibre, listed, touched, followed>>

ReadAgain(a) ==
    /\ request[a].at = "remove" /\ request[a].ids = {}
    /\ listed' = calibre
    /\ request' = [request EXCEPT ![a] = Idle]
    /\ UNCHANGED <<calibre, touched, mixed, followed>>

Next ==
    \/ \E e \in Entry : CalibreRemove(e)
    \/ Sync
    \/ \E a \in Admin :
         \/ \E ids \in SUBSET Entry : RemoveDuplicates(a, ids) \/ Remove(a, ids)
         \/ \E ok \in BOOLEAN : Titles(a, ok)
         \/ Fails(a) \/ ReadAgain(a)

Spec == Init /\ [][Next]_vars

-----------------------------------------------------------------------------

\* However often copies are removed, a book nobody touched in Calibre itself
\* keeps one, unless two requests overlapped or one could not read the library
\* again.
LastCopyKept == ~mixed => \A b \in Book \ touched : Entries(b, calibre) # {}

\* Whoever always removes all but the suggested entry keeps formats as good as
\* any entry had.
BestKept ==
    followed /\ ~mixed =>
        \A e \in Entry : Of[e] \notin touched => \E k \in Entries(Of[e], calibre) : Score(e) <= Score(k)
=============================================================================
