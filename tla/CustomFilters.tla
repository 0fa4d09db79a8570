--------------------------- MODULE CustomFilters ---------------------------
(***************************************************************************)
(* The family's own AI filters (store/flags.go, api/flags_handlers.go,     *)
(* llm/flags.go, the flags of store/books.go and spice.go). A filter is    *)
(* added or worded anew, then the version of the filters goes up; a rating *)
(* is stamped with the version at its save. A book stamped with an older   *)
(* version is offered for a new rating.                                    *)
(***************************************************************************)
EXTENDS Naturals, FiniteSets

CONSTANTS
    Key,            \* keys a label may give
    Words,          \* instructions
    Admin,          \* requests that edit the filters
    MaxFlags,       \* the most filters at a time
    MaxIds          \* bound: numbers handed out; they are not used again

Ids == 1..MaxIds
Flag == [id : Ids, key : Key, words : Words]

VARIABLES
    flags,      \* custom_flags
    next,       \* the next number
    version,    \* custom_flags_version
    edit,       \* each request between its statements
    book,       \* flags_version and book_flags of one rated book
    ask,        \* the AI's question about it: the filters it names
    knew,       \* history: the filters of now that the question of the book's rating named
    raced,      \* history: those that were changed while that question was out
    lost,       \* history: those whose change never raised the version
    stale       \* history: an edit wrote over what came after its reading

vars == <<flags, next, version, edit, book, ask, knew, raced, lost, stale>>

NoEdit == [at |-> "idle", of |-> {}, read |-> 0]
NoAsk == [at |-> "idle", names |-> {}, raced |-> {}, marks |-> {}]
MaxVersion == MaxIds + 1        \* bound: instructions are changed as long as it lasts

TypeOK ==
    /\ flags \subseteq Flag
    /\ \A f, g \in flags : f # g => f.id # g.id /\ f.key # g.key
    /\ next \in 1..MaxIds + 1 /\ version \in 0..MaxVersion
    /\ edit \in [Admin -> [at : {"idle", "update", "bump", "write"}, of : SUBSET Flag, read : 0..MaxVersion]]
    /\ book \in [version : 0..MaxVersion, marks : SUBSET Ids]
    /\ ask \in [at : {"idle", "asked", "flags"}, names : SUBSET Flag, raced : SUBSET Flag, marks : SUBSET Key]
    /\ knew \subseteq Flag /\ raced \subseteq Flag /\ lost \subseteq Flag /\ stale \in BOOLEAN

Init ==
    /\ flags = {} /\ next = 1 /\ version = 0
    /\ edit = [a \in Admin |-> NoEdit]
    /\ book = [version |-> 0, marks |-> {}] /\ ask = NoAsk
    /\ knew = {} /\ raced = {} /\ lost = {} /\ stale = FALSE

\* Who has changed a filter and not raised the version yet.
Raising == {a \in Admin : edit[a].at \in {"bump", "write"}}

\* A new filter takes a key that is free.
Keys == {f.key : f \in flags}

\* RerateCandidates, as far as filters decide it.
Offered == book.version < version

-----------------------------------------------------------------------------
(* The admin's edits.                                                      *)

\* The histories forget filters that are no more.
Now(fs) == knew' = knew \cap fs /\ raced' = raced \cap fs /\ lost' = lost \cap fs

Race(fs) == ask' = IF ask.at = "asked" THEN [ask EXCEPT !.raced = @ \cup fs] ELSE ask

\* The key is free when it is looked for; another request may take it before the
\* insert, which then fails (the column is unique) and answers an error.
AddCustomFlag(a, k, w) ==
    LET f == [id |-> next, key |-> k, words |-> w] IN
    /\ edit[a] = NoEdit /\ next \in Ids /\ k \notin Keys
    /\ Cardinality(flags) < MaxFlags
    /\ flags' = flags \cup {f} /\ next' = next + 1
    /\ edit' = [edit EXCEPT ![a].at = "bump", ![a].of = {f}]
    /\ Race({f}) /\ Now(flags')
    /\ UNCHANGED <<version, book, stale>>

\* The instructions there are are read,
ReadFlag(a, f) ==
    /\ edit[a] = NoEdit /\ f \in flags
    /\ edit' = [edit EXCEPT ![a].at = "update", ![a].of = {f}]
    /\ UNCHANGED <<flags, next, version, book, ask, knew, raced, lost, stale>>

\* Mutant: new instructions are saved like a new label.
Reworded(old, new) == FALSE

\* New instructions, and not a new label, ask for new ratings.
Changed(old, new) == old # new

\* and then written; the filter may be another's by then, or none.
UpdateCustomFlag(a, f, w) ==
    LET row == {c \in flags : c.id = f.id}
        new == {[c EXCEPT !.words = w] : c \in row} IN
    /\ edit[a].at = "update" /\ edit[a].of = {f}
    /\ flags' = (flags \ row) \cup new
    /\ edit' = [edit EXCEPT ![a] = IF Changed(f.words, w) THEN [NoEdit EXCEPT !.at = "bump", !.of = new] ELSE NoEdit]
    /\ Race(new \ row)
    /\ stale' = (stale \/ (row # {f} /\ f.words = w))
    /\ version < MaxVersion /\ Now(flags')
    /\ UNCHANGED <<next, version, book>>

\* The version is read, and written one higher.
ReadVersion(a) ==
    /\ edit[a].at = "bump"
    /\ edit' = [edit EXCEPT ![a].at = "write", ![a].read = version]
    /\ UNCHANGED <<flags, next, version, book, ask, knew, raced, lost, stale>>

BumpFlagsVersion(a) ==
    /\ edit[a].at = "write" /\ edit[a].read < MaxVersion
    /\ version' = edit[a].read + 1
    /\ edit' = [edit EXCEPT ![a] = NoEdit]
    /\ stale' = (stale \/ version' < version)
    /\ UNCHANGED <<flags, next, book, ask, knew, raced, lost>>

\* Its marks go with it.
DeleteCustomFlag(f) ==
    /\ f \in flags /\ flags' = flags \ {f} /\ Now(flags')
    /\ book' = [book EXCEPT !.marks = @ \ {f.id}]
    /\ UNCHANGED <<next, version, edit, ask, stale>>

-----------------------------------------------------------------------------
(* A rating of the book.                                                   *)

\* The question names the filters there are.
Ask ==
    /\ ask = NoAsk
    /\ ask' = [NoAsk EXCEPT !.at = "asked", !.names = flags]
    /\ UNCHANGED <<flags, next, version, edit, book, knew, raced, lost, stale>>

\* Every key the answer says yes to, asked for or not.
FlagsFrom == SUBSET Key

\* The rating is saved with the version of now, then its marks, by key.
SaveAnalysis(marks) ==
    /\ ask.at = "asked"
    /\ book' = [book EXCEPT !.version = version]
    /\ knew' = ask.names \cap flags /\ raced' = ask.raced \cap flags
    /\ ask' = [NoAsk EXCEPT !.at = "flags", !.marks = marks]
    /\ UNCHANGED <<flags, next, version, edit, lost, stale>>

SetBookFlags ==
    /\ ask.at = "flags"
    /\ book' = [book EXCEPT !.marks = {f.id : f \in {g \in flags : g.key \in ask.marks}}]
    /\ ask' = NoAsk
    /\ UNCHANGED <<flags, next, version, edit, knew, raced, lost, stale>>

\* The call fails, and the book keeps what it had.
Fail ==
    /\ ask.at = "asked" /\ ask' = NoAsk
    /\ UNCHANGED <<flags, next, version, edit, book, knew, raced, lost, stale>>

Restart ==
    /\ edit' = [a \in Admin |-> NoEdit] /\ ask' = NoAsk
    /\ lost' = lost \cup (flags \cap UNION {edit[a].of : a \in Raising})
    /\ UNCHANGED <<flags, next, version, book, knew, raced, stale>>

Next ==
    \/ \E a \in Admin :
         \/ \E k \in Key, w \in Words : AddCustomFlag(a, k, w)
         \/ \E f \in flags : ReadFlag(a, f)
         \/ \E f \in edit[a].of, w \in Words : UpdateCustomFlag(a, f, w)
         \/ ReadVersion(a) \/ BumpFlagsVersion(a)
    \/ \E f \in flags : DeleteCustomFlag(f)
    \/ \E marks \in FlagsFrom : SaveAnalysis(marks)
    \/ Ask \/ SetBookFlags \/ Fail \/ Restart

Spec == Init /\ [][Next]_vars

-----------------------------------------------------------------------------

Settled == ask.at # "flags" /\ \A a \in Admin : edit[a] = NoEdit

\* A filter added or worded anew after the book's question was answered makes
\* the book offered for a new rating, as long as it lasts, whatever was renamed,
\* removed, asked again or cut off since; lost are changes a stop of the
\* process overtook before they raised the version. Not claimed once an edit
\* wrote over what came after its reading: it may set the version back.
SavedBeforeIsOffered == Settled /\ ~stale => flags \subseteq knew \cup raced \cup lost \/ Offered
==============================================================================
