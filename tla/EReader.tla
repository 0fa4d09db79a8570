------------------------------ MODULE EReader ------------------------------
(***************************************************************************)
(* Which library book a file on somebody's e-reader is (store/devices.go,  *)
(* kindlematch.go, rematch.go, kosync.go and their handlers). Statistics   *)
(* arrive by WebDAV, the plugin reports the device's files, KOReader sends *)
(* how far it is, a page that is opened matches again, Open Library is     *)
(* asked in the background, and the person may say it: this book, or not a *)
(* book at all. Each of them looks first and writes later.                 *)
(*                                                                         *)
(* A file is its fingerprint; titles and file names appear as the books    *)
(* they fit.                                                               *)
(***************************************************************************)
EXTENDS Naturals, FiniteSets

CONSTANTS
    Book,
    Doc,      \* files on the person's e-reader
    Copies,   \* Copies[d]: the book whose file in the library it is, or None
    None,     \* no book
    MaxJobs   \* bound: jobs at one time, the person's own choice aside

Row   == [book : Book \cup {None}, ignored : BOOLEAN]
NoRow == [book |-> None, ignored |-> FALSE]

VARIABLES
    fits,      \* the books whose title and author fit the file
    docs,      \* kosync_docs: the book of a fingerprint
    known,     \* the files with a row in koreader_books and in device_books
    row,       \* those rows
    choice,    \* kindle_overrides; NoRow: the person said nothing
    shelf,     \* the books on the person's Nightstand
    job,       \* each job: its step, the files left, and what it found
    late       \* history: rows whose writer had looked before the person chose

vars == <<fits, docs, known, row, choice, shelf, job, late>>

Table == {"stats", "files"}
Job   == {"import", "report", "rematch", "resolve", "match"}
Idle  == [at |-> "idle", of |-> {}, left |-> {}, seen |-> [d \in Doc |-> NoRow], old |-> {}]

TypeOK ==
    /\ fits \in [Doc -> SUBSET Book]
    /\ docs \in [Doc -> Book \cup {None}]
    /\ known \in [Table -> SUBSET Doc] /\ row \in [Table -> [Doc -> Row]]
    /\ choice \in [Doc -> Row]
    /\ shelf \subseteq Book
    /\ \A j \in Job : job[j] \in [at : {"idle", "look", "files", "doc", "add"}, of : SUBSET Doc,
                                  left : SUBSET Doc, seen : [Doc -> Row], old : SUBSET Doc]
    /\ late \in [Table -> SUBSET Doc]

Init ==
    /\ fits = [d \in Doc |-> {}] /\ docs = [d \in Doc |-> None]
    /\ known = [t \in Table |-> {}] /\ row = [t \in Table |-> [d \in Doc |-> NoRow]]
    /\ choice = [d \in Doc |-> NoRow] /\ shelf = {}
    /\ job = [j \in Job |-> Idle]
    /\ late = [t \in Table |-> {}]

-----------------------------------------------------------------------------
(* Looking a file up.                                                      *)

\* matchLoose answers only when one book fits.
Only(s) == IF Cardinality(s) = 1 THEN CHOOSE b \in s : TRUE ELSE None

MatchBook(d) == Only(fits[d])

DocBook(d) == IF docs[d] # None THEN docs[d] ELSE MatchBook(d)

Override(d) == choice[d] # NoRow

\* Mutant: the fingerprint is asked before the person.
FindByFile(d) ==
    IF docs[d] = None /\ Override(d) THEN choice[d] ELSE [book |-> DocBook(d), ignored |-> FALSE]

\* findForDevice: the person's choice, the fingerprint, the title.
Find(d) ==
    IF Override(d) THEN choice[d] ELSE [book |-> DocBook(d), ignored |-> FALSE]

Unmatched(t) == {d \in known[t] : row[t][d].book = None /\ ~row[t][d].ignored}

\* Unlike Unmatched, it does not ask whether the person marked the book.
UnmatchedKOReader == {d \in known["stats"] : row["stats"][d].book = None}

-----------------------------------------------------------------------------
(* The library, the index of its files, and the Nightstand.                *)

AddBook(d, b) ==
    /\ b \notin fits[d]
    /\ fits' = [fits EXCEPT ![d] = @ \cup {b}]
    /\ UNCHANGED <<docs, known, row, choice, shelf, job, late>>

IndexFingerprints(d) ==
    /\ Copies[d] # None
    /\ docs' = [docs EXCEPT ![d] = Copies[d]]
    /\ UNCHANGED <<fits, known, row, choice, shelf, job, late>>

RemoveFromQueue(b) ==
    /\ b \in shelf
    /\ shelf' = shelf \ {b}
    /\ UNCHANGED <<fits, docs, known, row, choice, job, late>>

-----------------------------------------------------------------------------
(* A statistics file or a report: each file in it is looked up, then one   *)
(* transaction replaces the table.                                         *)

Free == Cardinality({j \in Job \ {"match"} : job[j].at # "idle"}) < MaxJobs

Work(j, at, s) == job' = [job EXCEPT ![j] = [Idle EXCEPT !.at = at, !.of = s, !.left = s]]

Receive(j) ==
    /\ job[j].at = "idle" /\ Free
    /\ \E s \in SUBSET Doc : Work(j, "look", s)
    /\ UNCHANGED <<fits, docs, known, row, choice, shelf, late>>

\* KOReader uploads its statistics, which are imported in the background, one upload of a
\* person after the other.
DAV == Receive("import")

\* The plugin reports what is on the device.
PluginDevice == Receive("report")

Look(j, d) ==
    /\ j \in {"import", "report"} /\ job[j].at = "look" /\ d \in job[j].left
    /\ job' = [job EXCEPT ![j].left = @ \ {d}, ![j].seen[d] = Find(d)]
    /\ UNCHANGED <<fits, docs, known, row, choice, shelf, late>>

Replace(t, j) ==
    /\ job[j].at = "look" /\ job[j].left = {}
    /\ known' = [known EXCEPT ![t] = job[j].of]
    /\ row' = [row EXCEPT ![t] = job[j].seen]
    /\ late' = [late EXCEPT ![t] = job[j].old]

SaveKOReaderBooks ==
    /\ Replace("stats", "import")
    /\ job' = [job EXCEPT !["import"] = Idle]
    /\ UNCHANGED <<fits, docs, choice, shelf>>

SaveDeviceBooks ==
    /\ Replace("files", "report")
    /\ job' = [job EXCEPT !["report"] = [Idle EXCEPT !.at = "add"]]
    /\ UNCHANGED <<fits, docs, choice, shelf>>

\* autoAddFromDevice. Books read to the end and books the person hid are not
\* added (Nightstand): the set added is any.
AutoAdd(j) ==
    /\ job[j].at = "add"
    /\ \E s \in SUBSET {row["files"][d].book : d \in known["files"]} : shelf' = shelf \cup (s \ {None})
    /\ job' = [job EXCEPT ![j] = Idle]
    /\ UNCHANGED <<fits, docs, known, row, choice, late>>

-----------------------------------------------------------------------------
(* RematchUnmatched, and resolveUnmatched in the background: a list is     *)
(* read, then each file of it is looked up and its row written. The first  *)
(* reads both tables at once, the second one when it is done with another. *)

Link(t, j, d, b) ==
    /\ row' = [row EXCEPT ![t][d].book = IF d \in known[t] THEN b ELSE @]
    /\ late' = [late EXCEPT ![t] = IF d \in known[t] /\ d \in job[j].old THEN @ \cup {d} ELSE @]

\* Who takes a row that was written late takes what was known before the choice.
Take(j, at, t, s, rest) ==
    job' = [job EXCEPT ![j] = [Idle EXCEPT !.at = at, !.left = s, !.of = rest, !.old = s \cap late[t]]]

Rematch ==
    /\ job["rematch"].at = "idle" /\ Free
    /\ Take("rematch", "look", "stats", Unmatched("stats"), Unmatched("files"))
    /\ UNCHANGED <<fits, docs, known, row, choice, shelf, late>>

RematchFiles ==
    /\ job["rematch"].at = "look" /\ job["rematch"].left = {}
    /\ Take("rematch", "files", "files", job["rematch"].of, {})
    /\ UNCHANGED <<fits, docs, known, row, choice, shelf, late>>

Resolve ==
    /\ job["resolve"].at = "idle" /\ Free
    /\ Take("resolve", "look", "stats", UnmatchedKOReader, {})
    /\ UNCHANGED <<fits, docs, known, row, choice, shelf, late>>

ResolveFiles ==
    /\ job["resolve"].at = "look" /\ job["resolve"].left = {}
    /\ Take("resolve", "files", "files", Unmatched("files"), {})
    /\ UNCHANGED <<fits, docs, known, row, choice, shelf, late>>

Finish(j) ==
    /\ j \in {"rematch", "resolve"} /\ job[j].at = "files" /\ job[j].left = {}
    /\ job' = [job EXCEPT ![j] = Idle]
    /\ UNCHANGED <<fits, docs, known, row, choice, shelf, late>>

\* Of a file the person is asked once more, of a title in the statistics not.
RematchOne(d) ==
    LET j == "rematch"
        t == IF job[j].at = "look" THEN "stats" ELSE "files"
        b == IF t = "stats" THEN DocBook(d) ELSE Find(d).book IN
    /\ job[j].at \in {"look", "files"} /\ d \in job[j].left
    /\ job' = [job EXCEPT ![j].left = @ \ {d}, ![j].old = @ \ {d}]
    /\ IF b # None THEN Link(t, j, d, b) ELSE UNCHANGED <<row, late>>
    /\ UNCHANGED <<fits, docs, known, choice, shelf>>

\* Open Library knows it or not; saveLookup keeps what nothing in the library fits.
ResolveOne(d) ==
    LET j == "resolve"
        t == IF job[j].at = "look" THEN "stats" ELSE "files" IN
    /\ job[j].at \in {"look", "files"} /\ d \in job[j].left
    /\ job' = [job EXCEPT ![j].left = @ \ {d}, ![j].old = @ \ {d}]
    /\ \/ UNCHANGED <<fits, docs, row, late>>
       \/ \E b \in Book :
            /\ MatchBook(d) \in {b, None}
            /\ fits' = [fits EXCEPT ![d] = @ \cup {b}]
            /\ docs' = [docs EXCEPT ![d] = b]
            /\ Link(t, j, d, b)
    /\ UNCHANGED <<known, choice, shelf>>

-----------------------------------------------------------------------------
(* The person chooses: one transaction, then the fingerprint, then the     *)
(* Nightstand.                                                             *)

\* What the job will write of the file was found already.
Looked(j, d) ==
    IF j \in {"import", "report"} THEN job[j].at = "look" /\ d \in job[j].of \ job[j].left ELSE d \in job[j].left

ApplyMatch(d, c) ==
    /\ job["match"].at = "idle"
    /\ \E t \in Table : d \in known[t]
    /\ choice' = [choice EXCEPT ![d] = c]
    /\ row' = [t \in Table |-> [row[t] EXCEPT ![d] = IF d \in known[t] THEN c ELSE @]]
    /\ late' = [t \in Table |-> late[t] \ {d}]
    /\ job' = [j \in Job |->
                 IF j = "match"
                 THEN IF c.book # None THEN [Idle EXCEPT !.at = "doc", !.left = {d}, !.seen[d] = c] ELSE Idle
                 ELSE [job[j] EXCEPT !.old = IF Looked(j, d) THEN @ \cup {d} ELSE @]]
    /\ UNCHANGED <<fits, docs, known, shelf>>

SetDocBook(d) ==
    /\ job["match"].at = "doc" /\ d \in job["match"].left
    /\ docs' = [docs EXCEPT ![d] = job["match"].seen[d].book]
    /\ job' = [job EXCEPT !["match"] = [Idle EXCEPT !.at = "add"]]
    /\ UNCHANGED <<fits, known, row, choice, shelf, late>>

-----------------------------------------------------------------------------
(* KOReader sends how far it is (handleKosyncPut).                         *)

\* The fingerprint's book, else one on the Nightstand whose file it is.
KosyncBook(d) ==
    IF docs[d] # None THEN docs[d] ELSE IF Copies[d] \in shelf THEN Copies[d] ELSE None

KosyncPut(d) ==
    /\ KosyncBook(d) # None
    /\ docs' = [docs EXCEPT ![d] = KosyncBook(d)]
    /\ shelf' = shelf \cup {KosyncBook(d)}
    /\ UNCHANGED <<fits, known, row, choice, job, late>>

Next ==
    \/ \E d \in Doc :
         \/ \E b \in Book : AddBook(d, b)
         \/ IndexFingerprints(d) \/ RematchOne(d) \/ ResolveOne(d) \/ SetDocBook(d) \/ KosyncPut(d)
         \/ \E j \in Job : Look(j, d)
         \/ \E c \in Row : (c.ignored => c.book = None) /\ ApplyMatch(d, c)
    \/ \E b \in Book : RemoveFromQueue(b)
    \/ \E j \in Job : Finish(j) \/ AutoAdd(j)
    \/ DAV \/ PluginDevice \/ SaveKOReaderBooks \/ SaveDeviceBooks
    \/ Rematch \/ RematchFiles \/ Resolve \/ ResolveFiles

Spec == Init /\ [][Next]_vars

-----------------------------------------------------------------------------

\* "The choice survives every later report and sync": a row that was last written by somebody
\* who looked after the person chose says what the person said.
ChoiceSurvives ==
    \A t \in Table : \A d \in known[t] \ late[t] :
        Override(d) => /\ row[t][d].ignored = choice[d].ignored
                       /\ choice[d].book # None => row[t][d] = choice[d]
=============================================================================
