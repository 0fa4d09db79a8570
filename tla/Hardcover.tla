----------------------------- MODULE Hardcover -----------------------------
(***************************************************************************)
(* Sending where a person is to their Hardcover account (hardcover/push.go *)
(* and sync.go, store/hardcover.go): the hourly loop and "Sync now" each   *)
(* pull the shelves, list what is not at Hardcover yet, and bring one book *)
(* after another in line: find its edition, read the person's entry, raise *)
(* its status, raise its pages, remember what was sent. Each of these is a *)
(* call that may fail, and a failure ends the run.                         *)
(*                                                                         *)
(* How far is the same number here and there. A book is in the list for    *)
(* fourteen days; the model stays within them.                             *)
(***************************************************************************)
EXTENDS Naturals, Sequences, FiniteSets

CONSTANTS
    Book,
    Unknown,   \* the books Hardcover does not have
    Pusher,    \* the loop and the pages that were asked to sync
    MaxActs    \* bound: what the person does, here and there

Want    == 1
Reading == 2
ReadAll == 3
DNF     == 5
Pages   == 2       \* how long a book is

VARIABLES
    here,      \* the Nightstand: 0, or what Hardcover would call its status
    page,      \* how far the person is, by the newest word
    newest,    \* whose word that is
    there,     \* the person's entries at Hardcover: status (0: none) and pages
    last,      \* where the person, or a push, changed the book last
    pushed,    \* hardcover_pushed: the status and the pages sent
    job,       \* each pusher: the books left, its step, and the entry it read
    acts

vars == <<here, page, newest, there, last, pushed, job, acts>>

Entry == [st : 0..DNF, pages : 0..Pages]
Sent  == [b : Book, st : {Reading, ReadAll}, pages : 0..Pages]
Idle  == [at |-> "idle", left |-> <<>>, saw |-> [st |-> 0, pages |-> 0]]

TypeOK ==
    /\ here \in [Book -> {0, Reading, ReadAll}]
    /\ page \in [Book -> 0..Pages]
    /\ newest \in [Book -> {"here", "hardcover"}] /\ last \in [Book -> {"here", "hardcover"}]
    /\ there \in [Book -> Entry]
    /\ pushed \in [Book -> Entry]
    /\ \A p \in Pusher :
         /\ job[p].at \in {"idle", "list", "edition", "find", "status", "pages", "mark"}
         /\ \A i \in DOMAIN job[p].left : job[p].left[i] \in Sent
         /\ job[p].saw \in Entry
    /\ acts \in 0..MaxActs

Init ==
    /\ here = [b \in Book |-> 0] /\ page = [b \in Book |-> 0]
    /\ newest = [b \in Book |-> "here"] /\ last = [b \in Book |-> "here"]
    /\ there = [b \in Book |-> [st |-> 0, pages |-> 0]]
    /\ pushed = [b \in Book |-> [st |-> 0, pages |-> 0]]
    /\ job = [p \in Pusher |-> Idle]
    /\ acts = 0

-----------------------------------------------------------------------------
(* The person, here and at Hardcover.                                      *)

Act == acts < MaxActs /\ acts' = acts + 1

Say(b, st, n) ==
    /\ Act
    /\ here' = [here EXCEPT ![b] = st]
    /\ page' = [page EXCEPT ![b] = n]
    /\ newest' = [newest EXCEPT ![b] = "here"] /\ last' = [last EXCEPT ![b] = "here"]
    /\ UNCHANGED <<there, pushed, job>>

\* Reading on, finishing, or taking it up again.
Read(b) ==
    \/ page[b] < Pages /\ Say(b, Reading, page[b] + 1)
    \/ here[b] = Reading /\ Say(b, ReadAll, Pages)
    \/ here[b] = ReadAll /\ Say(b, Reading, 0)

\* There the person moves forward.
AtHardcover(b) ==
    /\ Act /\ b \notin Unknown
    /\ \E st \in {Want, Reading, ReadAll, DNF} :
         /\ st > there[b].st
         /\ there' = [there EXCEPT ![b] = [st |-> st, pages |-> IF st = ReadAll THEN Pages ELSE @.pages]]
    /\ last' = [last EXCEPT ![b] = "hardcover"]
    /\ UNCHANGED <<here, page, newest, pushed, job>>

-----------------------------------------------------------------------------
(* SyncUser, then PushUser.                                                *)

\* What a pull brings: the shelves of what the person reads and has read.
Shelves == {b \in Book : there[b].st \in {Reading, ReadAll}}

\* SaveHardcover: a book that changed there since it changed here moves along.
Heard == {b \in Shelves : last[b] = "hardcover"}

Sync(p) ==
    /\ job[p].at = "idle"
    /\ here' = [b \in Book |-> IF b \in Heard /\ here[b] = Reading THEN there[b].st ELSE here[b]]
    /\ page' = [b \in Book |-> IF b \in Heard /\ there[b].pages > 0 THEN there[b].pages ELSE page[b]]
    /\ newest' = [b \in Book |-> IF b \in Heard /\ there[b].pages > 0 THEN "hardcover" ELSE newest[b]]
    /\ job' = [job EXCEPT ![p].at = "list"]
    /\ UNCHANGED <<there, last, pushed, acts>>

ToSend(b) == [b |-> b, st |-> here[b], pages |-> IF here[b] = ReadAll THEN Pages ELSE page[b]]

Pending ==
    {ToSend(b) : b \in {c \in Book :
        /\ here[c] # 0
        /\ ~(newest[c] = "hardcover" /\ here[c] = Reading)
        /\ ~(pushed[c].st = here[c] /\ (here[c] = ReadAll \/ pushed[c].pages = page[c]))}}

\* HardcoverPending: the latest first, whichever that is.
List(p) ==
    /\ job[p].at = "list"
    /\ \E s \in [1..Cardinality(Pending) -> Pending] :
         /\ \A i, j \in DOMAIN s : s[i] = s[j] => i = j
         /\ job' = [job EXCEPT ![p] = IF Pending = {} THEN Idle ELSE [Idle EXCEPT !.at = "edition", !.left = s]]
    /\ UNCHANGED <<here, page, newest, there, last, pushed, acts>>

Now(p) == Head(job[p].left)
Goes(p, at) == job[p].at = at
Then(p, at) == job' = [job EXCEPT ![p].at = at]

\* Any call may fail, and the loop comes again in an hour.
Fail(p) ==
    /\ job[p].at \in {"edition", "find", "status", "pages"}
    /\ job' = [job EXCEPT ![p] = Idle]
    /\ UNCHANGED <<here, page, newest, there, last, pushed, acts>>

FindEdition(p) ==
    /\ Goes(p, "edition")
    /\ Then(p, IF Now(p).b \in Unknown THEN "mark" ELSE "find")
    /\ UNCHANGED <<here, page, newest, there, last, pushed, acts>>

FindUserBook(p) ==
    /\ Goes(p, "find")
    /\ job' = [job EXCEPT ![p].at = "status", ![p].saw = there[Now(p).b]]
    /\ UNCHANGED <<here, page, newest, there, last, pushed, acts>>

\* insert_user_book, or update_user_book when the entry read was not as far.
SetStatus(p) ==
    LET b == Now(p).b IN
    /\ Goes(p, "status")
    /\ IF job[p].saw.st < Now(p).st
       THEN there' = [there EXCEPT ![b].st = Now(p).st] /\ last' = [last EXCEPT ![b] = "hardcover"]
       ELSE UNCHANGED <<there, last>>
    /\ Then(p, "pages")
    /\ UNCHANGED <<here, page, newest, pushed, acts>>

SetPages(p) ==
    LET b == Now(p).b IN
    /\ Goes(p, "pages")
    /\ IF Now(p).pages > job[p].saw.pages \/ Now(p).st = ReadAll
       THEN there' = [there EXCEPT ![b].pages = Now(p).pages] /\ last' = [last EXCEPT ![b] = "hardcover"]
       ELSE UNCHANGED <<there, last>>
    /\ Then(p, "mark")
    /\ UNCHANGED <<here, page, newest, pushed, acts>>

\* Mutant: what is here now is remembered, not what was sent.
MarkWhatIsHere(p) ==
    LET b == Now(p).b IN
    /\ Goes(p, "mark")
    /\ pushed' = [pushed EXCEPT ![b] = [st |-> here[b], pages |-> ToSend(b).pages]]
    /\ job' = [job EXCEPT ![p] = IF Len(@.left) = 1 THEN Idle ELSE [Idle EXCEPT !.at = "edition", !.left = Tail(job[p].left)]]
    /\ UNCHANGED <<here, page, newest, there, last, acts>>

MarkHardcoverPushed(p) ==
    /\ Goes(p, "mark")
    /\ pushed' = [pushed EXCEPT ![Now(p).b] = [st |-> Now(p).st, pages |-> Now(p).pages]]
    /\ job' = [job EXCEPT ![p] = IF Len(@.left) = 1 THEN Idle ELSE [Idle EXCEPT !.at = "edition", !.left = Tail(job[p].left)]]
    /\ UNCHANGED <<here, page, newest, there, last, acts>>

Answered(p) == FindEdition(p) \/ FindUserBook(p) \/ SetStatus(p) \/ SetPages(p)

Next ==
    \/ \E b \in Book : Read(b) \/ AtHardcover(b)
    \/ \E p \in Pusher : Sync(p) \/ List(p) \/ Fail(p) \/ Answered(p) \/ MarkHardcoverPushed(p)

\* The loop comes back, and Hardcover, asked again and again, answers.
Fairness ==
    \A p \in Pusher :
      /\ WF_vars(Sync(p) \/ List(p) \/ MarkHardcoverPushed(p))
      /\ SF_vars(FindEdition(p)) /\ SF_vars(FindUserBook(p)) /\ SF_vars(SetStatus(p)) /\ SF_vars(SetPages(p))

Spec == Init /\ [][Next]_vars /\ Fairness

-----------------------------------------------------------------------------

\* "Books Hardcover doesn't know are marked done so they aren't retried every hour", and
\* "nothing is sent twice": when the person stops, there comes a time with nothing to send.
PushesSettle ==
    <>[](Pending = {})

\* "It never lowers progress or a status already further along": a book finished here is
\* not left at Hardcover as being read.
FinishedReaches ==
    <>[](\A b \in Book \ Unknown : here[b] = ReadAll => there[b].st >= ReadAll)
=============================================================================
