---------------------------- MODULE Nightstand ----------------------------
(***************************************************************************)
(* A person's Nightstand (store/queue.go, readingprogress.go, kosync.go,   *)
(* hardcover.go, api/queue_handlers.go, api/kindleadd.go): the person      *)
(* puts books there, orders, hides, starts and finishes them, and what     *)
(* KOReader and Hardcover report moves them along. A report is a snapshot: *)
(* it is taken, then read and matched, and saved later.                    *)
(*                                                                         *)
(* Where a book stands in the list and its delivery note are left out.     *)
(* Starting a book delivers it first, which may take long and may fail.    *)
(***************************************************************************)
EXTENDS Naturals

CONSTANTS
    Book,
    Shelf,     \* what sends all it knows with each sync: KOReader's statistics, Hardcover
    MaxNow     \* bound: the clock

VARIABLES
    now,
    item,      \* queue_items: status, hidden and updated_at; NoItem: not there
    place,     \* where the person is, by what they read on: how far, and when
    report,    \* a snapshot on its way, of each source that sends one
    saved,     \* what each source said last
    starting,  \* books whose delivery is on its way
    adding,    \* the status a book on the device will be added with
    touched    \* history: when the person last did something to the book

vars == <<now, item, place, report, saved, starting, adding, touched>>

Status == {"queued", "reading", "finished"}
NoItem == [status |-> "none", hidden |-> FALSE, at |-> 0]

\* How far: at the first page, somewhere in it, at 97 % or more. A book not opened is Silent.
Far     == {"no", "part", "end"}
Word    == [far : Far, at : 0..MaxNow]
Silent  == [far |-> "no", at |-> 0]
Source  == Shelf \cup {"kosync"}          \* kosync: what KOReader sends as it opens and closes a book
Nothing == [b \in Book |-> Silent]
None    == "none"

Item == [status : Status \cup {None}, hidden : BOOLEAN, at : 0..MaxNow]

TypeOK ==
    /\ now \in 0..MaxNow
    /\ item \in [Book -> Item]
    /\ place \in [Shelf -> [Book -> Word]]
    /\ report \in [Shelf -> [on : BOOLEAN, says : [Book -> Word]]]
    /\ saved \in [Source -> [Book -> Word]]
    /\ starting \subseteq Book
    /\ adding \in [Book -> {None, "queued", "reading"}]
    /\ touched \in [Book -> 0..MaxNow]

Init ==
    /\ now = 0
    /\ item = [b \in Book |-> NoItem]
    /\ place = [s \in Shelf |-> Nothing]
    /\ report = [s \in Shelf |-> [on |-> FALSE, says |-> Nothing]]
    /\ saved = [s \in Source |-> Nothing]
    /\ starting = {}
    /\ adding = [b \in Book |-> None]
    /\ touched = [b \in Book |-> 0]

There(b) == item[b] # NoItem

-----------------------------------------------------------------------------
(* The person.                                                             *)

Tick ==
    /\ now < MaxNow /\ now' = now + 1
    /\ UNCHANGED <<item, place, report, saved, starting, adding, touched>>

Touch(b) == touched' = [touched EXCEPT ![b] = now]
Put(b, st, hid) == item' = [item EXCEPT ![b] = [status |-> st, hidden |-> hid, at |-> now]]

\* A new item, or the one there is, to be read again.
Enqueue(b) == Put(b, IF item[b].status \in {None, "finished"} THEN "queued" ELSE item[b].status, FALSE)

HandleEnqueue(b) ==
    /\ Enqueue(b) /\ Touch(b)
    /\ UNCHANGED <<now, place, report, saved, starting, adding>>

\* Only Enqueue, reordering and a status write updated_at.
SetQueueHidden(b, hid) == item' = [item EXCEPT ![b].hidden = hid]

HandleHideQueueItem(b, hid) ==
    /\ There(b) /\ SetQueueHidden(b, hid)
    /\ UNCHANGED <<now, place, report, saved, starting, adding, touched>>

RemoveFromQueue(b) == item' = [item EXCEPT ![b] = NoItem]

HandleDequeue(b) ==
    /\ There(b) /\ RemoveFromQueue(b) /\ Touch(b)
    /\ UNCHANGED <<now, place, report, saved, starting, adding>>

\* One transaction: an item that is gone, or somebody else's, undoes it all.
ReorderQueue(s) ==
    /\ \A b \in s : There(b)
    /\ item' = [b \in Book |-> IF b \in s THEN [item[b] EXCEPT !.at = now] ELSE item[b]]

HandleReorderQueue(s) ==
    /\ s # {} /\ ReorderQueue(s)
    /\ touched' = [b \in Book |-> IF b \in s THEN now ELSE touched[b]]
    /\ UNCHANGED <<now, place, report, saved, starting, adding>>

StartReading(b) ==
    /\ There(b) /\ b \notin starting
    /\ starting' = starting \cup {b}
    /\ UNCHANGED <<now, item, place, report, saved, adding, touched>>

\* The book may have been finished, or taken off, while it was on its way.
Deliver(b) ==
    /\ b \in starting
    /\ starting' = starting \ {b}
    /\ \/ UNCHANGED <<item, touched>>
       \/ /\ IF There(b) THEN Put(b, "reading", item[b].hidden) ELSE item' = item
          /\ Touch(b)
    /\ UNCHANGED <<now, place, report, saved, adding>>

FinishReading(b) ==
    /\ There(b)
    /\ Put(b, "finished", item[b].hidden)
    /\ Touch(b)
    /\ UNCHANGED <<now, place, report, saved, starting, adding>>

\* Turning pages, or noting a book on Hardcover.
Read(s, b, f) ==
    /\ now > 0
    /\ place' = [place EXCEPT ![s][b] = [far |-> f, at |-> now]]
    /\ UNCHANGED <<now, item, report, saved, starting, adding, touched>>

-----------------------------------------------------------------------------
(* What moves books along.                                                 *)

\* A report only starts a book or finishes it.
Says(w)    == IF w.far = "end" THEN "finished" ELSE "reading"

Further(st, to) == st = "queued" \/ (st = "reading" /\ to = "finished")

Send(s) ==
    /\ ~report[s].on
    /\ report' = [report EXCEPT ![s] = [on |-> TRUE, says |-> place[s]]]
    /\ UNCHANGED <<now, item, place, saved, starting, adding, touched>>

\* Mutant: statistics of years ago move a book that was put back yesterday.
MovesWheneverRead(b, w) == There(b) /\ w.at > 0 /\ Further(item[b].status, Says(w))

\* A statistics file holds years of reading: only what was opened after updated_at counts.
Moves(b, w) ==
    /\ There(b)
    /\ item[b].at < w.at
    /\ Further(item[b].status, Says(w))

\* SaveKOReaderBooks and SaveHardcover.
SaveBooks(s) ==
    LET says == report[s].says IN
    /\ report[s].on
    /\ saved' = [saved EXCEPT ![s] = says]
    /\ item' = [b \in Book |-> IF Moves(b, says[b])
                               THEN [status |-> Says(says[b]), hidden |-> item[b].hidden, at |-> now]
                               ELSE item[b]]
    /\ report' = [report EXCEPT ![s] = [on |-> FALSE, says |-> Nothing]]
    /\ UNCHANGED <<now, place, starting, adding, touched>>

\* Never back, and a book that is not there is added.
SyncReading(b, w) ==
    item' = [item EXCEPT ![b] = IF ~There(b) \/ Further(item[b].status, Says(w))
                                THEN [status |-> Says(w), hidden |-> item[b].hidden, at |-> now]
                                ELSE @]

KosyncPut(b) ==
    LET w == place["koreader"][b] IN
    /\ w.at > 0
    /\ saved' = [saved EXCEPT !["kosync"][b] = [w EXCEPT !.at = now]]
    /\ IF w.far # "no" THEN SyncReading(b, w) ELSE item' = item
    /\ UNCHANGED <<now, place, report, starting, adding, touched>>

\* ReadingProgress: the newest word wins.
Newest(b) ==
    LET words == {saved[s][b] : s \in Source} IN
    CHOOSE w \in words : \A v \in words : v.at <= w.at

\* autoAddFromDevice reads the progress, and adds afterwards.
Consider(b) ==
    /\ adding[b] = None
    /\ Newest(b).far # "end"
    /\ adding' = [adding EXCEPT ![b] = IF Newest(b).far = "no" THEN "queued" ELSE "reading"]
    /\ UNCHANGED <<now, item, place, report, saved, starting, touched>>

EnqueueAuto(b) ==
    /\ adding[b] # None
    /\ IF There(b) THEN item' = item ELSE Put(b, adding[b], FALSE)
    /\ adding' = [adding EXCEPT ![b] = None]
    /\ UNCHANGED <<now, place, report, saved, starting, touched>>

Machine ==
    \/ \E s \in Shelf : SaveBooks(s)
    \/ \E b \in Book : KosyncPut(b) \/ EnqueueAuto(b)

Next ==
    \/ Tick \/ Machine
    \/ \E b \in Book :
         \/ HandleEnqueue(b) \/ HandleDequeue(b) \/ StartReading(b) \/ Deliver(b) \/ FinishReading(b)
         \/ \E hid \in BOOLEAN : HandleHideQueueItem(b, hid)
         \/ \E s \in Shelf, f \in Far : Read(s, b, f)
         \/ Consider(b)
    \/ \E s \in SUBSET Book : HandleReorderQueue(s)
    \/ \E s \in Shelf : Send(s)

Spec == Init /\ [][Next]_vars

-----------------------------------------------------------------------------

Rank(st) == CASE st = None -> 0 [] st = "queued" -> 1 [] st = "reading" -> 2 [] OTHER -> 3

\* Nothing a device or Hardcover reports, in whatever order reports arrive, moves a book back,
\* takes it off, or brings back one the person hid.
NeverBack ==
    Machine => \A b \in Book :
      /\ Rank(item'[b].status) >= Rank(item[b].status)
      /\ There(b) => item'[b].hidden = item[b].hidden

\* A sync moves no book that the person put back, started, finished or ordered after the
\* reading it tells of: a book to be read again does not end at once.
OldReadingMovesNothing ==
    \A s \in Shelf : SaveBooks(s) =>
      \A b \in Book : report[s].says[b].at <= touched[b] => item'[b] = item[b]

\* "Books already in their Nightstand move along": after a sync, a book opened since the
\* person last touched it and since it last moved is not waiting any more.
OpenedMovesAlong ==
    \A s \in Shelf : SaveBooks(s) =>
      \A b \in Book : There(b) /\ report[s].says[b].at > item[b].at
         => Rank(item'[b].status) >= Rank(Says(report[s].says[b]))
=============================================================================
