------------------------------ MODULE DeepScan ------------------------------
(***************************************************************************)
(* Deep Scans (internal/deepread, store/deepreads.go, deepreview.go and    *)
(* deepdecide.go): one goroutine reads approved scans part by part, hours  *)
(* long, while admins start, stop, order and decide scans, parents rate    *)
(* books by hand, the rating worker rates them too, the Deep Scan machine  *)
(* goes off and on, and the process dies and comes back.                   *)
(*                                                                         *)
(* One SQL statement is one step.  A rating is a level and who made it;    *)
(* the text of a part and the AI's answers are the level they add up to.   *)
(***************************************************************************)
EXTENDS Naturals, Sequences, FiniteSets

CONSTANTS
    Book,       \* books with an EPUB, or without one for a while
    MaxScans,   \* bound: rows of deep_reads
    Admin,      \* what admins and readers do, each of them once
    Level,      \* the pepper levels that occur
    Unrated,    \* a book without a level
    MaxParts,   \* bound: parts of a book, the halves of long ones included
    MaxCrashes  \* bound: how often the process dies

ASSUME DeepScanAssumption ==
    /\ Book # {}
    /\ MaxScans \in Nat \ {0}
    /\ Level \subseteq Nat
    /\ Unrated \notin Level
    /\ MaxParts \in Nat \ {0}
    /\ MaxCrashes \in Nat

Scan == 1..MaxScans
Open == {"requested", "queued", "reading"}
ScanStatus == Open \cup {"none", "done", "error", "declined", "cancelled"}
Source == {"none", "ai", "deep", "parent"}   \* the prefix of analysis_model

NoScan == 0
Tries == 3      \* partTries

VARIABLES
    status,     \* deep_reads.status ("none": no such row yet)
    bookOf,     \* deep_reads.book_id
    position,   \* deep_reads.position
    held,       \* deep_reads.held: the rows with 1
    proposed,   \* deep_reads.proposed_level
    newLevel,   \* deep_reads.new_level
    level,      \* books.spice_level
    source,     \* books.analysis_model
    pc,         \* Runner.Run
    picked,     \* autoQueue's candidates that are left
    cur, prev, parts, part, try, result, single,  \* scan's locals
    wake,       \* Runner.wake
    waiting,    \* Runner.waiting
    machine,    \* the Deep Scan machine answers
    at, item, todo, pick,   \* each admin request: where it is, its scan, the list of a loop, the level
    chosen,     \* and the books it has still to queue
    applied,    \* history: the scans whose rating was saved
    crashes

rows    == <<status, bookOf, position, held, proposed, newLevel>>
books   == <<level, source, applied>>
locals  == <<picked, cur, prev, parts, part, try, result, single>>
signals == <<wake, waiting>>
admins  == <<at, item, todo, pick, chosen>>
world   == <<machine, crashes>>
vars    == <<rows, books, pc, locals, signals, admins, world>>

TypeOK ==
    /\ status \in [Scan -> ScanStatus]
    /\ bookOf \in [Scan -> Book]
    /\ position \in [Scan -> Nat]
    /\ held \subseteq Scan
    /\ proposed \in [Scan -> Level \cup {Unrated}]
    /\ newLevel \in [Scan -> Level \cup {Unrated}]
    /\ level \in [Book -> Level \cup {Unrated}]
    /\ source \in [Book -> Source]
    /\ pc \in {"boot", "auto", "queue", "next", "dial", "idle", "begin", "check", "progress", "ask",
               "confirm", "requeue", "fail", "total", "wrap", "hold", "save", "finish"}
    /\ picked \subseteq Book
    /\ cur \in Scan \cup {NoScan}
    /\ prev \in Level \cup {Unrated}
    /\ parts \in Nat /\ part \in Nat /\ try \in 0..Tries
    /\ result \in Level \cup {Unrated}
    /\ single \in BOOLEAN
    /\ wake \in BOOLEAN /\ waiting \in BOOLEAN
    /\ machine \in {"on", "away"}
    /\ at \in [Admin -> {"new", "save", "close", "each", "order", "batch", "batched", "wake", "done"}]
    /\ item \in [Admin -> Scan \cup {NoScan}]
    /\ todo \in [Admin -> Seq(Scan)]
    /\ pick \in [Admin -> Level \cup {Unrated}]
    /\ chosen \in [Admin -> SUBSET Book]
    /\ applied \subseteq Scan
    /\ crashes \in Nat

Init ==
    /\ status = [s \in Scan |-> "none"]
    /\ bookOf = [s \in Scan |-> CHOOSE b \in Book : TRUE]
    /\ position = [s \in Scan |-> 0]
    /\ held = {}
    /\ proposed = [s \in Scan |-> Unrated]
    /\ newLevel = [s \in Scan |-> Unrated]
    /\ level \in [Book -> Level \cup {Unrated}]
    /\ source = [b \in Book |-> IF level[b] = Unrated THEN "none" ELSE "ai"]
    /\ pc = "boot"
    /\ picked = {} /\ cur = NoScan /\ prev = Unrated /\ parts = 0 /\ part = 0 /\ try = 0
    /\ result = Unrated /\ single = FALSE
    /\ wake = FALSE /\ waiting = FALSE
    /\ machine = "on"
    /\ at = [a \in Admin |-> "new"]
    /\ item = [a \in Admin |-> NoScan]
    /\ todo = [a \in Admin |-> <<>>]
    /\ pick = [a \in Admin |-> Unrated]
    /\ chosen = [a \in Admin |-> {}]
    /\ applied = {}
    /\ crashes = 0

-----------------------------------------------------------------------------
(* The store's statements.                                                 *)

IsOpen(s) == status[s] \in Open
Running(s) == status[s] \in {"queued", "reading"}

\* SaveAnalysis overwrites the book's rating.
SaveAnalysis(b, l, who) ==
    /\ level' = [level EXCEPT ![b] = l]
    /\ source' = [source EXCEPT ![b] = who]

SaveScan(s, l) ==
    /\ SaveAnalysis(bookOf[s], l, "deep")
    /\ applied' = applied \cup {s}

LastPosition == CHOOSE p \in {position[s] : s \in Scan} : \A s \in Scan : position[s] <= p

\* RequestDeepRead: the next row, at the end of the line; the unique index on
\* open scans refuses a second one for the book.
RequestDeepRead(b, approved) ==
    /\ \A s \in Scan : ~(IsOpen(s) /\ bookOf[s] = b)
    /\ \E s \in Scan :
         /\ status[s] = "none" /\ \A t \in Scan : t < s => status[t] # "none"
         /\ status' = [status EXCEPT ![s] = IF approved THEN "queued" ELSE "requested"]
         /\ bookOf' = [bookOf EXCEPT ![s] = b]
         /\ position' = [position EXCEPT ![s] = LastPosition + 1]
    /\ UNCHANGED <<held, proposed, newLevel>>

SetStatusIf(s, from, to) ==
    /\ status' = IF status[s] \in from THEN [status EXCEPT ![s] = to] ELSE status
    /\ UNCHANGED <<bookOf, position, held, proposed, newLevel>>

SetDeepProgress(s) == SetStatusIf(s, {"queued", "reading"}, "reading")

\* Mutant: the row is left as reading.
RequeueDeepReadKeeps(s) == UNCHANGED rows

RequeueDeepRead(s) == SetStatusIf(s, {"reading"}, "queued")

\* Mutant: the WHERE clause only names the row.
FinishDeepReadAlways(s, to, l) ==
    /\ status' = [status EXCEPT ![s] = to]
    /\ newLevel' = [newLevel EXCEPT ![s] = l]
    /\ UNCHANGED <<bookOf, position, held, proposed>>

\* FinishDeepRead leaves a scan that was cancelled meanwhile alone.
FinishDeepRead(s, to, l) ==
    IF Running(s)
      THEN /\ status' = [status EXCEPT ![s] = to]
           /\ newLevel' = [newLevel EXCEPT ![s] = l]
           /\ UNCHANGED <<bookOf, position, held, proposed>>
      ELSE UNCHANGED rows

\* Mutant: held is not set.
HoldDeepReadUnheld(s, l) ==
    IF Running(s)
      THEN /\ status' = [status EXCEPT ![s] = "done"]
           /\ proposed' = [proposed EXCEPT ![s] = l]
           /\ UNCHANGED <<bookOf, position, held, newLevel>>
      ELSE UNCHANGED rows

HoldDeepRead(s, l) ==
    IF Running(s)
      THEN /\ status' = [status EXCEPT ![s] = "done"]
           /\ held' = held \cup {s}
           /\ proposed' = [proposed EXCEPT ![s] = l]
           /\ UNCHANGED <<bookOf, position, newLevel>>
      ELSE UNCHANGED rows

\* The last statement of AcceptDeepRead and SetHeldLevel, WHERE id = ? only.
CloseHeld(s, l) ==
    /\ held' = held \ {s}
    /\ newLevel' = [newLevel EXCEPT ![s] = l]
    /\ UNCHANGED <<status, bookOf, position, proposed>>

DeclineHeld(S) ==
    /\ held' = held \ S
    /\ status' = [s \in Scan |-> IF s \in S THEN "declined" ELSE status[s]]
    /\ UNCHANGED <<bookOf, position, proposed, newLevel>>

FirstQueued(s) ==
    /\ status[s] = "queued"
    /\ \A t \in Scan \ {s} : status[t] = "queued" =>
         position[s] < position[t] \/ (position[s] = position[t] /\ s < t)

-----------------------------------------------------------------------------
(* Runner.Run and scan.                                                    *)

Goto(where) == pc' = where /\ UNCHANGED locals
Others == UNCHANGED <<admins, world>>

\* What a new pass of Run's loop, or a new process, starts from.
Fresh ==
    /\ picked' = {} /\ cur' = NoScan /\ prev' = Unrated /\ parts' = 0 /\ part' = 0 /\ try' = 0
    /\ result' = Unrated /\ single' = FALSE

Again == pc' = "auto" /\ Fresh

ResumeDeepReads ==
    /\ pc = "boot"
    /\ status' = [s \in Scan |-> IF status[s] = "reading" THEN "queued" ELSE status[s]]
    /\ Goto("auto")
    /\ UNCHANGED <<bookOf, position, held, proposed, newLevel, books, signals>> /\ Others

\* DeepCandidates: Nightstand books of the chosen readers that never had a
\* scan and aren't rated by hand or by a scan.
Candidates ==
    {b \in Book : source[b] \in {"none", "ai"} /\ \A s \in Scan : status[s] # "none" => bookOf[s] # b}

DeepCandidates ==
    /\ pc = "auto"
    /\ picked' \in SUBSET Candidates
    /\ pc' = "queue"
    /\ UNCHANGED <<cur, prev, parts, part, try, result, single, rows, books, signals>> /\ Others

\* Queue: one row per book; one without an EPUB, or open meanwhile, is skipped.
\* (Its Wake comes after the last row, which only Run's own select can tell.)
AutoQueue(b) ==
    /\ pc = "queue" /\ b \in picked
    /\ picked' = picked \ {b}
    /\ RequestDeepRead(b, TRUE) /\ wake' = TRUE
    /\ UNCHANGED <<pc, cur, prev, parts, part, try, result, single, books, waiting>> /\ Others

AutoQueued ==
    /\ pc = "queue"
    /\ pc' = "next" /\ picked' = {} /\ waiting' = FALSE
    /\ UNCHANGED <<cur, prev, parts, part, try, result, single, rows, books, wake>> /\ Others

NextDeepRead ==
    /\ pc = "next"
    /\ \/ \E s \in Scan :
            /\ FirstQueued(s)
            /\ cur' = s /\ pc' = "dial"
            /\ UNCHANGED <<picked, prev, parts, part, try, result, single>>
       \/ /\ \A s \in Scan : status[s] # "queued"
          /\ Goto("idle")
    /\ UNCHANGED <<rows, books, signals>> /\ Others

\* machineAway: the scan waits for the machine to be switched on.
Dial ==
    /\ pc = "dial"
    /\ IF machine = "away"
         THEN pc' = "idle" /\ Fresh /\ waiting' = TRUE
         ELSE Goto("begin") /\ UNCHANGED waiting
    /\ UNCHANGED <<rows, books, wake>> /\ Others

IdleWake ==
    /\ pc = "idle" /\ wake
    /\ wake' = FALSE
    /\ Goto("auto")
    /\ UNCHANGED <<rows, books, waiting>> /\ Others

IdleTimer ==
    /\ pc = "idle"
    /\ Goto("auto")
    /\ UNCHANGED <<rows, books, signals>> /\ Others

\* scan reads the book, its level now (prev) and the EPUB's parts.
Begin ==
    /\ pc = "begin"
    /\ \/ \E k \in 1..MaxParts :
            /\ pc' = "check"
            /\ prev' = level[bookOf[cur]]
            /\ parts' = k /\ part' = 0
            /\ UNCHANGED <<picked, cur, try, result, single>>
       \/ Goto("fail")                   \* no EPUB any more, or unreadable
    /\ UNCHANGED <<rows, books, signals>> /\ Others

\* Before every part: a cancelled scan stops here.
CheckCancelled ==
    /\ pc = "check"
    /\ IF status[cur] = "cancelled" THEN Again ELSE Goto("progress")
    /\ UNCHANGED <<rows, books, signals>> /\ Others

Progress ==
    /\ pc = "progress"
    /\ SetDeepProgress(cur)
    /\ pc' = "ask" /\ try' = 1
    /\ UNCHANGED <<picked, cur, prev, parts, part, result, single, books, signals>> /\ Others

\* The tries of one part: an answer, a part too long for the AI (Halve: not a
\* failed try), or no valid answer.  After the first two failures the machine
\* is dialled: if it is away, the scan goes back in line.
PartDone ==
    /\ part' = part + 1 /\ try' = 0
    /\ pc' = IF part + 1 = parts THEN "total" ELSE "check"
    /\ UNCHANGED <<picked, cur, prev, parts, result, single, rows, books, signals>> /\ Others

PartRead == pc = "ask" /\ machine = "on" /\ PartDone

PartTooLong ==
    /\ pc = "ask" /\ machine = "on" /\ try < Tries /\ parts < MaxParts
    /\ parts' = parts + 1
    /\ UNCHANGED <<pc, picked, cur, prev, part, try, result, single, rows, books, signals>> /\ Others

PartIsSpicy ==
    /\ pc = "ask" /\ machine = "on"
    /\ Goto("confirm")
    /\ UNCHANGED <<rows, books, signals>> /\ Others

TryFails ==
    /\ pc = "ask"
    /\ CASE try = Tries -> Goto("fail")
         [] try < Tries /\ machine = "away" -> Goto("requeue")
         [] OTHER -> try' = try + 1 /\ UNCHANGED <<pc, picked, cur, prev, parts, part, result, single>>
    /\ UNCHANGED <<rows, books, signals>> /\ Others

\* confirm: the second look a part rated 3 or more gets, asked once.
Confirm == pc = "confirm" /\ machine = "on" /\ PartDone

ConfirmFails ==
    /\ pc = "confirm"
    /\ Goto("fail")
    /\ UNCHANGED <<rows, books, signals>> /\ Others

Requeue ==
    /\ pc = "requeue"
    /\ RequeueDeepRead(cur)
    /\ Again
    /\ UNCHANGED <<books, signals>> /\ Others

FailScan ==
    /\ pc = "fail"
    /\ FinishDeepRead(cur, "error", Unrated)
    /\ Again
    /\ UNCHANGED <<books, signals>> /\ Others

\* combine: the level of the whole book, and whether one part carries a 4 or more.
Total ==
    /\ pc = "total"
    /\ SetDeepProgress(cur)
    /\ \E l \in Level, one \in BOOLEAN :
         /\ l < 4 => ~one
         /\ result' = l /\ single' = one
    /\ pc' = "wrap"
    /\ UNCHANGED <<picked, cur, prev, parts, part, try, books, signals>> /\ Others

BigJump(p, l) == p # Unrated /\ l >= p + 2
OnePassage(p, l, one) == p # Unrated /\ l >= 4 /\ l > p /\ one

\* wrapUp's answer is in: a big raise is held, anything else is saved.
WrapUp ==
    /\ pc = "wrap"
    /\ Goto(IF BigJump(prev, result) \/ OnePassage(prev, result, single) THEN "hold" ELSE "save")
    /\ UNCHANGED <<rows, books, signals>> /\ Others

Hold ==
    /\ pc = "hold"
    /\ HoldDeepRead(cur, result)
    /\ Again
    /\ UNCHANGED <<books, signals>> /\ Others

Save ==
    /\ pc = "save"
    /\ SaveScan(cur, result)
    /\ Goto("finish")
    /\ UNCHANGED <<rows, signals>> /\ Others

Finish ==
    /\ pc = "finish"
    /\ FinishDeepRead(cur, "done", result)
    /\ Again
    /\ UNCHANGED <<books, signals>> /\ Others

RunnerStep ==
    \/ ResumeDeepReads \/ DeepCandidates \/ AutoQueued \/ NextDeepRead \/ Dial \/ IdleWake \/ IdleTimer
    \/ Begin \/ CheckCancelled \/ Progress \/ PartRead \/ PartIsSpicy \/ TryFails
    \/ Confirm \/ ConfirmFails \/ Requeue \/ FailScan \/ Total \/ WrapUp \/ Hold \/ Save \/ Finish

-----------------------------------------------------------------------------
(* Admins and readers.  Decisions end with Runner.Wake.                    *)

Step(a, where) == at' = [at EXCEPT ![a] = where] /\ UNCHANGED <<item, todo, pick, chosen>>
Runner == UNCHANGED <<pc, locals, waiting, world>>

\* An admin's scan is approved at once; anyone else's waits for approval.
StartDeepScan(a, b) ==
    /\ at[a] = "new"
    /\ \E approved \in BOOLEAN :
         /\ RequestDeepRead(b, approved)
         /\ Step(a, IF approved THEN "wake" ELSE "done")
    /\ UNCHANGED <<books, wake>> /\ Runner

\* DecideDeepRead: one guarded UPDATE, in another state it changes nothing.
DecideDeepRead(a, s) ==
    /\ at[a] = "new"
    /\ \/ status[s] = "requested" /\ SetStatusIf(s, {"requested"}, "queued")
       \/ status[s] = "requested" /\ SetStatusIf(s, {"requested"}, "declined")
       \/ Running(s) /\ SetStatusIf(s, {"queued", "reading"}, "cancelled")
    /\ Step(a, "wake")
    /\ UNCHANGED <<books, wake>> /\ Runner

KeepOldRating(a, s) ==
    /\ at[a] = "new" /\ s \in held
    /\ DeclineHeld({s})
    /\ Step(a, "wake")
    /\ UNCHANGED <<books, wake>> /\ Runner

KeepAllOldRatings(a) ==
    /\ at[a] = "new" /\ held # {}
    /\ DeclineHeld(held)
    /\ Step(a, "done")
    /\ UNCHANGED <<books, wake>> /\ Runner

\* AcceptDeepRead (the proposal) and SetHeldLevel (the admin's own level)
\* read the held row, save the rating, then close the row: three statements.
AcceptOrSet(a, s) ==
    /\ at[a] = "new" /\ s \in held
    /\ \E l \in Level : pick' = [pick EXCEPT ![a] = l]
    /\ item' = [item EXCEPT ![a] = s]
    /\ at' = [at EXCEPT ![a] = "save"]
    /\ UNCHANGED <<todo, chosen, rows, books, wake>> /\ Runner

AcceptSave(a) ==
    /\ at[a] = "save"
    /\ SaveScan(item[a], pick[a])
    /\ Step(a, "close")
    /\ UNCHANGED <<rows, wake>> /\ Runner

TakeNext(a) ==
    /\ todo' = [todo EXCEPT ![a] = Tail(@)]
    /\ at' = [at EXCEPT ![a] = IF Len(todo[a]) = 1 THEN "done" ELSE "each"]

AcceptClose(a) ==
    /\ at[a] = "close"
    /\ CloseHeld(item[a], pick[a])
    /\ item' = [item EXCEPT ![a] = NoScan]
    /\ pick' = [pick EXCEPT ![a] = Unrated]
    /\ IF todo[a] = <<>>
         THEN at' = [at EXCEPT ![a] = "wake"] /\ UNCHANGED todo
         ELSE TakeNext(a)
    /\ UNCHANGED <<chosen, books, wake>> /\ Runner

\* AcceptAllHeld: the held ids once, then AcceptDeepRead for each, which
\* skips one that isn't held any more.
Ordered(q) == \A i, j \in DOMAIN q : i < j => q[i] < q[j]

AcceptAllHeld(a) ==
    /\ at[a] = "new" /\ held # {}
    /\ \E q \in [1..Cardinality(held) -> held] :
         /\ Ordered(q)
         /\ todo' = [todo EXCEPT ![a] = q]
    /\ at' = [at EXCEPT ![a] = "each"]
    /\ UNCHANGED <<item, pick, chosen, rows, books, wake>> /\ Runner

AcceptNext(a) ==
    /\ at[a] = "each"
    /\ LET s == Head(todo[a]) IN
         IF s \in held
           THEN /\ item' = [item EXCEPT ![a] = s]
                /\ pick' = [pick EXCEPT ![a] = proposed[s]]
                /\ at' = [at EXCEPT ![a] = "save"]
                /\ UNCHANGED todo
           ELSE TakeNext(a) /\ UNCHANGED <<item, pick>>
    /\ UNCHANGED <<chosen, rows, books, wake>> /\ Runner

\* OrderDeepReads: the dragged order, one UPDATE per row.
OrderDeepReads(a) ==
    /\ at[a] = "new"
    /\ \E q \in UNION {[1..k -> Scan] : k \in 1..MaxScans} :
         /\ \A i, j \in DOMAIN q : i # j => q[i] # q[j]
         /\ \A i \in DOMAIN q : status[q[i]] # "none"
         /\ todo' = [todo EXCEPT ![a] = q]
    /\ at' = [at EXCEPT ![a] = "order"]
    /\ item' = [item EXCEPT ![a] = 1]
    /\ UNCHANGED <<pick, chosen, rows, books, wake>> /\ Runner

OrderOne(a) ==
    /\ at[a] = "order"
    /\ LET i == item[a]  s == todo[a][i] IN
         /\ position' = IF status[s] \in {"queued", "requested"} THEN [position EXCEPT ![s] = i] ELSE position
         /\ IF i = Len(todo[a])
              THEN /\ at' = [at EXCEPT ![a] = "done"]
                   /\ item' = [item EXCEPT ![a] = NoScan]
                   /\ todo' = [todo EXCEPT ![a] = <<>>]
              ELSE item' = [item EXCEPT ![a] = i + 1] /\ UNCHANGED <<at, todo>>
    /\ UNCHANGED <<pick, chosen, status, bookOf, held, proposed, newLevel, books, wake>> /\ Runner

\* The next books of everybody's Nightstand that can be scanned, as many as were asked for.
NextInQueues == {S \in SUBSET Candidates : S # {}}

\* handleDeepScanNext: they are picked first, then Queue makes one row per book.
QueueNext(a) ==
    /\ at[a] = "new"
    /\ \E S \in NextInQueues : chosen' = [chosen EXCEPT ![a] = S]
    /\ at' = [at EXCEPT ![a] = "batch"]
    /\ UNCHANGED <<item, todo, pick, rows, books, wake>> /\ Runner

\* As in AutoQueue, a book with an open scan by now, or without an EPUB, is skipped.
QueueOne(a, b) ==
    /\ at[a] \in {"batch", "batched"} /\ b \in chosen[a]
    /\ chosen' = [chosen EXCEPT ![a] = @ \ {b}]
    /\ RequestDeepRead(b, TRUE)
    /\ at' = [at EXCEPT ![a] = "batched"]
    /\ UNCHANGED <<item, todo, pick, books, wake>> /\ Runner

\* The end of the loop; the runner is woken if a row was made.
QueueEnds(a) ==
    /\ at[a] \in {"batch", "batched"}
    /\ chosen' = [chosen EXCEPT ![a] = {}]
    /\ at' = [at EXCEPT ![a] = IF at[a] = "batched" THEN "wake" ELSE "done"]
    /\ UNCHANGED <<item, todo, pick, rows, books, wake>> /\ Runner

Wake(a) ==
    /\ at[a] = "wake"
    /\ wake' = TRUE
    /\ Step(a, "done")
    /\ UNCHANGED <<rows, books>> /\ Runner

AdminArrives(a) ==
    \/ \E b \in Book : StartDeepScan(a, b)
    \/ \E s \in Scan : DecideDeepRead(a, s) \/ KeepOldRating(a, s) \/ AcceptOrSet(a, s)
    \/ KeepAllOldRatings(a) \/ AcceptAllHeld(a) \/ OrderDeepReads(a) \/ QueueNext(a)

AdminStep(a) == AcceptSave(a) \/ AcceptClose(a) \/ AcceptNext(a) \/ OrderOne(a) \/ QueueEnds(a) \/ Wake(a)

-----------------------------------------------------------------------------
(* The rest of the world.                                                  *)

\* A parent rates the book by hand, or the rating worker does.
RateOtherwise(b) ==
    /\ \E l \in Level, who \in {"ai", "parent"} : SaveAnalysis(b, l, who)
    /\ UNCHANGED <<rows, applied, pc, locals, signals, admins, world>>

MachineSwitched ==
    /\ machine' = IF machine = "on" THEN "away" ELSE "on"
    /\ UNCHANGED <<rows, books, pc, locals, signals, admins, crashes>>

\* The process dies (or stops: scan returns at its next step) and restarts.
Crash ==
    /\ crashes < MaxCrashes
    /\ crashes' = crashes + 1
    /\ pc' = "boot" /\ Fresh
    /\ wake' = FALSE /\ waiting' = FALSE
    /\ at' = [a \in Admin |-> IF at[a] = "new" THEN "new" ELSE "done"]
    /\ item' = [a \in Admin |-> NoScan]
    /\ todo' = [a \in Admin |-> <<>>]
    /\ pick' = [a \in Admin |-> Unrated]
    /\ chosen' = [a \in Admin |-> {}]
    /\ UNCHANGED <<rows, books, machine>>

Next ==
    \/ RunnerStep \/ PartTooLong
    \/ \E a \in Admin : AdminArrives(a) \/ AdminStep(a) \/ \E b \in Book : QueueOne(a, b)
    \/ \E b \in Book : AutoQueue(b) \/ RateOtherwise(b)
    \/ MachineSwitched \/ Crash

Spec == Init /\ [][Next]_vars

-----------------------------------------------------------------------------
(* Safety.                                                                 *)

\* A row shown as reading is the scan Run's loop holds; only a restart leaves one
\* behind, and ResumeDeepReads takes it back before anything is picked.
ReadingIsCurrent(s) == status[s] = "reading" => pc = "boot" \/ s = cur

\* A scan listed as done and not waiting for review is in the audit log as the
\* book's rating: SaveAnalysis ran for it, across crashes, cancels and decisions.
DoneWasApplied ==
    \A s \in Scan : status[s] = "done" /\ s \notin held => s \in applied

\* Run's loop sleeps beside an approved scan only when the machine is away, or when a
\* wake-up is in the channel or about to be sent: approving does not wait for the timer.
NoForgottenScan ==
    (pc = "idle" /\ \E s \in Scan : status[s] = "queued")
        => waiting \/ wake \/ \E a \in Admin : at[a] \in {"batched", "wake"}

\* What the rows of scans say: one listed as done was applied, and an approved one is not
\* left beside a sleeping runner that nothing will wake.
ScansAreTrue == TypeOK /\ DoneWasApplied /\ NoForgottenScan

-----------------------------------------------------------------------------
(* A scan's rows implement the life of a scan.                             *)

PhaseOf(s) ==
    CASE status[s] = "none"      -> "none"
      [] status[s] = "requested" -> "asked"
      [] status[s] = "queued"    -> "waiting"
      [] status[s] = "reading"   -> "reading"
      [] status[s] = "done"      -> IF s \in held THEN "review" ELSE "applied"
      [] status[s] = "declined"  -> IF proposed[s] = Unrated THEN "refused" ELSE "kept"
      [] status[s] = "cancelled" -> "stopped"
      [] status[s] = "error"     -> "failed"

Life == INSTANCE ScanLifecycle WITH phase <- [s \in Scan |-> PhaseOf(s)]

\* No interleaving of the runner, the admins and a restart takes a scan back out of a
\* final phase, past its review or past its approval.
ImplementsLifecycle == Life!Spec

-----------------------------------------------------------------------------
(* Liveness.  Run and every handler are scheduled, the two-minute timer    *)
(* fires, and a call to the AI ends; nobody has to switch the machine on.  *)

Fairness == WF_vars(RunnerStep) /\ \A a \in Admin : WF_vars(AdminStep(a))
LiveSpec == Spec /\ Fairness

\* While the machine stays on, every approved scan is read to its end, whatever was
\* reordered, cancelled or interrupted before it.
ApprovedScanEnds ==
    <>[](machine = "on") => \A s \in Scan : status[s] = "queued" ~> ~IsOpen(s)
=============================================================================
