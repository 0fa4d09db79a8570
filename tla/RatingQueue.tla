---------------------------- MODULE RatingQueue ----------------------------
(***************************************************************************)
(* The rating worker (internal/analyzer) and everything that shares a      *)
(* book's status with it: the admin and reader handlers that queue books,  *)
(* empty the queue or ask for a re-rate, the background check of a         *)
(* looked-up book (RateNow), the bigger machine (RateWith), a parent's     *)
(* hand-made rating, a Deep Scan's rating, and the process that starts,    *)
(* is told to stop, and dies.                                              *)
(*                                                                         *)
(* The database has one connection, so one SQL statement is one step; a    *)
(* section under Worker.mu is one step; everything between two of them     *)
(* can be interleaved.  Ratings are abstracted to who made them; store     *)
(* calls succeed (a failed one is logged or ignored by the code), and a    *)
(* call to an AI ends with an answer or with an error.                     *)
(***************************************************************************)
EXTENDS Naturals, Sequences, FiniteSets

CONSTANTS
    Book,       \* the books of the library
    Req,        \* the requests people make, each of them once
    Worker,     \* the goroutine of Worker.Run
    None,       \* no book in hand
    Batch,      \* books per batch (batch_size, or the caps maxFeed and maxBatch)
    RateGate,   \* what AutoRateOn and RateHoursOpen may answer
    SafeBoots,  \* whether a start may be in safe mode
    MaxStops    \* bound: how often the process ends

ASSUME RatingAssumption ==
    /\ Batch \in Nat \ {0}
    /\ RateGate \subseteq BOOLEAN
    /\ SafeBoots \subseteq BOOLEAN
    /\ MaxStops \in Nat
    /\ Worker \notin Req
    /\ None \notin Book
    /\ IsFiniteSet(Book)

Actor == Req \cup {Worker}

Status == {"pending", "queued", "processing", "analyzed", "error"}
Rater  == {"none", "ai", "deep", "parent"}     \* the prefix of analysis_model
Errors == {"", "ai", "shutdown"}               \* analysis_error, by its cause

VARIABLES
    status, error, rater,   \* books: status, analysis_error, analysis_model
    queue, rerate, wake,    \* Worker.queue, Worker.rerate, Worker.wake
    pc, ids, n, front,      \* each goroutine: where it is, its ids, the next one, the front flag
    hand, rerating, keep,   \* Run: the book popped, takeRerate's answer, KeepsRating's answer
    up, stops               \* the process

books   == <<status, error, rater>>
memory  == <<queue, rerate, wake>>
locals  == <<pc, ids, n, front>>
current == <<hand, rerating, keep>>
process == <<up, stops>>
vars    == <<books, memory, locals, current, process>>

Place == {"new", "done", "off", "pop", "feed", "mark", "enq", "append", "signal", "idle", "take",
          "read", "set", "wait", "ask", "flag", "reset", "now", "nowask", "big"}

BooksOK ==
    /\ status \in [Book -> Status]
    /\ error \in [Book -> Errors]
    /\ rater \in [Book -> Rater]
MemoryOK == queue \in Seq(Book) /\ rerate \subseteq Book /\ wake \in BOOLEAN
LocalsOK ==
    /\ pc \in [Actor -> Place]
    /\ ids \in [Actor -> Seq(Book)]
    /\ n \in [Actor -> Nat]
    /\ front \in [Actor -> BOOLEAN]
CurrentOK == hand \in Book \cup {None} /\ rerating \in BOOLEAN /\ keep \in BOOLEAN
ProcessOK == up \in {"on", "stopping", "off"} /\ stops \in Nat

TypeOK == BooksOK /\ MemoryOK /\ LocalsOK /\ CurrentOK /\ ProcessOK

Init ==
    /\ status \in [Book -> {"pending", "analyzed"}]
    /\ error = [b \in Book |-> ""]
    /\ rater = [b \in Book |-> IF status[b] = "analyzed" THEN "ai" ELSE "none"]
    /\ queue = <<>> /\ rerate = {} /\ wake = FALSE
    /\ pc = [a \in Actor |-> IF a = Worker THEN "pop" ELSE "new"]
    /\ ids = [a \in Actor |-> <<>>]
    /\ n = [a \in Actor |-> 1]
    /\ front = [a \in Actor |-> FALSE]
    /\ hand = None /\ rerating = FALSE /\ keep = FALSE
    /\ up = "on" /\ stops = 0

-----------------------------------------------------------------------------
(* The store's single statements.                                          *)

SetStatus(b, s, e) ==
    /\ status' = [status EXCEPT ![b] = s]
    /\ error' = [error EXCEPT ![b] = e]
    /\ UNCHANGED rater

\* SaveAnalysis overwrites whatever rating is there and marks the book analyzed.
SaveAnalysis(b, who) ==
    /\ status' = [status EXCEPT ![b] = "analyzed"]
    /\ error' = [error EXCEPT ![b] = ""]
    /\ rater' = [rater EXCEPT ![b] = who]

\* Mutant: only the queued books, not the one being processed.
ResetQueuedOnly ==
    /\ status' = [b \in Book |-> IF status[b] = "queued" THEN "pending" ELSE status[b]]
    /\ UNCHANGED <<error, rater>>

ResetQueued ==
    /\ status' = [b \in Book |-> IF status[b] \in {"queued", "processing"} THEN "pending" ELSE status[b]]
    /\ UNCHANGED <<error, rater>>

WithStatus(S) == {b \in Book : status[b] \in S}

Ids(q) == {q[i] : i \in DOMAIN q}

\* The rows of a SELECT of the books of S, by its ORDER BY; up to Batch of them.
Rows(S) == {q \in [1..Cardinality(S) -> S] : Ids(q) = S}
Limited(S) ==
    UNION {Rows(T) : T \in {T \in SUBSET S : Cardinality(T) = Batch \/ (T = S /\ Cardinality(T) < Batch)}}

\* The ids of q that are not in S, in q's order.
Without(q, S) ==
    {p \in Rows(Ids(q) \ S) :
        \A i, j \in DOMAIN p : i < j => \E k, l \in DOMAIN q : k < l /\ q[k] = p[i] /\ q[l] = p[j]}

\* A goroutine moves on, with the ids it works on next, or with none.
Goto(a, where) ==
    /\ pc' = [pc EXCEPT ![a] = where]
    /\ UNCHANGED <<ids, n, front>>
GotoWith(a, where, bs, f) ==
    /\ pc' = [pc EXCEPT ![a] = where]
    /\ ids' = [ids EXCEPT ![a] = bs]
    /\ n' = [n EXCEPT ![a] = 1]
    /\ front' = [front EXCEPT ![a] = f]

-----------------------------------------------------------------------------
(* QueueForAnalysis and Worker.Enqueue, run by a handler or by feed: first *)
(* each id's status, one statement each, then the queue, then the signal.  *)

MarkOne(a, here, there) ==
    /\ pc[a] = here
    /\ SetStatus(ids[a][n[a]], "queued", "")
    /\ IF n[a] = Len(ids[a])
         THEN GotoWith(a, there, ids[a], front[a])
         ELSE /\ n' = [n EXCEPT ![a] = @ + 1]
              /\ UNCHANGED <<pc, ids, front>>
    /\ UNCHANGED <<memory, current, process>>

QueueForAnalysisMark(a) == MarkOne(a, "mark", "enq")
EnqueueMark(a) == MarkOne(a, "enq", "append")

EnqueueAppend(a) ==
    /\ pc[a] = "append"
    /\ queue' = IF front[a] THEN ids[a] \o queue ELSE queue \o ids[a]
    /\ GotoWith(a, "signal", <<>>, FALSE)
    /\ UNCHANGED <<books, rerate, wake, current, process>>

\* Mutant: the signal is never sent.
SignalForgotten(a) ==
    /\ pc[a] = "signal"
    /\ Goto(a, IF a = Worker THEN "pop" ELSE "done")
    /\ UNCHANGED <<books, memory, current, process>>

\* The channel holds one signal: a second one is dropped.
Signal(a) ==
    /\ pc[a] = "signal"
    /\ wake' = TRUE
    /\ Goto(a, IF a = Worker THEN "pop" ELSE "done")
    /\ UNCHANGED <<books, queue, rerate, current, process>>

-----------------------------------------------------------------------------
(* Worker.Run.                                                             *)

Pop ==
    /\ pc[Worker] = "pop" /\ queue # <<>>
    /\ hand' = Head(queue)
    /\ queue' = Tail(queue)
    /\ Goto(Worker, "take")
    /\ UNCHANGED <<books, rerate, wake, rerating, keep, process>>

PopNothing ==
    /\ pc[Worker] = "pop" /\ queue = <<>>
    /\ Goto(Worker, "feed")
    /\ UNCHANGED <<books, memory, current, process>>

\* Mutant: going idle drains the channel.
FeedDrains ==
    /\ pc[Worker] = "feed"
    /\ \E open \in RateGate :
         IF open /\ WithStatus({"pending"}) # {}
           THEN \E bs \in Limited(WithStatus({"pending"})) : GotoWith(Worker, "mark", bs, FALSE)
           ELSE Goto(Worker, "idle")
    /\ wake' = FALSE
    /\ UNCHANGED <<books, queue, rerate, current, process>>

\* feed: automatic rating takes the next waiting books itself.
Feed ==
    /\ pc[Worker] = "feed"
    /\ \E open \in RateGate :
         IF open /\ WithStatus({"pending"}) # {}
           THEN \E bs \in Limited(WithStatus({"pending"})) : GotoWith(Worker, "mark", bs, FALSE)
           ELSE Goto(Worker, "idle")
    /\ UNCHANGED <<books, memory, current, process>>

IdleWake ==
    /\ pc[Worker] = "idle" /\ wake
    /\ wake' = FALSE
    /\ Goto(Worker, "pop")
    /\ UNCHANGED <<books, queue, rerate, current, process>>

IdleTimer ==
    /\ pc[Worker] = "idle"
    /\ Goto(Worker, "pop")
    /\ UNCHANGED <<books, memory, current, process>>

IdleStop ==
    /\ pc[Worker] = "idle" /\ up = "stopping"
    /\ Goto(Worker, "off")
    /\ UNCHANGED <<books, memory, current, process>>

\* Mutant: the flag is read and not cleared.
TakeRerateKeepsFlag ==
    /\ pc[Worker] = "take"
    /\ rerating' = (hand \in rerate)
    /\ Goto(Worker, "read")
    /\ UNCHANGED <<books, memory, hand, keep, process>>

\* takeRerate has its own lock section, after pop's.
TakeRerate ==
    /\ pc[Worker] = "take"
    /\ rerating' = (hand \in rerate)
    /\ rerate' = rerate \ {hand}
    /\ Goto(Worker, "read")
    /\ UNCHANGED <<books, queue, wake, hand, keep, process>>

\* The end of one pass of Run's loop (runBook, the scan delay).
NextBook ==
    /\ hand' = None /\ rerating' = FALSE /\ keep' = FALSE
    /\ Goto(Worker, IF up = "stopping" THEN "off" ELSE "pop")

\* process reads the book: anything but queued was wiped after being popped.
ProcessRead ==
    /\ pc[Worker] = "read" /\ ~rerating
    /\ IF status[hand] = "queued"
         THEN Goto(Worker, "set") /\ UNCHANGED current
         ELSE NextBook
    /\ UNCHANGED <<books, memory, process>>

ProcessMark ==
    /\ pc[Worker] = "set"
    /\ SetStatus(hand, "processing", "")
    /\ Goto(Worker, "wait")
    /\ UNCHANGED <<memory, current, process>>

\* rerateOne reads the book and decides here whether its rating is kept; such
\* a book goes on only if its content items were not checked yet.
RerateRead ==
    /\ pc[Worker] = "read" /\ rerating
    /\ \/ /\ status[hand] = "analyzed"
          /\ keep' = (rater[hand] \in {"deep", "parent"})
          /\ Goto(Worker, "wait")
          /\ UNCHANGED <<hand, rerating>>
       \/ /\ status[hand] # "analyzed" \/ rater[hand] \in {"deep", "parent"}
          /\ NextBook
    /\ UNCHANGED <<books, memory, process>>

\* waitForBudget is over (it may have taken an hour) and still is asked again.
Still == rerating \/ status[hand] = "processing"

WaitOver ==
    /\ pc[Worker] = "wait"
    /\ IF Still THEN Goto(Worker, "ask") /\ UNCHANGED current ELSE NextBook
    /\ UNCHANGED <<books, memory, process>>

\* process failed: Run stores the error; a failed re-rate keeps the old rating.
Fail(e) ==
    /\ IF rerating THEN UNCHANGED books ELSE SetStatus(hand, "error", e)
    /\ NextBook
    /\ UNCHANGED <<memory, process>>

\* A stop ends waitForBudget's sleep with ctx.Err().
WaitCancelled == pc[Worker] = "wait" /\ up = "stopping" /\ Fail("shutdown")

AskFails == pc[Worker] = "ask" /\ Fail(IF up = "stopping" THEN "shutdown" ELSE "ai")

\* An answer: SaveContent for a kept rating, SaveAnalysis for any other.
AskAnswers ==
    /\ pc[Worker] = "ask"
    /\ IF rerating /\ keep THEN UNCHANGED books ELSE SaveAnalysis(hand, "ai")
    /\ NextBook
    /\ UNCHANGED <<memory, process>>

WorkerStep ==
    \/ Pop \/ PopNothing \/ Feed \/ IdleWake \/ IdleStop
    \/ TakeRerate \/ ProcessRead \/ ProcessMark \/ RerateRead
    \/ WaitOver \/ WaitCancelled \/ AskFails \/ AskAnswers

-----------------------------------------------------------------------------
(* The requests.  Arrive is what every one of them waits for.              *)

Arrive(r) == pc[r] = "new" /\ up = "on"
Quiet == UNCHANGED <<books, memory, current, process>>

\* POST analyze of one book: refused only while it is being processed.
AnalyzeBook(r, b) ==
    /\ Arrive(r) /\ status[b] # "processing"
    /\ GotoWith(r, "enq", <<b>>, TRUE)
    /\ Quiet

\* A split box set, an event or a shelf queues its unrated books in front.
EnqueueUnrated(r) ==
    /\ Arrive(r)
    /\ \E S \in (SUBSET WithStatus({"pending", "error"})) \ {{}} :
         \E bs \in Rows(S) : GotoWith(r, "enq", bs, TRUE)
    /\ Quiet

AnalyzeBatch(r) ==
    /\ Arrive(r) /\ WithStatus({"pending"}) # {}
    /\ \E bs \in Limited(WithStatus({"pending"})) : GotoWith(r, "mark", bs, FALSE)
    /\ Quiet

RetryErrors(r) ==
    /\ Arrive(r) /\ WithStatus({"error"}) # {}
    /\ \E bs \in Rows(WithStatus({"error"})) : GotoWith(r, "enq", bs, FALSE)
    /\ Quiet

\* Wipe drops the waiting books under the lock; their rows follow.
WipeQueue(r) ==
    /\ Arrive(r)
    /\ queue' = <<>> /\ rerate' = {}
    /\ Goto(r, "reset")
    /\ UNCHANGED <<books, wake, current, process>>

WipeReset(r) ==
    /\ pc[r] = "reset"
    /\ ResetQueued
    /\ Goto(r, "done")
    /\ UNCHANGED <<memory, current, process>>

\* Re-rate: AIRatedIDs, or RerateCandidates that may hold kept ratings too.
RerateSelect(r) ==
    /\ Arrive(r)
    /\ \E S \in (SUBSET WithStatus({"analyzed"})) \ {{}} :
         \E bs \in Rows(S) : GotoWith(r, "flag", bs, FALSE)
    /\ Quiet

\* Mutant: a book already in line is flagged without an entry of its own.
RerateReusesEntry(r) ==
    /\ pc[r] = "flag"
    /\ \E bs \in Without(ids[r], Ids(queue)) : queue' = queue \o bs
    /\ rerate' = rerate \cup Ids(ids[r])
    /\ GotoWith(r, "signal", <<>>, FALSE)
    /\ UNCHANGED <<books, wake, current, process>>

\* Worker.Rerate: the books not flagged yet join the queue's end.
Rerate(r) ==
    /\ pc[r] = "flag"
    /\ \E bs \in Without(ids[r], rerate) : queue' = queue \o bs
    /\ rerate' = rerate \cup Ids(ids[r])
    /\ GotoWith(r, "signal", <<>>, FALSE)
    /\ UNCHANGED <<books, wake, current, process>>

\* rateSoon starts RateNow unless the book is rated or being rated.
RateSoon(r, b) ==
    /\ Arrive(r) /\ status[b] \notin {"analyzed", "processing"}
    /\ GotoWith(r, "now", <<b>>, FALSE)
    /\ Quiet

RateNowMark(r) ==
    /\ pc[r] = "now"
    /\ SetStatus(ids[r][1], "processing", "")
    /\ Goto(r, "nowask")
    /\ UNCHANGED <<memory, current, process>>

\* Mutant: a failure leaves the status alone.
RateNowEndSilent(r) ==
    /\ pc[r] = "nowask"
    /\ SaveAnalysis(ids[r][1], "ai") \/ UNCHANGED books
    /\ GotoWith(r, "done", <<>>, FALSE)
    /\ UNCHANGED <<memory, current, process>>

RateNowEnd(r) ==
    /\ pc[r] = "nowask"
    /\ SaveAnalysis(ids[r][1], "ai") \/ SetStatus(ids[r][1], "error", "ai")
    /\ GotoWith(r, "done", <<>>, FALSE)
    /\ UNCHANGED <<memory, current, process>>

\* RateWith: the Deep Scan machine rates the book; a failure changes nothing.
RateBig(r, b) ==
    /\ Arrive(r)
    /\ GotoWith(r, "big", <<b>>, FALSE)
    /\ Quiet

RateWithEnd(r) ==
    /\ pc[r] = "big"
    /\ SaveAnalysis(ids[r][1], "ai") \/ UNCHANGED books
    /\ GotoWith(r, "done", <<>>, FALSE)
    /\ UNCHANGED <<memory, current, process>>

SetVerdict(r, b) ==
    /\ Arrive(r)
    /\ SaveAnalysis(b, "parent")
    /\ Goto(r, "done")
    /\ UNCHANGED <<memory, current, process>>

RequestArrives(r) ==
    \/ \E b \in Book : AnalyzeBook(r, b) \/ RateSoon(r, b) \/ RateBig(r, b) \/ SetVerdict(r, b)
    \/ EnqueueUnrated(r) \/ AnalyzeBatch(r) \/ RetryErrors(r) \/ WipeQueue(r) \/ RerateSelect(r)

RequestStep(r) ==
    WipeReset(r) \/ Rerate(r) \/ RateNowMark(r) \/ RateNowEnd(r) \/ RateWithEnd(r)

EnqueueStep(a) ==
    QueueForAnalysisMark(a) \/ EnqueueMark(a) \/ EnqueueAppend(a) \/ Signal(a)

-----------------------------------------------------------------------------
(* What else touches the books or the process.                             *)

\* A Deep Scan saves its rating (module DeepScan).
DeepScanSaves(b) ==
    /\ up # "off"
    /\ SaveAnalysis(b, "deep")
    /\ UNCHANGED <<memory, locals, current, process>>

\* Kick, after an import or a Calibre sync.
Kick ==
    /\ up # "off"
    /\ wake' = TRUE
    /\ UNCHANGED <<books, queue, rerate, locals, current, process>>

\* SIGTERM cancels the context of Run; the process ends a little later.
Shutdown ==
    /\ up = "on" /\ stops < MaxStops
    /\ up' = "stopping"
    /\ UNCHANGED <<books, memory, locals, current, stops>>

\* The process ends, by itself after a stop or killed: memory is lost.
Exit ==
    /\ up # "off" /\ stops < MaxStops
    /\ up' = "off" /\ stops' = stops + 1
    /\ queue' = <<>> /\ rerate' = {} /\ wake' = FALSE
    /\ pc' = [a \in Actor |-> IF a = Worker THEN "off" ELSE IF pc[a] = "new" THEN "new" ELSE "done"]
    /\ ids' = [a \in Actor |-> <<>>]
    /\ n' = [a \in Actor |-> 1]
    /\ front' = [a \in Actor |-> FALSE]
    /\ hand' = None /\ rerating' = FALSE /\ keep' = FALSE
    /\ UNCHANGED books

\* main: ResetQueued, then the background work unless it is safe mode.
Boot ==
    /\ up = "off"
    /\ ResetQueued
    /\ up' = "on"
    /\ \E safe \in SafeBoots : Goto(Worker, IF safe THEN "off" ELSE "pop")
    /\ UNCHANGED <<memory, current, stops>>

\* An admin leaves safe mode: the background work starts (once).
LeaveSafeMode ==
    /\ up = "on" /\ pc[Worker] = "off"
    /\ Goto(Worker, "pop")
    /\ UNCHANGED <<books, memory, current, process>>

Next ==
    \/ WorkerStep \/ IdleTimer
    \/ \E r \in Req : RequestArrives(r) \/ RequestStep(r)
    \/ \E a \in Actor : EnqueueStep(a)
    \/ \E b \in Book : DeepScanSaves(b)
    \/ Kick \/ Shutdown \/ Exit \/ Boot \/ LeaveSafeMode

Spec == Init /\ [][Next]_vars

-----------------------------------------------------------------------------
(* Safety.                                                                 *)

\* The goroutines that will append b to the queue.
Enqueueing(b) ==
    {a \in Actor : pc[a] \in {"mark", "enq", "append"} /\ b \in Ids(ids[a])}

\* Places from which b will reach process: the queue, the enqueuers, the worker's hand.
Claims(b) ==
    Cardinality({i \in DOMAIN queue : queue[i] = b}) + Cardinality(Enqueueing(b))
      + (IF hand = b /\ (pc[Worker] \in {"take", "set"} \/ (pc[Worker] = "read" /\ ~rerating)) THEN 1 ELSE 0)

\* A book shown as queued will come up for rating: for Run's loop, Enqueue, Rerate and
\* Wipe, it keeps a place in line beyond the one a pending re-rate of it uses up (an
\* entry popped with the rerate flag set skips a queued book), unless a Wipe is on its
\* way to return it to pending.
QueuedIsClaimed ==
    (up # "off" /\ ~\E r \in Req : pc[r] = "reset") =>
        \A b \in Book : status[b] = "queued" => Claims(b) > (IF b \in rerate THEN 1 ELSE 0)

\* The queue: a book shown as queued keeps a place in line of its own.
QueueKeepsItsBooks == TypeOK /\ QueuedIsClaimed

\* A book flagged for a re-rate has an entry in line (or just popped): Rerate refuses a
\* flagged book, so a flag without an entry would keep it from ever being re-rated.
FlaggedIsQueued ==
    \A b \in rerate :
        \/ b \in Ids(queue)
        \/ pc[Worker] = "take" /\ hand = b

\* A worker about to sleep in Run's select while books wait has a signal in the
\* channel, or a goroutine about to send one: no enqueued book waits for the timer.
NoLostWakeup ==
    (pc[Worker] = "idle" /\ queue # <<>>) => (wake \/ \E r \in Req : pc[r] = "signal")

\* A book shown as processing is in somebody's hands: the worker's process or a
\* RateNow is on it and will leave another status, so the "already in progress"
\* answer of handleAnalyzeBook never becomes permanent while the process runs.
ProcessingHasOwner ==
    up # "off" =>
        \A b \in Book : status[b] = "processing" =>
            \/ hand = b /\ ~rerating /\ pc[Worker] \in {"wait", "ask"}
            \/ \E r \in Req : pc[r] = "nowask" /\ ids[r] = <<b>>

-----------------------------------------------------------------------------
(* Liveness.  The goroutines are scheduled, a wait for the hourly budget   *)
(* ends (the window slides), a call to an AI times out, a process told to  *)
(* stop ends, and one that ended is started again (the container's restart *)
(* policy).  Nobody has to leave safe mode: these runs start without it.   *)

Fairness ==
    /\ WF_vars(WorkerStep)
    /\ WF_vars(Boot)
    /\ WF_vars(up = "stopping" /\ Exit)
    /\ \A a \in Actor : WF_vars(EnqueueStep(a))
    /\ \A r \in Req : WF_vars(RequestStep(r))

LiveSpec == Spec /\ Fairness
TimerFires == WF_vars(IdleTimer)

\* A queued book leaves the queue: Run rates it, fails on it or a Wipe or a restart
\* returns it, by the wake-up signals alone (no fairness for the one-minute timer).
QueuedIsServed ==
    \A b \in Book : status[b] = "queued" ~> status[b] # "queued"

\* With automatic rating open and the timer firing, feed leaves no book behind: once people
\* stop asking, every book ends up analyzed or in error, whatever wipes, crashes and races
\* came before.
EverythingIsRated ==
    TimerFires => <>[](\A b \in Book : status[b] \in {"analyzed", "error"})
=============================================================================
