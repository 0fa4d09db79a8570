------------------------- MODULE RatingQueue_proofs -------------------------
(***************************************************************************)
(* Theorems about the rating worker, for any number of books and requests, *)
(* any batch size and any number of restarts.                              *)
(***************************************************************************)
EXTENDS RatingQueue, TLAPS, FiniteSetTheorems, FunctionTheorems

-----------------------------------------------------------------------------
(* What a SELECT returns, and the ids of a list.                           *)

\* The rows of a SELECT are a list of books holding exactly the selected ones.
LEMMA RowsLemma ==
    ASSUME NEW S \in SUBSET Book, NEW q \in Rows(S)
    PROVE  q \in Seq(Book) /\ Ids(q) = S
  <1>1. IsFiniteSet(S)
    BY FS_Subset, RatingAssumption DEF RatingAssumption
  <1>2. Cardinality(S) \in Nat
    BY <1>1, FS_CardinalityType
  <1> QED
    BY <1>2 DEF Rows

LEMMA LimitedLemma ==
    ASSUME NEW S \in SUBSET Book, NEW q \in Limited(S)
    PROVE  q \in Seq(Book)
  <1>1. PICK T \in SUBSET S : q \in Rows(T)
    BY DEF Limited
  <1> QED
    BY <1>1, RowsLemma

LEMMA WithoutLemma ==
    ASSUME NEW q \in Seq(Book), NEW S \in SUBSET Book, NEW p \in Without(q, S)
    PROVE  p \in Seq(Book) /\ Ids(p) = Ids(q) \ S
  <1>1. Ids(q) \ S \in SUBSET Book
    BY DEF Ids
  <1>2. p \in Rows(Ids(q) \ S)
    BY DEF Without
  <1> QED
    BY <1>1, <1>2, RowsLemma

\* Joining two lists joins their ids.
LEMMA IdsConcat ==
    ASSUME NEW p \in Seq(Book), NEW q \in Seq(Book)
    PROVE  Ids(p \o q) = Ids(p) \cup Ids(q)
  <1>1. ASSUME NEW i \in DOMAIN (p \o q)
        PROVE  (p \o q)[i] \in Ids(p) \cup Ids(q)
    <2>1. CASE i <= Len(p)
      BY <2>1 DEF Ids
    <2>2. CASE i > Len(p)
      <3>1. i - Len(p) \in DOMAIN q /\ (p \o q)[i] = q[i - Len(p)]
        BY <2>2
      <3> QED
        BY <3>1 DEF Ids
    <2> QED
      BY <2>1, <2>2
  <1>2. ASSUME NEW i \in DOMAIN p
        PROVE  p[i] \in Ids(p \o q)
    <2>1. i \in DOMAIN (p \o q) /\ (p \o q)[i] = p[i]
      OBVIOUS
    <2> QED
      BY <2>1 DEF Ids
  <1>3. ASSUME NEW i \in DOMAIN q
        PROVE  q[i] \in Ids(p \o q)
    <2>1. i + Len(p) \in DOMAIN (p \o q) /\ (p \o q)[i + Len(p)] = q[i]
      OBVIOUS
    <2> QED
      BY <2>1 DEF Ids
  <1> QED
    BY <1>1, <1>2, <1>3 DEF Ids

\* Taking the first id off a list leaves all the others.
LEMMA IdsTail ==
    ASSUME NEW q \in Seq(Book), q # <<>>
    PROVE  Ids(q) \subseteq Ids(Tail(q)) \cup {Head(q)}
  <1> SUFFICES ASSUME NEW i \in DOMAIN q, q[i] # Head(q)
               PROVE  q[i] \in Ids(Tail(q))
    BY DEF Ids
  <1>1. i - 1 \in DOMAIN Tail(q) /\ Tail(q)[i - 1] = q[i]
    OBVIOUS
  <1> QED
    BY <1>1 DEF Ids

-----------------------------------------------------------------------------
(* Types.                                                                  *)

LEMMA EmptyList == <<>> \in Seq(Book)
  OBVIOUS

LEMMA TypeInit == Init => TypeOK
  <1> SUFFICES ASSUME Init PROVE TypeOK
    OBVIOUS
  <1>1. BooksOK
    BY DEF Init, BooksOK, Status, Rater, Errors
  <1>2. MemoryOK /\ CurrentOK /\ ProcessOK
    BY EmptyList DEF Init, MemoryOK, CurrentOK, ProcessOK
  <1>3. LocalsOK
    BY EmptyList DEF Init, LocalsOK, Place
  <1> QED
    BY <1>1, <1>2, <1>3 DEF TypeOK

\* The store's statements keep the columns' types.
LEMMA BooksLemma ==
    ASSUME BooksOK
    PROVE  /\ UNCHANGED books => BooksOK'
           /\ ResetQueued => BooksOK'
           /\ \A b, s, e : s \in Status /\ e \in Errors /\ SetStatus(b, s, e) => BooksOK'
           /\ \A b, who : who \in Rater /\ SaveAnalysis(b, who) => BooksOK'
  <1>1. UNCHANGED books => BooksOK'
    BY DEF BooksOK, books
  <1>2. ResetQueued => BooksOK'
    BY DEF BooksOK, ResetQueued, Status
  <1>3. \A b, s, e : s \in Status /\ e \in Errors /\ SetStatus(b, s, e) => BooksOK'
    BY DEF BooksOK, SetStatus
  <1>4. \A b, who : who \in Rater /\ SaveAnalysis(b, who) => BooksOK'
    BY DEF BooksOK, SaveAnalysis, Status, Errors
  <1> QED
    BY <1>1, <1>2, <1>3, <1>4

\* A goroutine's step keeps its locals' types.
LEMMA LocalsLemma ==
    ASSUME LocalsOK
    PROVE  /\ UNCHANGED locals => LocalsOK'
           /\ \A a, where : where \in Place /\ Goto(a, where) => LocalsOK'
           /\ \A a, where, bs, f :
                where \in Place /\ bs \in Seq(Book) /\ f \in BOOLEAN /\ GotoWith(a, where, bs, f) => LocalsOK'
  <1>1. UNCHANGED locals => LocalsOK'
    BY DEF LocalsOK, locals
  <1>2. \A a, where : where \in Place /\ Goto(a, where) => LocalsOK'
    BY DEF LocalsOK, Goto
  <1>3. ASSUME NEW a, NEW where \in Place, NEW bs \in Seq(Book), NEW f \in BOOLEAN, GotoWith(a, where, bs, f)
        PROVE  LocalsOK'
    BY <1>3 DEF LocalsOK, GotoWith
  <1> QED
    BY <1>1, <1>2, <1>3

LEMMA StillLemma ==
    /\ MemoryOK /\ UNCHANGED memory => MemoryOK'
    /\ CurrentOK /\ UNCHANGED current => CurrentOK'
    /\ ProcessOK /\ UNCHANGED process => ProcessOK'
  BY DEF MemoryOK, CurrentOK, ProcessOK, memory, current, process

\* The end of a pass of Run's loop.
LEMMA NextBookLemma ==
    ASSUME LocalsOK, NextBook
    PROVE  LocalsOK' /\ CurrentOK'
  BY LocalsLemma DEF NextBook, CurrentOK, Place

LEMMA FailLemma ==
    ASSUME TypeOK, NEW e \in Errors, Fail(e)
    PROVE  TypeOK'
  <1>1. BooksOK'
    BY BooksLemma DEF TypeOK, Fail, Status
  <1> QED
    BY <1>1, NextBookLemma, StillLemma DEF TypeOK, Fail

LEMMA TypeWorker ==
    ASSUME TypeOK, WorkerStep \/ IdleTimer
    PROVE  TypeOK'
  <1> USE BooksLemma, LocalsLemma, StillLemma DEF TypeOK
  <1>1. CASE Pop
    <2>1. MemoryOK' /\ CurrentOK'
      BY <1>1 DEF Pop, MemoryOK, CurrentOK
    <2> QED
      BY <1>1, <2>1 DEF Pop, Place
  <1>2. CASE PopNothing
    BY <1>2 DEF PopNothing, Place
  <1>3. CASE Feed
    <2>1. ASSUME NEW bs \in Limited(WithStatus({"pending"})) PROVE bs \in Seq(Book)
      BY LimitedLemma DEF WithStatus
    <2> QED
      BY <1>3, <2>1 DEF Feed, Place
  <1>4. CASE IdleWake
    <2>1. MemoryOK'
      BY <1>4 DEF IdleWake, MemoryOK
    <2> QED
      BY <1>4, <2>1 DEF IdleWake, Place
  <1>5. CASE IdleTimer
    BY <1>5 DEF IdleTimer, Place
  <1>6. CASE IdleStop
    BY <1>6 DEF IdleStop, Place
  <1>7. CASE TakeRerate
    <2>1. MemoryOK' /\ CurrentOK'
      BY <1>7 DEF TakeRerate, MemoryOK, CurrentOK
    <2> QED
      BY <1>7, <2>1 DEF TakeRerate, Place
  <1>8. CASE ProcessRead
    BY <1>8, NextBookLemma DEF ProcessRead, Place
  <1>9. CASE ProcessMark
    BY <1>9 DEF ProcessMark, Place, Status, Errors
  <1>10. CASE RerateRead
    <2>1. CASE NextBook /\ UNCHANGED <<books, memory, process>>
      BY <2>1, NextBookLemma
    <2>2. CASE /\ keep' = (rater[hand] \in {"deep", "parent"})
               /\ Goto(Worker, "wait")
               /\ UNCHANGED <<hand, rerating>>
               /\ UNCHANGED <<books, memory, process>>
      <3>1. CurrentOK'
        BY <2>2 DEF CurrentOK
      <3> QED
        BY <2>2, <3>1 DEF Place
    <2> QED
      BY <1>10, <2>1, <2>2 DEF RerateRead
  <1>11. CASE WaitOver
    BY <1>11, NextBookLemma DEF WaitOver, Place
  <1>12. CASE WaitCancelled \/ AskFails
    BY <1>12, FailLemma DEF WaitCancelled, AskFails, Errors
  <1>13. CASE AskAnswers
    BY <1>13, NextBookLemma DEF AskAnswers, Rater
  <1> QED
    BY <1>1, <1>2, <1>3, <1>4, <1>5, <1>6, <1>7, <1>8, <1>9, <1>10, <1>11, <1>12, <1>13
    DEF WorkerStep

LEMMA TypeEnqueue ==
    ASSUME TypeOK, NEW a \in Actor, EnqueueStep(a)
    PROVE  TypeOK'
  <1> USE BooksLemma, LocalsLemma, StillLemma DEF TypeOK
  <1>1. ids[a] \in Seq(Book) /\ front[a] \in BOOLEAN
    BY DEF LocalsOK
  <1>2. ASSUME NEW here, NEW there \in Place, MarkOne(a, here, there)
        PROVE  TypeOK'
    <2>1. BooksOK'
      BY <1>2 DEF MarkOne, Status, Errors
    <2>2. LocalsOK'
      <3>1. CASE n[a] = Len(ids[a])
        BY <1>1, <1>2, <3>1 DEF MarkOne
      <3>2. CASE n[a] # Len(ids[a])
        <4>1. n' = [n EXCEPT ![a] = n[a] + 1] /\ UNCHANGED <<pc, ids, front>>
          BY <1>2, <3>2 DEF MarkOne
        <4>2. n' \in [Actor -> Nat]
          BY <4>1 DEF LocalsOK
        <4> QED
          BY <4>1, <4>2 DEF LocalsOK
      <3> QED
        BY <3>1, <3>2
    <2> QED
      BY <1>2, <2>1, <2>2 DEF MarkOne
  <1>3. CASE QueueForAnalysisMark(a) \/ EnqueueMark(a)
    BY <1>2, <1>3 DEF QueueForAnalysisMark, EnqueueMark, Place
  <1>4. CASE EnqueueAppend(a)
    <2>1. MemoryOK'
      BY <1>1, <1>4 DEF EnqueueAppend, MemoryOK
    <2>2. LocalsOK'
      BY <1>4, EmptyList DEF EnqueueAppend, Place
    <2> QED
      BY <1>4, <2>1, <2>2 DEF EnqueueAppend
  <1>5. CASE Signal(a)
    <2>1. MemoryOK'
      BY <1>5 DEF Signal, MemoryOK
    <2> QED
      BY <1>5, <2>1 DEF Signal, Place
  <1> QED
    BY <1>3, <1>4, <1>5 DEF EnqueueStep

LEMMA TypeRequest ==
    ASSUME TypeOK, NEW r \in Req, RequestArrives(r) \/ RequestStep(r)
    PROVE  TypeOK'
  <1> USE BooksLemma, LocalsLemma, StillLemma DEF TypeOK
  <1>1. ASSUME NEW where \in Place, NEW bs \in Seq(Book), NEW f \in BOOLEAN, GotoWith(r, where, bs, f), Quiet
        PROVE  TypeOK'
    BY <1>1 DEF Quiet
  <1>2. ASSUME NEW S \in SUBSET Book, NEW bs \in Rows(S)
        PROVE  bs \in Seq(Book)
    BY RowsLemma
  <1>3. ASSUME NEW b \in Book, AnalyzeBook(r, b) \/ RateSoon(r, b) \/ RateBig(r, b)
        PROVE  TypeOK'
    <2>1. <<b>> \in Seq(Book)
      OBVIOUS
    <2> QED
      BY <1>1, <1>3, <2>1 DEF AnalyzeBook, RateSoon, RateBig, Place
  <1>4. ASSUME NEW b \in Book, SetVerdict(r, b)
        PROVE  TypeOK'
    BY <1>4 DEF SetVerdict, Place, Rater
  <1>5. CASE EnqueueUnrated(r)
    <2>1. PICK S \in SUBSET Book : \E bs \in Rows(S) : GotoWith(r, "enq", bs, TRUE)
      BY <1>5 DEF EnqueueUnrated, WithStatus
    <2> QED
      BY <1>1, <1>2, <1>5, <2>1 DEF EnqueueUnrated, Place
  <1>6. CASE RetryErrors(r)
    <2>1. PICK S \in SUBSET Book : \E bs \in Rows(S) : GotoWith(r, "enq", bs, FALSE)
      BY <1>6 DEF RetryErrors, WithStatus
    <2> QED
      BY <1>1, <1>2, <1>6, <2>1 DEF RetryErrors, Place
  <1>7. CASE RerateSelect(r)
    <2>1. PICK S \in SUBSET Book : \E bs \in Rows(S) : GotoWith(r, "flag", bs, FALSE)
      BY <1>7 DEF RerateSelect, WithStatus
    <2> QED
      BY <1>1, <1>2, <1>7, <2>1 DEF RerateSelect, Place
  <1>8. CASE AnalyzeBatch(r)
    <2>1. PICK S \in SUBSET Book : \E bs \in Limited(S) : GotoWith(r, "mark", bs, FALSE)
      BY <1>8 DEF AnalyzeBatch, WithStatus
    <2> QED
      BY <1>1, <1>8, <2>1, LimitedLemma DEF AnalyzeBatch, Place
  <1>9. CASE WipeQueue(r)
    <2>1. MemoryOK'
      BY <1>9 DEF WipeQueue, MemoryOK
    <2> QED
      BY <1>9, <2>1 DEF WipeQueue, Place
  <1>10. CASE WipeReset(r)
    BY <1>10 DEF WipeReset, Place
  <1>11. CASE Rerate(r)
    <2>1. ids[r] \in Seq(Book) /\ Ids(ids[r]) \subseteq Book
      BY DEF LocalsOK, Actor, Ids
    <2>2. PICK bs \in Without(ids[r], rerate) : queue' = queue \o bs
      BY <1>11 DEF Rerate
    <2>3. bs \in Seq(Book)
      BY <2>1, WithoutLemma DEF MemoryOK
    <2>4. MemoryOK'
      BY <1>11, <2>1, <2>2, <2>3 DEF Rerate, MemoryOK
    <2> QED
      BY <1>11, <2>4, EmptyList DEF Rerate, Place
  <1>12. CASE RateNowMark(r)
    BY <1>12 DEF RateNowMark, Place, Status, Errors
  <1>13. CASE RateNowEnd(r)
    BY <1>13, EmptyList DEF RateNowEnd, Place, Status, Errors, Rater
  <1>14. CASE RateWithEnd(r)
    BY <1>14, EmptyList DEF RateWithEnd, Place, Rater
  <1> QED
    BY <1>3, <1>4, <1>5, <1>6, <1>7, <1>8, <1>9, <1>10, <1>11, <1>12, <1>13, <1>14
    DEF RequestArrives, RequestStep

LEMMA TypeNext ==
    ASSUME TypeOK, [Next]_vars
    PROVE  TypeOK'
  <1> USE BooksLemma, LocalsLemma, StillLemma DEF TypeOK
  <1>1. ASSUME NEW b \in Book, DeepScanSaves(b)
        PROVE  TypeOK'
    BY <1>1 DEF DeepScanSaves, Rater
  <1>2. CASE Kick
    <2>1. MemoryOK'
      BY <1>2 DEF Kick, MemoryOK
    <2> QED
      BY <1>2, <2>1 DEF Kick
  <1>3. CASE Shutdown
    <2>1. ProcessOK'
      BY <1>3 DEF Shutdown, ProcessOK
    <2> QED
      BY <1>3, <2>1 DEF Shutdown
  <1>4. CASE Exit
    <2>1. LocalsOK'
      BY <1>4, EmptyList DEF Exit, LocalsOK, Place
    <2>2. MemoryOK'
      BY <1>4, EmptyList DEF Exit, MemoryOK
    <2>3. CurrentOK'
      BY <1>4 DEF Exit, CurrentOK
    <2>4. ProcessOK'
      BY <1>4 DEF Exit, ProcessOK
    <2> QED
      BY <1>4, <2>1, <2>2, <2>3, <2>4 DEF Exit
  <1>5. CASE Boot
    <2>1. ProcessOK'
      BY <1>5 DEF Boot, ProcessOK
    <2>2. LocalsOK'
      BY <1>5 DEF Boot, Place
    <2> QED
      BY <1>5, <2>1, <2>2 DEF Boot
  <1>6. CASE LeaveSafeMode
    BY <1>6 DEF LeaveSafeMode, Place
  <1>7. CASE UNCHANGED vars
    BY <1>7 DEF vars
  <1> QED
    BY <1>1, <1>2, <1>3, <1>4, <1>5, <1>6, <1>7, TypeWorker, TypeEnqueue, TypeRequest DEF Next

\* Every status, rater, queue entry and list of ids is one the code's columns and
\* slices can hold, whatever the requests, races and restarts.
THEOREM TypeCorrect == Spec => []TypeOK
  <1>1. Init => TypeOK
    BY TypeInit
  <1>2. TypeOK /\ [Next]_vars => TypeOK'
    BY TypeNext
  <1> QED
    BY <1>1, <1>2, PTL DEF Spec

-----------------------------------------------------------------------------
(* What the safety invariants need to be kept by every step.               *)

\* A process that is down has no goroutine and nothing in memory.
Down ==
    up = "off" => /\ pc[Worker] = "off" /\ rerate = {}
                  /\ \A r \in Req : pc[r] \in {"new", "done"}

\* Already when feed has found nothing to rate, not only once the worker sleeps.
WakeIsDue ==
    (pc[Worker] \in {"feed", "idle"} /\ queue # <<>>) => (wake \/ \E r \in Req : pc[r] = "signal")

\* process marks only the book it popped, RateNow only its own.
MarksItsOwn ==
    /\ pc[Worker] = "set" => ~rerating
    /\ \A r \in Req : pc[r] \in {"now", "nowask"} => \E b \in Book : ids[r] = <<b>>

\* A goroutine that moves leaves the others where they are.
LEMMA Moves ==
    ASSUME LocalsOK, NEW a \in Actor
    PROVE  /\ \A where : Goto(a, where) =>
                /\ pc'[a] = where /\ ids' = ids
                /\ \A o \in Actor \ {a} : pc'[o] = pc[o]
           /\ \A where, bs, f : GotoWith(a, where, bs, f) =>
                /\ pc'[a] = where /\ ids'[a] = bs
                /\ \A o \in Actor \ {a} : pc'[o] = pc[o] /\ ids'[o] = ids[o]
  BY DEF LocalsOK, Goto, GotoWith

LEMMA Actors ==
    /\ Worker \in Actor
    /\ \A r \in Req : r \in Actor /\ r # Worker
  BY RatingAssumption DEF RatingAssumption, Actor

\* What an enqueuer does to the other goroutines, and to the worker's book.
LEMMA EnqueueMoves ==
    ASSUME TypeOK, NEW a \in Actor, EnqueueStep(a)
    PROVE  /\ \A o \in Actor \ {a} : pc'[o] = pc[o] /\ ids'[o] = ids[o]
           /\ UNCHANGED <<rerate, current, process>>
           /\ pc[a] \in {"mark", "enq", "append", "signal"}
           /\ pc'[a] \in {"mark", "enq", "append", "signal", "pop", "done"}
           /\ a = Worker => pc'[a] # "done"
           /\ a # Worker => pc'[a] # "pop"
  <1>1. LocalsOK
    BY DEF TypeOK
  <1>2. ASSUME NEW here \in {"mark", "enq"}, NEW there \in {"enq", "append"}, MarkOne(a, here, there)
        PROVE  /\ \A o \in Actor \ {a} : pc'[o] = pc[o] /\ ids'[o] = ids[o]
               /\ UNCHANGED <<rerate, current, process>>
               /\ pc[a] = here /\ pc'[a] \in {here, there}
    <2>1. CASE n[a] = Len(ids[a])
      BY <1>1, <1>2, <2>1, Moves DEF MarkOne, memory
    <2>2. CASE n[a] # Len(ids[a])
      BY <1>1, <1>2, <2>2 DEF MarkOne, memory
    <2> QED
      BY <2>1, <2>2
  <1>3. CASE QueueForAnalysisMark(a) \/ EnqueueMark(a)
    BY <1>2, <1>3 DEF QueueForAnalysisMark, EnqueueMark
  <1>4. CASE EnqueueAppend(a)
    BY <1>1, <1>4, Moves DEF EnqueueAppend
  <1>5. CASE Signal(a)
    <2>1. PICK where : Goto(a, where) /\ where = (IF a = Worker THEN "pop" ELSE "done")
      BY <1>5 DEF Signal
    <2> QED
      BY <1>1, <1>5, <2>1, Moves DEF Signal
  <1> QED
    BY <1>3, <1>4, <1>5 DEF EnqueueStep

\* What a request does to the other goroutines, and to the worker's book.
LEMMA RequestMoves ==
    ASSUME TypeOK, NEW r \in Req, RequestArrives(r) \/ RequestStep(r)
    PROVE  /\ \A o \in Actor \ {r} : pc'[o] = pc[o] /\ ids'[o] = ids[o]
           /\ UNCHANGED <<current, process>>
           /\ pc[r] # "new" => pc[r] # "done"
           /\ pc[r] = "new" => up = "on"
  <1>1. LocalsOK /\ r \in Actor
    BY Actors DEF TypeOK
  <1> USE <1>1, Moves
  <1>2. CASE RequestArrives(r)
    <2>1. ASSUME NEW b \in Book, AnalyzeBook(r, b) \/ RateSoon(r, b) \/ RateBig(r, b) \/ SetVerdict(r, b)
          PROVE  /\ \A o \in Actor \ {r} : pc'[o] = pc[o] /\ ids'[o] = ids[o]
                 /\ UNCHANGED <<current, process>> /\ pc[r] = "new" /\ up = "on"
      BY <2>1 DEF AnalyzeBook, RateSoon, RateBig, SetVerdict, Arrive, Quiet
    <2>2. CASE EnqueueUnrated(r) \/ AnalyzeBatch(r) \/ RetryErrors(r) \/ WipeQueue(r) \/ RerateSelect(r)
      BY <2>2 DEF EnqueueUnrated, AnalyzeBatch, RetryErrors, WipeQueue, RerateSelect, Arrive, Quiet
    <2> QED
      BY <1>2, <2>1, <2>2 DEF RequestArrives
  <1>3. CASE RequestStep(r)
    <2>1. CASE WipeReset(r)
      BY <2>1 DEF WipeReset
    <2>2. CASE Rerate(r)
      BY <2>2 DEF Rerate
    <2>3. CASE RateNowMark(r)
      BY <2>3 DEF RateNowMark
    <2>4. CASE RateNowEnd(r) \/ RateWithEnd(r)
      BY <2>4 DEF RateNowEnd, RateWithEnd
    <2> QED
      BY <1>3, <2>1, <2>2, <2>3, <2>4 DEF RequestStep
  <1> QED
    BY <1>2, <1>3

\* The worker moves alone; what it does to its book depends on where it is.
LEMMA WorkerMoves ==
    ASSUME TypeOK, WorkerStep \/ IdleTimer
    PROVE  /\ \A o \in Actor \ {Worker} : pc'[o] = pc[o]
           /\ \A o \in Actor \ {Worker} : ids'[o] = ids[o]
           /\ UNCHANGED process
           /\ pc[Worker] \in {"pop", "feed", "idle", "take", "read", "set", "wait", "ask"}
  <1>1. LocalsOK /\ Worker \in Actor
    BY Actors DEF TypeOK
  <1> USE <1>1, Moves
  <1> DEFINE Goal == /\ \A o \in Actor \ {Worker} : pc'[o] = pc[o]
                     /\ \A o \in Actor \ {Worker} : ids'[o] = ids[o]
                     /\ UNCHANGED process
  <1>2. CASE Pop \/ PopNothing \/ IdleWake \/ IdleTimer \/ IdleStop \/ TakeRerate \/ ProcessMark
    BY <1>2 DEF Pop, PopNothing, IdleWake, IdleTimer, IdleStop, TakeRerate, ProcessMark
  <1>3. CASE Feed
    BY <1>3 DEF Feed
  <1>4. ASSUME NextBook
        PROVE  \A o \in Actor \ {Worker} : pc'[o] = pc[o] /\ ids'[o] = ids[o]
    BY <1>4 DEF NextBook
  <1>5. CASE ProcessRead \/ WaitOver
    BY <1>4, <1>5 DEF ProcessRead, WaitOver
  <1>6. CASE RerateRead
    BY <1>4, <1>6 DEF RerateRead
  <1>7. CASE WaitCancelled \/ AskFails \/ AskAnswers
    BY <1>4, <1>7 DEF WaitCancelled, AskFails, AskAnswers, Fail
  <1> QED
    BY <1>2, <1>3, <1>5, <1>6, <1>7 DEF WorkerStep

\* Apart from a Wipe and a Rerate, a request touches the worker's memory only by enqueueing.
LEMMA RequestsLeaveMemory ==
    ASSUME NEW r \in Req, RequestArrives(r) \/ RequestStep(r), ~WipeQueue(r), ~Rerate(r)
    PROVE  UNCHANGED memory /\ pc[r] # "signal"
  <1>1. ASSUME NEW b \in Book, AnalyzeBook(r, b) \/ RateSoon(r, b) \/ RateBig(r, b) \/ SetVerdict(r, b)
        PROVE  UNCHANGED memory /\ pc[r] # "signal"
    BY <1>1 DEF AnalyzeBook, RateSoon, RateBig, SetVerdict, Quiet, Arrive
  <1>2. CASE EnqueueUnrated(r)
    BY <1>2 DEF EnqueueUnrated, Quiet, Arrive
  <1>3. CASE AnalyzeBatch(r)
    BY <1>3 DEF AnalyzeBatch, Quiet, Arrive
  <1>4. CASE RetryErrors(r)
    BY <1>4 DEF RetryErrors, Quiet, Arrive
  <1>5. CASE RerateSelect(r)
    BY <1>5 DEF RerateSelect, Quiet, Arrive
  <1>6. CASE WipeReset(r)
    BY <1>6 DEF WipeReset
  <1>7. CASE RateNowMark(r)
    BY <1>7 DEF RateNowMark
  <1>8. CASE RateNowEnd(r) \/ RateWithEnd(r)
    BY <1>8 DEF RateNowEnd, RateWithEnd
  <1> QED
    BY <1>1, <1>2, <1>3, <1>4, <1>5, <1>6, <1>7, <1>8 DEF RequestArrives, RequestStep

LEMMA DownNext ==
    ASSUME TypeOK, Down, [Next]_vars
    PROVE  Down'
  <1> USE Actors
  <1>1. CASE WorkerStep \/ IdleTimer
    <2>1. up # "off" /\ up' = up
      BY <1>1, WorkerMoves DEF Down, process
    <2> QED
      BY <2>1 DEF Down
  <1>2. ASSUME NEW r \in Req, RequestArrives(r) \/ RequestStep(r)
        PROVE  Down'
    <2>1. up # "off" /\ up' = up
      BY <1>2, RequestMoves DEF Down, process
    <2> QED
      BY <2>1 DEF Down
  <1>3. ASSUME NEW a \in Actor, EnqueueStep(a)
        PROVE  Down'
    <2>1. up' = up /\ pc[a] \notin {"off", "new", "done"}
      BY <1>3, EnqueueMoves DEF process
    <2>2. up # "off"
      BY <2>1 DEF Down, Actor
    <2> QED
      BY <2>1, <2>2 DEF Down
  <1>4. ASSUME NEW b \in Book, DeepScanSaves(b)
        PROVE  Down'
    BY <1>4 DEF DeepScanSaves, Down, process
  <1>5. CASE Kick \/ Shutdown \/ Boot \/ LeaveSafeMode
    BY <1>5 DEF Kick, Shutdown, Boot, LeaveSafeMode, Down, process
  <1>6. CASE Exit
    BY <1>6 DEF Exit, Down
  <1>7. CASE UNCHANGED vars
    BY <1>7 DEF vars, Down, locals, process, memory
  <1> QED
    BY <1>1, <1>2, <1>3, <1>4, <1>5, <1>6, <1>7 DEF Next

LEMMA FlaggedNext ==
    ASSUME TypeOK, Down, FlaggedIsQueued, [Next]_vars
    PROVE  FlaggedIsQueued'
  <1> USE Actors
  <1>1. LocalsOK /\ queue \in Seq(Book) /\ rerate \in SUBSET Book
    BY DEF TypeOK, MemoryOK
  <1>2. ASSUME UNCHANGED <<queue, rerate>>, pc[Worker] = "take" => (pc'[Worker] = "take" /\ hand' = hand)
        PROVE  FlaggedIsQueued'
    BY <1>2 DEF FlaggedIsQueued
  <1>3. CASE Pop
    <2>1. queue # <<>> /\ pc[Worker] = "pop" /\ hand' = Head(queue) /\ queue' = Tail(queue) /\ rerate' = rerate
      BY <1>3 DEF Pop
    <2>2. pc'[Worker] = "take"
      BY <1>1, <1>3, Moves DEF Pop
    <2>3. Ids(queue) \subseteq Ids(queue') \cup {hand'}
      BY <1>1, <2>1, IdsTail
    <2> QED
      BY <2>1, <2>2, <2>3 DEF FlaggedIsQueued
  <1>4. CASE TakeRerate
    BY <1>4 DEF TakeRerate, FlaggedIsQueued
  <1>5. CASE (WorkerStep \/ IdleTimer) /\ ~Pop /\ ~TakeRerate
    <2>1. UNCHANGED <<queue, rerate>> /\ pc[Worker] # "take"
      BY <1>5 DEF WorkerStep, PopNothing, Feed, IdleWake, IdleTimer, IdleStop, ProcessRead, ProcessMark,
                  RerateRead, WaitOver, WaitCancelled, AskFails, AskAnswers, Fail, memory
    <2> QED
      BY <1>2, <2>1
  <1>6. ASSUME NEW a \in Actor, EnqueueStep(a)
        PROVE  FlaggedIsQueued'
    <2>1. pc[Worker] = "take" => (pc'[Worker] = "take" /\ hand' = hand)
      BY <1>6, EnqueueMoves DEF current
    <2>2. CASE EnqueueAppend(a)
      <3>1. ids[a] \in Seq(Book)
        BY <1>1 DEF LocalsOK
      <3>2. Ids(queue') = Ids(queue) \cup Ids(ids[a]) /\ rerate' = rerate
        BY <1>1, <2>2, <3>1, IdsConcat DEF EnqueueAppend
      <3> QED
        BY <2>1, <3>2 DEF FlaggedIsQueued
    <2>3. CASE ~EnqueueAppend(a)
      <3>1. UNCHANGED <<queue, rerate>>
        BY <1>6, <2>3 DEF EnqueueStep, QueueForAnalysisMark, EnqueueMark, MarkOne, Signal, memory
      <3> QED
        BY <1>2, <2>1, <3>1
    <2> QED
      BY <2>2, <2>3
  <1>7. ASSUME NEW r \in Req, RequestArrives(r) \/ RequestStep(r)
        PROVE  FlaggedIsQueued'
    <2>1. pc[Worker] = "take" => (pc'[Worker] = "take" /\ hand' = hand)
      BY <1>7, RequestMoves DEF current
    <2>2. CASE WipeQueue(r)
      BY <2>2 DEF WipeQueue, FlaggedIsQueued
    <2>3. CASE Rerate(r)
      <3>1. ids[r] \in Seq(Book)
        BY <1>1 DEF LocalsOK
      <3>2. PICK bs \in Without(ids[r], rerate) : queue' = queue \o bs
        BY <2>3 DEF Rerate
      <3>3. bs \in Seq(Book) /\ Ids(bs) = Ids(ids[r]) \ rerate
        BY <1>1, <3>1, WithoutLemma
      <3>4. Ids(queue') = Ids(queue) \cup (Ids(ids[r]) \ rerate)
        BY <1>1, <3>2, <3>3, IdsConcat
      <3>5. rerate' = rerate \cup Ids(ids[r])
        BY <2>3 DEF Rerate
      <3> QED
        BY <2>1, <3>4, <3>5 DEF FlaggedIsQueued
    <2>4. CASE ~WipeQueue(r) /\ ~Rerate(r)
      <3>1. UNCHANGED <<queue, rerate>>
        BY <1>7, <2>4, RequestsLeaveMemory DEF memory
      <3> QED
        BY <1>2, <2>1, <3>1
    <2> QED
      BY <2>2, <2>3, <2>4
  <1>8. ASSUME NEW b \in Book, DeepScanSaves(b)
        PROVE  FlaggedIsQueued'
    BY <1>2, <1>8 DEF DeepScanSaves, memory, locals, current
  <1>9. CASE Kick \/ Shutdown
    BY <1>2, <1>9 DEF Kick, Shutdown, memory, locals, current
  <1>10. CASE Exit
    BY <1>10 DEF Exit, FlaggedIsQueued
  <1>11. CASE Boot
    BY <1>11 DEF Boot, Down, FlaggedIsQueued, memory
  <1>12. CASE LeaveSafeMode
    BY <1>2, <1>12 DEF LeaveSafeMode, memory
  <1>13. CASE UNCHANGED vars
    BY <1>2, <1>13 DEF vars, memory, locals, current
  <1> QED
    BY <1>3, <1>4, <1>5, <1>6, <1>7, <1>8, <1>9, <1>10, <1>11, <1>12, <1>13 DEF Next

LEMMA WakeNext ==
    ASSUME TypeOK, Down, WakeIsDue, [Next]_vars
    PROVE  WakeIsDue'
  <1> USE Actors
  <1>1. LocalsOK /\ queue \in Seq(Book)
    BY DEF TypeOK, MemoryOK
  <1>2. CASE Pop \/ TakeRerate \/ ProcessMark \/ IdleWake \/ IdleTimer \/ IdleStop
    <2>1. \E where \in {"take", "read", "wait", "pop", "off"} : Goto(Worker, where)
      BY <1>2 DEF Pop, TakeRerate, ProcessMark, IdleWake, IdleTimer, IdleStop
    <2>2. pc'[Worker] \notin {"feed", "idle"}
      BY <1>1, <2>1, Moves
    <2> QED
      BY <2>2 DEF WakeIsDue
  <1>3. CASE PopNothing
    BY <1>3 DEF PopNothing, WakeIsDue, memory
  <1>4. CASE Feed
    <2>1. UNCHANGED <<queue, wake>> /\ pc[Worker] = "feed"
      BY <1>4 DEF Feed, memory
    <2>2. \A r \in Req : pc'[r] = pc[r]
      BY <1>4, WorkerMoves DEF WorkerStep
    <2> QED
      BY <2>1, <2>2 DEF WakeIsDue
  <1>5. CASE ProcessRead \/ RerateRead \/ WaitOver \/ WaitCancelled \/ AskFails \/ AskAnswers
    <2>1. NextBook => pc'[Worker] \notin {"feed", "idle"}
      BY <1>1, Moves DEF NextBook
    <2>2. pc'[Worker] \notin {"feed", "idle"}
      BY <1>1, <1>5, <2>1, Moves
      DEF ProcessRead, RerateRead, WaitOver, WaitCancelled, AskFails, AskAnswers, Fail
    <2> QED
      BY <2>2 DEF WakeIsDue
  <1>6. ASSUME NEW a \in Actor, EnqueueStep(a)
        PROVE  WakeIsDue'
    <2>1. CASE a = Worker
      BY <1>6, <2>1, EnqueueMoves DEF WakeIsDue
    <2>2. CASE a # Worker
      <3>1. a \in Req /\ pc'[Worker] = pc[Worker]
        BY <1>6, <2>2, EnqueueMoves DEF Actor
      <3>2. CASE EnqueueAppend(a)
        <4>1. pc'[a] = "signal"
          BY <1>1, <3>1, <3>2, Moves DEF EnqueueAppend
        <4> QED
          BY <3>1, <4>1 DEF WakeIsDue
      <3>3. CASE Signal(a)
        BY <3>3 DEF Signal, WakeIsDue
      <3>4. CASE QueueForAnalysisMark(a) \/ EnqueueMark(a)
        <4>1. UNCHANGED <<queue, wake>> /\ pc[a] # "signal"
          BY <3>4 DEF QueueForAnalysisMark, EnqueueMark, MarkOne, memory
        <4>2. \A r \in Req : pc[r] = "signal" => pc'[r] = "signal"
          BY <1>6, <4>1, EnqueueMoves
        <4> QED
          BY <3>1, <4>1, <4>2 DEF WakeIsDue
      <3> QED
        BY <1>6, <3>2, <3>3, <3>4 DEF EnqueueStep
    <2> QED
      BY <2>1, <2>2
  <1>7. ASSUME NEW r \in Req, RequestArrives(r) \/ RequestStep(r)
        PROVE  WakeIsDue'
    <2>1. pc'[Worker] = pc[Worker] /\ \A o \in Req \ {r} : pc'[o] = pc[o]
      BY <1>7, RequestMoves
    <2>2. CASE WipeQueue(r)
      BY <2>2 DEF WipeQueue, WakeIsDue
    <2>3. CASE Rerate(r)
      <3>1. pc'[r] = "signal"
        BY <1>1, <2>3, Moves DEF Rerate
      <3> QED
        BY <3>1 DEF WakeIsDue
    <2>4. CASE ~WipeQueue(r) /\ ~Rerate(r)
      <3>1. UNCHANGED <<queue, wake>> /\ pc[r] # "signal"
        BY <1>7, <2>4, RequestsLeaveMemory DEF memory
      <3> QED
        BY <2>1, <3>1 DEF WakeIsDue
    <2> QED
      BY <2>2, <2>3, <2>4
  <1>8. ASSUME NEW b \in Book, DeepScanSaves(b)
        PROVE  WakeIsDue'
    BY <1>8 DEF DeepScanSaves, memory, locals, WakeIsDue
  <1>9. CASE Kick
    BY <1>9 DEF Kick, WakeIsDue
  <1>10. CASE Shutdown
    BY <1>10 DEF Shutdown, memory, locals, WakeIsDue
  <1>11. CASE Exit
    BY <1>11 DEF Exit, WakeIsDue
  <1>12. CASE Boot \/ LeaveSafeMode
    <2>1. pc'[Worker] \notin {"feed", "idle"}
      BY <1>1, <1>12, Moves DEF Boot, LeaveSafeMode
    <2> QED
      BY <2>1 DEF WakeIsDue
  <1>13. CASE UNCHANGED vars
    BY <1>13 DEF vars, memory, locals, WakeIsDue
  <1> QED
    BY <1>2, <1>3, <1>4, <1>5, <1>6, <1>7, <1>8, <1>9, <1>10, <1>11, <1>12, <1>13 DEF Next, WorkerStep

LEMMA MarksNext ==
    ASSUME TypeOK, MarksItsOwn, [Next]_vars
    PROVE  MarksItsOwn'
  <1> USE Actors
  <1>1. LocalsOK
    BY DEF TypeOK
  <1>2. ASSUME pc'[Worker] = "set" => ~rerating',
               \A r \in Req : pc'[r] \in {"now", "nowask"} => pc[r] \in {"now", "nowask"} /\ ids'[r] = ids[r]
        PROVE  MarksItsOwn'
    BY <1>2 DEF MarksItsOwn
  <1>3. CASE WorkerStep \/ IdleTimer
    <2>1. \A r \in Req : pc'[r] = pc[r] /\ ids'[r] = ids[r]
      BY <1>3, WorkerMoves
    <2>2. CASE ProcessRead
      <3>1. ~rerating
        BY <2>2 DEF ProcessRead
      <3>2. ~rerating'
        BY <2>2, <3>1 DEF ProcessRead, current, NextBook
      <3> QED
        BY <1>2, <2>1, <3>2
    <2>3. NextBook => pc'[Worker] # "set"
      BY <1>1, Moves DEF NextBook
    <2>4. CASE RerateRead \/ WaitOver \/ WaitCancelled \/ AskFails \/ AskAnswers
      <3>1. pc'[Worker] # "set"
        BY <1>1, <2>3, <2>4, Moves DEF RerateRead, WaitOver, WaitCancelled, AskFails, AskAnswers, Fail
      <3> QED
        BY <1>2, <2>1, <3>1
    <2>5. CASE Pop \/ PopNothing \/ IdleWake \/ IdleTimer \/ IdleStop \/ TakeRerate \/ ProcessMark
      <3>1. \E where \in {"take", "feed", "pop", "off", "read", "wait"} : Goto(Worker, where)
        BY <2>5 DEF Pop, PopNothing, IdleWake, IdleTimer, IdleStop, TakeRerate, ProcessMark
      <3>2. pc'[Worker] # "set"
        BY <1>1, <3>1, Moves
      <3> QED
        BY <1>2, <2>1, <3>2
    <2>6. CASE Feed
      <3>1. pc'[Worker] # "set"
        BY <1>1, <2>6, Moves DEF Feed
      <3> QED
        BY <1>2, <2>1, <3>1
    <2> QED
      BY <1>3, <2>2, <2>4, <2>5, <2>6 DEF WorkerStep
  <1>4. ASSUME NEW a \in Actor, EnqueueStep(a)
        PROVE  MarksItsOwn'
    <2>1. pc'[Worker] = "set" => pc[Worker] = "set" /\ rerating' = rerating
      BY <1>4, EnqueueMoves DEF current
    <2>2. \A r \in Req : pc'[r] \in {"now", "nowask"} => pc'[r] = pc[r] /\ ids'[r] = ids[r]
      BY <1>4, EnqueueMoves
    <2> QED
      BY <2>1, <2>2 DEF MarksItsOwn
  <1>5. ASSUME NEW r \in Req, RequestArrives(r) \/ RequestStep(r)
        PROVE  MarksItsOwn'
    <2>1. /\ pc'[Worker] = pc[Worker] /\ rerating' = rerating
          /\ \A o \in Req \ {r} : pc'[o] = pc[o] /\ ids'[o] = ids[o]
      BY <1>5, RequestMoves DEF current
    <2>2. ASSUME pc'[r] \in {"now", "nowask"} => \E b \in Book : ids'[r] = <<b>>
          PROVE  MarksItsOwn'
      BY <2>1, <2>2 DEF MarksItsOwn
    <2>3. ASSUME NEW where \in {"enq", "mark", "flag", "big", "done", "signal", "reset"},
                 Goto(r, where) \/ \E bs, f : GotoWith(r, where, bs, f)
          PROVE  MarksItsOwn'
      <3>1. pc'[r] = where
        BY <1>1, <2>3, Moves
      <3> QED
        BY <2>2, <3>1
    <2>4. ASSUME NEW b \in Book, RateSoon(r, b)
          PROVE  MarksItsOwn'
      <3>1. GotoWith(r, "now", <<b>>, FALSE)
        BY <2>4 DEF RateSoon
      <3>2. ids'[r] = <<b>>
        BY <1>1, <3>1 DEF GotoWith, LocalsOK
      <3> QED
        BY <2>2, <3>2
    <2>5. ASSUME NEW b \in Book, AnalyzeBook(r, b) \/ RateBig(r, b) \/ SetVerdict(r, b)
          PROVE  MarksItsOwn'
      BY <2>3, <2>5 DEF AnalyzeBook, RateBig, SetVerdict
    <2>6. CASE EnqueueUnrated(r)
      BY <2>3, <2>6 DEF EnqueueUnrated
    <2>7. CASE AnalyzeBatch(r)
      BY <2>3, <2>7 DEF AnalyzeBatch
    <2>8. CASE RetryErrors(r)
      BY <2>3, <2>8 DEF RetryErrors
    <2>9. CASE RerateSelect(r)
      BY <2>3, <2>9 DEF RerateSelect
    <2>10. CASE WipeQueue(r) \/ WipeReset(r)
      BY <2>3, <2>10 DEF WipeQueue, WipeReset
    <2>11. CASE Rerate(r)
      BY <2>3, <2>11 DEF Rerate
    <2>12. CASE RateNowMark(r)
      <3>1. pc[r] = "now" /\ ids' = ids
        BY <1>1, <2>12, Moves DEF RateNowMark
      <3> QED
        BY <2>2, <3>1 DEF MarksItsOwn
    <2>13. CASE RateNowEnd(r) \/ RateWithEnd(r)
      BY <2>3, <2>13 DEF RateNowEnd, RateWithEnd
    <2> QED
      BY <1>5, <2>4, <2>5, <2>6, <2>7, <2>8, <2>9, <2>10, <2>11, <2>12, <2>13 DEF RequestArrives, RequestStep
  <1>6. ASSUME NEW b \in Book, DeepScanSaves(b)
        PROVE  MarksItsOwn'
    BY <1>2, <1>6 DEF DeepScanSaves, locals, current, MarksItsOwn
  <1>7. CASE Kick \/ Shutdown
    BY <1>2, <1>7 DEF Kick, Shutdown, locals, current, MarksItsOwn
  <1>8. CASE Exit
    BY <1>2, <1>8 DEF Exit
  <1>9. CASE Boot \/ LeaveSafeMode
    <2>1. \E where \in {"off", "pop"} : Goto(Worker, where)
      BY <1>9 DEF Boot, LeaveSafeMode
    <2>2. pc'[Worker] # "set" /\ \A r \in Req : pc'[r] = pc[r] /\ ids'[r] = ids[r]
      BY <1>1, <2>1, Moves
    <2> QED
      BY <1>2, <2>2
  <1>10. CASE UNCHANGED vars
    BY <1>10 DEF vars, locals, current, MarksItsOwn
  <1> QED
    BY <1>3, <1>4, <1>5, <1>6, <1>7, <1>8, <1>9, <1>10 DEF Next

\* In whose hands a book is.
WorkerHas(b) == hand = b /\ ~rerating /\ pc[Worker] \in {"wait", "ask"}
RateNowHas(b) == \E r \in Req : pc[r] = "nowask" /\ ids[r] = <<b>>

LEMMA OwnerNext ==
    ASSUME TypeOK, MarksItsOwn, ProcessingHasOwner, [Next]_vars
    PROVE  ProcessingHasOwner'
  <1> USE Actors
  <1>1. LocalsOK /\ BooksOK
    BY DEF TypeOK
  <1> SUFFICES ASSUME up' # "off", NEW b \in Book, status'[b] = "processing"
               PROVE  WorkerHas(b)' \/ RateNowHas(b)'
    BY DEF ProcessingHasOwner, WorkerHas, RateNowHas
  <1>2. up # "off" /\ status[b] = "processing" => WorkerHas(b) \/ RateNowHas(b)
    BY DEF ProcessingHasOwner, WorkerHas, RateNowHas
  <1>3. CASE WorkerStep \/ IdleTimer
    <2>1. up # "off" /\ (RateNowHas(b) => RateNowHas(b)')
      BY <1>3, WorkerMoves DEF RateNowHas, process
    <2>2. CASE ProcessMark
      <3>1. pc'[Worker] = "wait" /\ ~rerating' /\ hand' = hand
        BY <1>1, <2>2, Moves DEF ProcessMark, MarksItsOwn, current
      <3>2. CASE b = hand
        BY <3>1, <3>2 DEF WorkerHas
      <3>3. CASE b # hand
        <4>1. status[b] = "processing" /\ ~WorkerHas(b)
          BY <1>1, <2>2, <3>3 DEF ProcessMark, SetStatus, BooksOK, WorkerHas
        <4> QED
          BY <1>2, <2>1, <4>1
      <3> QED
        BY <3>2, <3>3
    <2>3. CASE WaitOver
      <3>1. CASE Still
        <4>1. pc'[Worker] = "ask" /\ UNCHANGED <<hand, rerating>> /\ status' = status
          BY <1>1, <2>3, <3>1, Moves DEF WaitOver, current, books
        <4> QED
          BY <1>2, <2>1, <4>1 DEF WorkerHas
      <3>2. CASE ~Still
        <4>1. status' = status /\ ~WorkerHas(b)
          BY <2>3, <3>2 DEF WaitOver, Still, books, WorkerHas
        <4> QED
          BY <1>2, <2>1, <4>1
      <3> QED
        BY <3>1, <3>2
    <2>4. CASE WaitCancelled \/ AskFails
      <3>1. PICK e : Fail(e)
        BY <2>4 DEF WaitCancelled, AskFails
      <3>2. status[b] = "processing" /\ ~WorkerHas(b)
        BY <1>1, <3>1 DEF Fail, SetStatus, BooksOK, WorkerHas, books
      <3> QED
        BY <1>2, <2>1, <3>2
    <2>5. CASE AskAnswers
      <3>1. status[b] = "processing" /\ ~WorkerHas(b)
        BY <1>1, <2>5 DEF AskAnswers, SaveAnalysis, BooksOK, WorkerHas, books
      <3> QED
        BY <1>2, <2>1, <3>1
    <2>6. CASE Pop \/ PopNothing \/ Feed \/ IdleWake \/ IdleTimer \/ IdleStop \/ TakeRerate \/ ProcessRead \/ RerateRead
      <3>1. status' = status
        BY <2>6 DEF Pop, PopNothing, Feed, IdleWake, IdleTimer, IdleStop, TakeRerate, ProcessRead, RerateRead, books
      <3>2. pc[Worker] \notin {"wait", "ask"}
        BY <2>6 DEF Pop, PopNothing, Feed, IdleWake, IdleTimer, IdleStop, TakeRerate, ProcessRead, RerateRead
      <3> QED
        BY <1>2, <2>1, <3>1, <3>2 DEF WorkerHas
    <2> QED
      BY <1>3, <2>2, <2>3, <2>4, <2>5, <2>6 DEF WorkerStep
  <1>4. ASSUME NEW a \in Actor, EnqueueStep(a)
        PROVE  WorkerHas(b)' \/ RateNowHas(b)'
    <2>1. status[b] = "processing"
      BY <1>1, <1>4 DEF EnqueueStep, QueueForAnalysisMark, EnqueueMark, MarkOne, EnqueueAppend, Signal,
                        SetStatus, BooksOK, books
    <2>2. up # "off" /\ (WorkerHas(b) => WorkerHas(b)') /\ (RateNowHas(b) => RateNowHas(b)')
      BY <1>4, EnqueueMoves DEF WorkerHas, RateNowHas, current, process
    <2> QED
      BY <1>2, <2>1, <2>2
  <1>5. ASSUME NEW r \in Req, RequestArrives(r) \/ RequestStep(r)
        PROVE  WorkerHas(b)' \/ RateNowHas(b)'
    <2>1. up # "off" /\ (WorkerHas(b) => WorkerHas(b)')
      BY <1>5, RequestMoves DEF WorkerHas, current, process
    <2>2. ASSUME pc[r] # "nowask" \/ ids[r] # <<b>>
          PROVE  RateNowHas(b) => RateNowHas(b)'
      BY <1>5, <2>2, RequestMoves DEF RateNowHas
    <2>3. CASE RateNowMark(r)
      <3>1. PICK c \in Book : ids[r] = <<c>>
        BY <2>3 DEF RateNowMark, MarksItsOwn
      <3>2. pc'[r] = "nowask" /\ ids'[r] = <<c>> /\ pc[r] = "now"
        BY <1>1, <2>3, <3>1, Moves DEF RateNowMark
      <3>3. CASE b = c
        BY <3>2, <3>3 DEF RateNowHas
      <3>4. CASE b # c
        <4>1. status' = [status EXCEPT ![c] = "processing"]
          <5>1. SetStatus(ids[r][1], "processing", "")
            BY <2>3 DEF RateNowMark
          <5>2. ids[r][1] = c
            BY <3>1
          <5> QED
            BY <5>1, <5>2 DEF SetStatus
        <4>2. status[b] = "processing"
          BY <1>1, <3>4, <4>1 DEF BooksOK
        <4> QED
          BY <1>2, <2>1, <2>2, <3>2, <4>2
      <3> QED
        BY <3>3, <3>4
    <2>4. CASE RateNowEnd(r)
      <3>1. ids[r] # <<b>> /\ status[b] = "processing"
        <4>1. PICK c \in Book : ids[r] = <<c>>
          BY <2>4 DEF RateNowEnd, MarksItsOwn
        <4>2. SaveAnalysis(c, "ai") \/ SetStatus(c, "error", "ai")
          BY <2>4, <4>1 DEF RateNowEnd
        <4>3. b # c /\ status[b] = "processing"
          BY <1>1, <4>2 DEF SaveAnalysis, SetStatus, BooksOK
        <4> QED
          BY <4>1, <4>3
      <3> QED
        BY <1>2, <2>1, <2>2, <3>1
    <2>5. CASE ~RateNowMark(r) /\ ~RateNowEnd(r)
      <3>1. ASSUME NEW c \in Book, AnalyzeBook(r, c) \/ RateSoon(r, c) \/ RateBig(r, c)
            PROVE  status[b] = "processing" /\ pc[r] # "nowask"
        BY <3>1 DEF AnalyzeBook, RateSoon, RateBig, Quiet, Arrive, books
      <3>2. ASSUME NEW c \in Book, SetVerdict(r, c)
            PROVE  status[b] = "processing" /\ pc[r] # "nowask"
        BY <1>1, <3>2 DEF SetVerdict, Arrive, SaveAnalysis, BooksOK
      <3>3. ASSUME EnqueueUnrated(r)
            PROVE  status[b] = "processing" /\ pc[r] # "nowask"
        BY <3>3 DEF EnqueueUnrated, Quiet, Arrive, books
      <3>4. ASSUME AnalyzeBatch(r)
            PROVE  status[b] = "processing" /\ pc[r] # "nowask"
        BY <3>4 DEF AnalyzeBatch, Quiet, Arrive, books
      <3>5. ASSUME RetryErrors(r)
            PROVE  status[b] = "processing" /\ pc[r] # "nowask"
        BY <3>5 DEF RetryErrors, Quiet, Arrive, books
      <3>6. ASSUME RerateSelect(r)
            PROVE  status[b] = "processing" /\ pc[r] # "nowask"
        BY <3>6 DEF RerateSelect, Quiet, Arrive, books
      <3>7. ASSUME WipeQueue(r)
            PROVE  status[b] = "processing" /\ pc[r] # "nowask"
        BY <3>7 DEF WipeQueue, Arrive, books
      <3>8. ASSUME WipeReset(r)
            PROVE  status[b] = "processing" /\ pc[r] # "nowask"
        BY <1>1, <3>8 DEF WipeReset, ResetQueued, BooksOK
      <3>9. ASSUME Rerate(r)
            PROVE  status[b] = "processing" /\ pc[r] # "nowask"
        BY <3>9 DEF Rerate, books
      <3>10. ASSUME RateWithEnd(r)
            PROVE  status[b] = "processing" /\ pc[r] # "nowask"
        BY <1>1, <3>10 DEF RateWithEnd, SaveAnalysis, BooksOK, books
      <3>11. status[b] = "processing" /\ pc[r] # "nowask"
        BY <1>5, <2>5, <3>1, <3>2, <3>3, <3>4, <3>5, <3>6, <3>7, <3>8, <3>9, <3>10
        DEF RequestArrives, RequestStep
      <3> QED
        BY <1>2, <2>1, <2>2, <3>11
    <2> QED
      BY <2>3, <2>4, <2>5
  <1>6. ASSUME NEW c \in Book, DeepScanSaves(c)
        PROVE  WorkerHas(b)' \/ RateNowHas(b)'
    <2>1. status[b] = "processing" /\ up # "off"
      BY <1>1, <1>6 DEF DeepScanSaves, SaveAnalysis, BooksOK
    <2>2. UNCHANGED <<pc, ids, hand, rerating>>
      BY <1>6 DEF DeepScanSaves, locals, current
    <2> QED
      BY <1>2, <2>1, <2>2 DEF WorkerHas, RateNowHas
  <1>7. CASE Kick \/ Shutdown \/ UNCHANGED vars
    <2>1. UNCHANGED <<status, pc, ids, hand, rerating>> /\ up # "off"
      BY <1>7 DEF Kick, Shutdown, vars, books, locals, current, process
    <2> QED
      BY <1>2, <2>1 DEF WorkerHas, RateNowHas
  <1>8. CASE Exit
    BY <1>8 DEF Exit
  <1>9. CASE Boot
    BY <1>1, <1>9 DEF Boot, ResetQueued, BooksOK
  <1>10. CASE LeaveSafeMode
    <2>1. status[b] = "processing" /\ up # "off" /\ pc[Worker] = "off"
      BY <1>10 DEF LeaveSafeMode, books
    <2>2. \A r \in Req : pc'[r] = pc[r] /\ ids'[r] = ids[r]
      BY <1>1, <1>10, Moves DEF LeaveSafeMode
    <2> QED
      BY <1>2, <2>1, <2>2 DEF WorkerHas, RateNowHas
  <1> QED
    BY <1>3, <1>4, <1>5, <1>6, <1>7, <1>8, <1>9, <1>10 DEF Next

-----------------------------------------------------------------------------
(* Claims. How often a book is in line is counted over the positions of a  *)
(* list; nobody new enqueues but by leaving where it was, so the           *)
(* enqueuers stay a finite set.                                            *)

Entries(q, b) == {i \in DOMAIN q : q[i] = b}

LEMMA EntriesLemma ==
    ASSUME NEW q \in Seq(Book), NEW b
    PROVE  /\ IsFiniteSet(Entries(q, b)) /\ Cardinality(Entries(q, b)) \in Nat
           /\ b \in Ids(q) => Cardinality(Entries(q, b)) >= 1
  <1>1. IsFiniteSet(Entries(q, b))
    <2>1. Len(q) \in Int /\ 1 \in Int /\ Entries(q, b) \in SUBSET (1..Len(q))
      BY DEF Entries
    <2>2. IsFiniteSet(1..Len(q))
      BY <2>1, FS_Interval
    <2> QED
      BY <2>1, <2>2, FS_Subset
  <1>2. Cardinality(Entries(q, b)) \in Nat
    BY <1>1, FS_CardinalityType
  <1>3. ASSUME b \in Ids(q)
        PROVE  Cardinality(Entries(q, b)) >= 1
    <2>1. Entries(q, b) # {}
      BY <1>3 DEF Ids, Entries
    <2>2. Cardinality(Entries(q, b)) # 0
      BY <1>1, <2>1, FS_EmptySet
    <2> QED
      BY <1>2, <2>2
  <1> QED
    BY <1>1, <1>2, <1>3

LEMMA EntriesConcat ==
    ASSUME NEW p \in Seq(Book), NEW q \in Seq(Book), NEW b
    PROVE  Cardinality(Entries(p \o q, b)) = Cardinality(Entries(p, b)) + Cardinality(Entries(q, b))
  <1> DEFINE Later == {i + Len(p) : i \in Entries(q, b)}
             f == [i \in Entries(q, b) |-> i + Len(p)]
  <1>1. Entries(p \o q, b) = Entries(p, b) \cup Later
    <2>1. ASSUME NEW i \in Entries(p \o q, b)
          PROVE  i \in Entries(p, b) \cup Later
      <3>1. CASE i <= Len(p)
        BY <3>1 DEF Entries
      <3>2. CASE i > Len(p)
        <4>1. i - Len(p) \in DOMAIN q /\ (p \o q)[i] = q[i - Len(p)] /\ i = (i - Len(p)) + Len(p)
          BY <3>2 DEF Entries
        <4>2. i - Len(p) \in Entries(q, b)
          BY <4>1 DEF Entries
        <4> QED
          BY <4>1, <4>2
      <3> QED
        BY <3>1, <3>2 DEF Entries
    <2>2. Entries(p, b) \subseteq Entries(p \o q, b)
      BY DEF Entries
    <2>3. ASSUME NEW i \in Entries(q, b)
          PROVE  i + Len(p) \in Entries(p \o q, b)
      BY DEF Entries
    <2> QED
      BY <2>1, <2>2, <2>3
  <1>2. Entries(p, b) \cap Later = {}
    BY DEF Entries
  <1>3. f \in Bijection(Entries(q, b), Later)
    <2>1. Entries(q, b) \subseteq Nat
      BY DEF Entries
    <2>2. \A i, j \in Entries(q, b) : f[i] = f[j] => i = j
      BY <2>1
    <2>3. f \in [Entries(q, b) -> Later] /\ \A k \in Later : \E i \in Entries(q, b) : f[i] = k
      OBVIOUS
    <2> HIDE DEF f, Later
    <2> QED
      BY <2>2, <2>3 DEF Bijection, Injection, Surjection, IsInjective
  <1>4. IsFiniteSet(Later) /\ Cardinality(Later) = Cardinality(Entries(q, b))
    <2>1. ExistsBijection(Entries(q, b), Later)
      BY <1>3 DEF ExistsBijection
    <2> QED
      BY <2>1, EntriesLemma, FS_Bijection
  <1>5. IsFiniteSet(Entries(p, b)) /\ Cardinality(Entries(p, b)) \in Nat /\ Cardinality(Entries(q, b)) \in Nat
    BY EntriesLemma
  <1>6. Cardinality(Entries(p, b) \cap Later) = 0
    BY <1>2, FS_EmptySet
  <1> HIDE DEF Later
  <1>7. Cardinality(Entries(p, b) \cup Later)
          = Cardinality(Entries(p, b)) + Cardinality(Later) - Cardinality(Entries(p, b) \cap Later)
    BY <1>4, <1>5, FS_Union
  <1> QED
    BY <1>1, <1>4, <1>5, <1>6, <1>7

LEMMA EntriesTail ==
    ASSUME NEW q \in Seq(Book), q # <<>>, NEW b
    PROVE  Cardinality(Entries(q, b)) = Cardinality(Entries(Tail(q), b)) + (IF Head(q) = b THEN 1 ELSE 0)
  <1> DEFINE first == <<Head(q)>>
             rest == Tail(q)
  <1>1. q = first \o rest /\ first \in Seq(Book) /\ rest \in Seq(Book)
    OBVIOUS
  <1>2. Cardinality(Entries(first, b)) = IF Head(q) = b THEN 1 ELSE 0
    <2>1. Entries(first, b) = IF Head(q) = b THEN {1} ELSE {}
      BY DEF Entries
    <2> QED
      BY <2>1, FS_EmptySet, FS_Singleton
  <1>3. Cardinality(Entries(q, b)) = Cardinality(Entries(first, b)) + Cardinality(Entries(rest, b))
    <2> HIDE DEF first, rest
    <2> QED
      BY <1>1, EntriesConcat
  <1>4. Cardinality(Entries(Tail(q), b)) \in Nat
    BY <1>1, EntriesLemma
  <1> QED
    BY <1>2, <1>3, <1>4

-----------------------------------------------------------------------------

\* Everybody who has begun, and where they are in their lists.
Begun == {a \in Actor : pc[a] # "new"}
ListsFit ==
    /\ IsFiniteSet(Begun)
    /\ \A a \in Actor : pc[a] \in {"mark", "enq"} => n[a] \in DOMAIN ids[a]

\* Who is about to mark a list has one.
LEMMA NonemptyLists ==
    /\ \A S \in SUBSET Book : \A q : S # {} /\ q \in Rows(S) => 1 \in DOMAIN q
    /\ \A S \in SUBSET Book : \A q : S # {} /\ q \in Limited(S) => 1 \in DOMAIN q
    /\ \A b \in Book : 1 \in DOMAIN <<b>>
  <1>1. ASSUME NEW S \in SUBSET Book, NEW q, S # {}, q \in Rows(S)
        PROVE  1 \in DOMAIN q
    <2>1. q \in Seq(Book) /\ Ids(q) # {}
      BY <1>1, RowsLemma
    <2> QED
      BY <2>1 DEF Ids
  <1>2. ASSUME NEW S \in SUBSET Book, NEW q, S # {}, q \in Limited(S)
        PROVE  1 \in DOMAIN q
    <2>1. PICK T \in SUBSET S : q \in Rows(T) /\ (Cardinality(T) = Batch \/ T = S)
      BY <1>2 DEF Limited
    <2>2. T # {}
      BY <1>2, <2>1, FS_EmptySet, RatingAssumption DEF RatingAssumption
    <2> QED
      BY <1>1, <2>1, <2>2
  <1> QED
    BY <1>1, <1>2

LEMMA ListsNext ==
    ASSUME TypeOK, ListsFit, [Next]_vars
    PROVE  ListsFit'
  <1> USE Actors
  <1>1. LocalsOK
    BY DEF TypeOK
  \* The others stay, and who moves has a list where it needs one.
  <1>2. ASSUME NEW a \in Actor, \A o \in Actor \ {a} : pc'[o] = pc[o] /\ ids'[o] = ids[o] /\ n'[o] = n[o],
               pc'[a] \in {"mark", "enq"} => n'[a] \in DOMAIN ids'[a]
        PROVE  ListsFit'
    <2>1. Begun' \in SUBSET (Begun \cup {a})
      BY <1>2 DEF Begun
    <2>2. IsFiniteSet(Begun \cup {a})
      BY FS_AddElement DEF ListsFit
    <2>3. IsFiniteSet(Begun')
      BY <2>1, <2>2, FS_Subset
    <2> QED
      BY <1>2, <2>3 DEF ListsFit
  <1>3. ASSUME NEW a \in Actor, NEW where, Goto(a, where), where \notin {"mark", "enq"}
        PROVE  ListsFit'
    <2>1. \A o \in Actor \ {a} : pc'[o] = pc[o] /\ ids'[o] = ids[o] /\ n'[o] = n[o]
      BY <1>1, <1>3 DEF Goto, LocalsOK
    <2>2. pc'[a] \notin {"mark", "enq"}
      BY <1>1, <1>3, Moves
    <2> QED
      BY <1>2, <2>1, <2>2
  <1>4. ASSUME NEW a \in Actor, NEW where, NEW bs, NEW f, GotoWith(a, where, bs, f),
               where \in {"mark", "enq"} => 1 \in DOMAIN bs
        PROVE  ListsFit'
    <2>1. \A o \in Actor \ {a} : pc'[o] = pc[o] /\ ids'[o] = ids[o] /\ n'[o] = n[o]
      BY <1>1, <1>4 DEF GotoWith, LocalsOK
    <2>2. pc'[a] = where /\ ids'[a] = bs /\ n'[a] = 1
      BY <1>1, <1>4 DEF GotoWith, LocalsOK
    <2> QED
      BY <1>2, <1>4, <2>1, <2>2
  <1>5. ASSUME UNCHANGED locals
        PROVE  ListsFit'
    BY <1>5 DEF ListsFit, Begun, locals
  <1>6. NextBook => ListsFit'
    BY <1>3 DEF NextBook
  <1>7. CASE WorkerStep \/ IdleTimer
    <2>1. CASE Pop \/ PopNothing \/ IdleWake \/ IdleTimer \/ IdleStop \/ TakeRerate \/ ProcessMark
      BY <1>3, <2>1 DEF Pop, PopNothing, IdleWake, IdleTimer, IdleStop, TakeRerate, ProcessMark
    <2>2. CASE Feed
      <3>1. WithStatus({"pending"}) \in SUBSET Book
        BY DEF WithStatus
      <3>2. \A bs : WithStatus({"pending"}) # {} /\ bs \in Limited(WithStatus({"pending"})) => 1 \in DOMAIN bs
        BY <3>1, NonemptyLists
      <3>3. \/ WithStatus({"pending"}) # {} /\ \E bs \in Limited(WithStatus({"pending"})) : GotoWith(Worker, "mark", bs, FALSE)
            \/ Goto(Worker, "idle")
        BY <2>2 DEF Feed
      <3> QED
        BY <1>3, <1>4, <3>2, <3>3
    <2>3. CASE ProcessRead \/ WaitOver \/ RerateRead
      BY <1>3, <1>6, <2>3 DEF ProcessRead, WaitOver, RerateRead
    <2>4. CASE WaitCancelled \/ AskFails \/ AskAnswers
      BY <1>6, <2>4 DEF WaitCancelled, AskFails, AskAnswers, Fail
    <2> QED
      BY <1>7, <2>1, <2>2, <2>3, <2>4 DEF WorkerStep
  <1>8. ASSUME NEW a \in Actor, EnqueueStep(a)
        PROVE  ListsFit'
    <2>1. ASSUME NEW here \in {"mark", "enq"}, NEW there, MarkOne(a, here, there)
          PROVE  ListsFit'
      <3>1. n[a] \in DOMAIN ids[a] /\ ids[a] \in Seq(Book) /\ pc[a] = here
        BY <1>1, <2>1 DEF ListsFit, MarkOne, LocalsOK
      <3>2. CASE n[a] = Len(ids[a])
        <4>1. GotoWith(a, there, ids[a], front[a])
          BY <2>1, <3>2 DEF MarkOne
        <4>2. 1 \in DOMAIN ids[a]
          BY <3>1
        <4> QED
          BY <1>4, <4>1, <4>2
      <3>3. CASE n[a] # Len(ids[a])
        <4>1. n' = [n EXCEPT ![a] = @ + 1] /\ UNCHANGED <<pc, ids>>
          BY <2>1, <3>3 DEF MarkOne
        <4>2. n'[a] = n[a] + 1 /\ \A o \in Actor \ {a} : n'[o] = n[o]
          BY <1>1, <4>1 DEF LocalsOK
        <4>3. n'[a] \in DOMAIN ids[a]
          BY <3>1, <3>3, <4>2
        <4> QED
          BY <1>2, <4>1, <4>2, <4>3
      <3> QED
        BY <3>2, <3>3
    <2>2. CASE QueueForAnalysisMark(a) \/ EnqueueMark(a)
      BY <2>1, <2>2 DEF QueueForAnalysisMark, EnqueueMark
    <2>3. CASE EnqueueAppend(a)
      BY <1>4, <2>3 DEF EnqueueAppend
    <2>4. CASE Signal(a)
      BY <1>3, <2>4 DEF Signal
    <2> QED
      BY <1>8, <2>2, <2>3, <2>4 DEF EnqueueStep
  <1>9. ASSUME NEW r \in Req, RequestArrives(r) \/ RequestStep(r)
        PROVE  ListsFit'
    <2>1. ASSUME NEW b \in Book, AnalyzeBook(r, b) \/ RateSoon(r, b) \/ RateBig(r, b) \/ SetVerdict(r, b)
          PROVE  ListsFit'
      BY <1>3, <1>4, <2>1, NonemptyLists DEF AnalyzeBook, RateSoon, RateBig, SetVerdict
    <2>2. CASE EnqueueUnrated(r)
      <3>1. PICK S \in (SUBSET WithStatus({"pending", "error"})) \ {{}} :
                   \E bs \in Rows(S) : GotoWith(r, "enq", bs, TRUE)
        BY <2>2 DEF EnqueueUnrated
      <3>2. S \in SUBSET Book /\ S # {}
        BY <3>1 DEF WithStatus
      <3> QED
        BY <1>4, <3>1, <3>2, NonemptyLists
    <2>3. CASE AnalyzeBatch(r)
      <3>1. WithStatus({"pending"}) \in SUBSET Book
        BY DEF WithStatus
      <3> QED
        BY <1>4, <2>3, <3>1, NonemptyLists DEF AnalyzeBatch
    <2>4. CASE RetryErrors(r)
      <3>1. WithStatus({"error"}) \in SUBSET Book
        BY DEF WithStatus
      <3> QED
        BY <1>4, <2>4, <3>1, NonemptyLists DEF RetryErrors
    <2>5. CASE WipeQueue(r) \/ WipeReset(r) \/ RateNowMark(r)
      BY <1>3, <2>5 DEF WipeQueue, WipeReset, RateNowMark
    <2>6. CASE RerateSelect(r) \/ Rerate(r) \/ RateNowEnd(r) \/ RateWithEnd(r)
      BY <1>4, <2>6 DEF RerateSelect, Rerate, RateNowEnd, RateWithEnd
    <2> QED
      BY <1>9, <2>1, <2>2, <2>3, <2>4, <2>5, <2>6 DEF RequestArrives, RequestStep
  <1>10. ASSUME NEW b \in Book, DeepScanSaves(b)
         PROVE  ListsFit'
    BY <1>5, <1>10 DEF DeepScanSaves
  <1>11. CASE Kick \/ Shutdown \/ UNCHANGED vars
    BY <1>5, <1>11 DEF Kick, Shutdown, vars, locals
  <1>12. CASE Exit
    <2>1. pc' = [a \in Actor |-> IF a = Worker THEN "off" ELSE IF pc[a] = "new" THEN "new" ELSE "done"]
      BY <1>12 DEF Exit
    <2>2. Begun' \in SUBSET (Begun \cup {Worker})
      BY <2>1 DEF Begun
    <2>3. IsFiniteSet(Begun \cup {Worker})
      BY FS_AddElement DEF ListsFit
    <2>4. IsFiniteSet(Begun')
      BY <2>2, <2>3, FS_Subset
    <2> QED
      BY <2>1, <2>4 DEF ListsFit
  <1>13. CASE Boot
    <2>1. \E where \in {"off", "pop"} : Goto(Worker, where)
      BY <1>13 DEF Boot
    <2> QED
      BY <1>3, <2>1
  <1>14. CASE LeaveSafeMode
    BY <1>3, <1>14 DEF LeaveSafeMode
  <1> QED
    BY <1>7, <1>8, <1>9, <1>10, <1>11, <1>12, <1>13, <1>14 DEF Next

-----------------------------------------------------------------------------

Holding(b) == hand = b /\ (pc[Worker] \in {"take", "set"} \/ (pc[Worker] = "read" /\ ~rerating))

\* What a book has: places in line, goroutines about to enqueue it, the worker's hand; and what a flag takes of it.
InLine(b)  == Cardinality(Entries(queue, b))
Callers(b) == Cardinality(Enqueueing(b))
InHand(b)  == IF Holding(b) THEN 1 ELSE 0
Owed(b)    == IF b \in rerate THEN 1 ELSE 0

LEMMA ClaimsCount ==
    ASSUME TypeOK, TypeOK', ListsFit, ListsFit', NEW b \in Book
    PROVE  /\ InLine(b) \in Nat /\ InLine(b)' \in Nat /\ Callers(b) \in Nat /\ Callers(b)' \in Nat
           /\ InHand(b) \in {0, 1} /\ InHand(b)' \in {0, 1} /\ Owed(b) \in {0, 1} /\ Owed(b)' \in {0, 1}
           /\ Claims(b) = InLine(b) + Callers(b) + InHand(b)
           /\ Claims(b)' = InLine(b)' + Callers(b)' + InHand(b)'
           /\ Enqueueing(b) \subseteq Enqueueing(b)' => Callers(b) <= Callers(b)'
           /\ \A a : Enqueueing(b) \ {a} \subseteq Enqueueing(b)' => Callers(b) <= Callers(b)' + 1
           /\ b \in Ids(queue') => InLine(b)' >= 1
           /\ Enqueueing(b)' # {} => Callers(b)' >= 1
  <1>1. queue \in Seq(Book) /\ queue' \in Seq(Book)
    BY DEF TypeOK, MemoryOK
  <1>2. InLine(b) \in Nat /\ InLine(b)' \in Nat /\ (b \in Ids(queue') => InLine(b)' >= 1)
    BY <1>1, EntriesLemma DEF InLine
  <1>3. Enqueueing(b) \in SUBSET Begun /\ Enqueueing(b)' \in SUBSET Begun'
    BY DEF Enqueueing, Begun
  <1>4. IsFiniteSet(Enqueueing(b)) /\ IsFiniteSet(Enqueueing(b)')
    BY <1>3, FS_Subset DEF ListsFit
  <1>5. Callers(b) \in Nat /\ Callers(b)' \in Nat
    BY <1>4, FS_CardinalityType DEF Callers
  <1>6. Enqueueing(b)' # {} => Callers(b)' >= 1
    <2>1. Enqueueing(b)' # {} => Callers(b)' # 0
      BY <1>4, FS_EmptySet DEF Callers
    <2> QED
      BY <1>5, <2>1
  <1>7. Enqueueing(b) \subseteq Enqueueing(b)' => Callers(b) <= Callers(b)'
    BY <1>4, FS_Subset DEF Callers
  <1>8. ASSUME NEW a, Enqueueing(b) \ {a} \subseteq Enqueueing(b)'
        PROVE  Callers(b) <= Callers(b)' + 1
    <2>1. Cardinality(Enqueueing(b) \ {a}) = IF a \in Enqueueing(b) THEN Callers(b) - 1 ELSE Callers(b)
      BY <1>4, FS_RemoveElement DEF Callers
    <2>2. Cardinality(Enqueueing(b) \ {a}) <= Callers(b)'
      BY <1>4, <1>8, FS_Subset DEF Callers
    <2> QED
      BY <1>5, <2>1, <2>2
  <1>9. /\ Claims(b) = InLine(b) + Callers(b) + InHand(b)
        /\ Claims(b)' = InLine(b)' + Callers(b)' + InHand(b)'
    BY DEF Claims, InLine, Callers, InHand, Holding, Entries
  <1>10. /\ InHand(b) \in {0, 1} /\ InHand(b)' \in {0, 1} /\ Owed(b) \in {0, 1} /\ Owed(b)' \in {0, 1}
    BY DEF InHand, Owed
  <1> QED
    BY <1>2, <1>5, <1>6, <1>7, <1>8, <1>9, <1>10

LEMMA ClaimedNext ==
    ASSUME TypeOK, TypeOK', Down, FlaggedIsQueued, ListsFit, ListsFit', QueuedIsClaimed, [Next]_vars
    PROVE  QueuedIsClaimed'
  <1> USE Actors
  <1>1. LocalsOK /\ LocalsOK' /\ BooksOK /\ queue \in Seq(Book)
    BY DEF TypeOK, MemoryOK
  <1> SUFFICES ASSUME up' # "off", \A r \in Req : pc'[r] # "reset", NEW b \in Book, status'[b] = "queued"
               PROVE  Claims(b)' > Owed(b)'
    BY DEF QueuedIsClaimed, Owed
  <1>2. /\ InLine(b) \in Nat /\ InLine(b)' \in Nat /\ Callers(b) \in Nat /\ Callers(b)' \in Nat
        /\ InHand(b) \in {0, 1} /\ InHand(b)' \in {0, 1} /\ Owed(b) \in {0, 1} /\ Owed(b)' \in {0, 1}
        /\ Claims(b) = InLine(b) + Callers(b) + InHand(b)
        /\ Claims(b)' = InLine(b)' + Callers(b)' + InHand(b)'
    BY ClaimsCount
  <1>3. /\ Enqueueing(b) \subseteq Enqueueing(b)' => Callers(b) <= Callers(b)'
        /\ \A a : Enqueueing(b) \ {a} \subseteq Enqueueing(b)' => Callers(b) <= Callers(b)' + 1
        /\ b \in Ids(queue') => InLine(b)' >= 1
        /\ Enqueueing(b)' # {} => Callers(b)' >= 1
    BY ClaimsCount
  <1>4. up # "off" /\ (\A r \in Req : pc[r] # "reset") /\ status[b] = "queued" => Claims(b) > Owed(b)
    BY DEF QueuedIsClaimed, Owed
  \* Nobody has to wipe, and the book was queued before: it is enough that no claim is lost.
  <1> DEFINE Before == up # "off" /\ (\A r \in Req : pc[r] # "reset") /\ status[b] = "queued"
  <1>5. ASSUME Before, InLine(b) + InHand(b) + Owed(b)' <= InLine(b)' + InHand(b)' + Owed(b),
               Enqueueing(b) \subseteq Enqueueing(b)'
        PROVE  Claims(b)' > Owed(b)'
    BY <1>2, <1>3, <1>4, <1>5
  \* Who enqueues it still does, but for a.
  <1>6. ASSUME NEW a \in Actor, \A o \in Actor \ {a} : pc'[o] = pc[o] /\ ids'[o] = ids[o]
        PROVE  /\ Enqueueing(b) \ {a} \subseteq Enqueueing(b)'
               /\ pc[a] \notin {"mark", "enq", "append"} => Enqueueing(b) \subseteq Enqueueing(b)'
    BY <1>6 DEF Enqueueing
  <1>7. UNCHANGED queue => InLine(b)' = InLine(b)
    BY DEF InLine
  <1>8. UNCHANGED rerate => Owed(b)' = Owed(b)
    BY DEF Owed
  <1> HIDE DEF Before
  <1>9. CASE WorkerStep \/ IdleTimer
    <2>1. /\ \A o \in Actor \ {Worker} : pc'[o] = pc[o] /\ ids'[o] = ids[o]
          /\ up' = up /\ pc[Worker] \in {"pop", "feed", "idle", "take", "read", "set", "wait", "ask"}
      BY <1>9, WorkerMoves DEF process
    <2>2. Enqueueing(b) \subseteq Enqueueing(b)'
      BY <1>6, <2>1
    <2>3. status[b] = "queued" => Before
      BY <2>1 DEF Before
    <2>4. ASSUME status[b] = "queued", UNCHANGED <<queue, rerate>>, ~Holding(b)
          PROVE  Claims(b)' > Owed(b)'
      BY <1>2, <1>5, <1>7, <1>8, <2>2, <2>3, <2>4 DEF InHand
    <2>5. CASE Pop
      <3>1. queue # <<>> /\ pc[Worker] = "pop" /\ hand' = Head(queue) /\ queue' = Tail(queue)
            /\ UNCHANGED <<status, rerate>>
        BY <2>5 DEF Pop, books
      <3>2. pc'[Worker] = "take"
        BY <1>1, <2>5, Moves DEF Pop
      <3>3. InLine(b) = InLine(b)' + (IF Head(queue) = b THEN 1 ELSE 0)
        BY <1>1, <3>1, EntriesTail DEF InLine
      <3>4. InHand(b) = 0 /\ InHand(b)' = IF Head(queue) = b THEN 1 ELSE 0
        BY <3>1, <3>2 DEF InHand, Holding
      <3> QED
        BY <1>2, <1>5, <1>8, <2>2, <2>3, <3>1, <3>3, <3>4
    <2>6. CASE TakeRerate
      <3>1. /\ pc[Worker] = "take" /\ rerating' = (hand \in rerate) /\ rerate' = rerate \ {hand}
            /\ UNCHANGED <<status, queue, hand>>
        BY <2>6 DEF TakeRerate, books
      <3>2. pc'[Worker] = "read"
        BY <1>1, <2>6, Moves DEF TakeRerate
      <3>3. CASE hand = b
        <4>1. InHand(b) = 1
          BY <3>1, <3>3 DEF InHand, Holding
        <4>2. Owed(b)' = 0
          BY <3>1, <3>3 DEF Owed
        <4>3. InHand(b)' = 1 - Owed(b)
          <5>1. hand' = b /\ (rerating' <=> b \in rerate)
            BY <3>1, <3>3
          <5>2. Holding(b)' <=> b \notin rerate
            BY <3>2, <5>1 DEF Holding
          <5> QED
            BY <5>2 DEF InHand, Owed
        <4> QED
          BY <1>2, <1>5, <1>7, <2>2, <2>3, <3>1, <4>1, <4>2, <4>3
      <3>4. CASE hand # b
        <4>1. InHand(b) = 0 /\ InHand(b)' = 0 /\ Owed(b)' = Owed(b)
          BY <3>1, <3>4 DEF InHand, Holding, Owed
        <4> QED
          BY <1>2, <1>5, <1>7, <2>2, <2>3, <3>1, <4>1
      <3> QED
        BY <3>3, <3>4
    <2>7. CASE ProcessRead
      <3>1. ~rerating /\ pc[Worker] = "read" /\ UNCHANGED <<status, queue, rerate>>
        BY <2>7 DEF ProcessRead, books, memory
      <3>2. CASE status[hand] = "queued"
        <4>1. pc'[Worker] = "set" /\ hand' = hand
          BY <1>1, <2>7, <3>2, Moves DEF ProcessRead, current
        <4>2. InHand(b)' = InHand(b)
          BY <3>1, <4>1 DEF InHand, Holding
        <4> QED
          BY <1>2, <1>5, <1>7, <1>8, <2>2, <2>3, <3>1, <4>2
      <3>3. CASE status[hand] # "queued"
        BY <2>4, <3>1, <3>3 DEF Holding
      <3> QED
        BY <3>2, <3>3
    <2>8. CASE ProcessMark
      <3>1. status' = [status EXCEPT ![hand] = "processing"] /\ UNCHANGED <<queue, rerate>>
        BY <2>8 DEF ProcessMark, SetStatus, memory
      <3>2. b # hand /\ status[b] = "queued"
        BY <1>1, <3>1 DEF BooksOK
      <3> QED
        BY <2>4, <3>1, <3>2 DEF Holding
    <2>9. CASE WaitCancelled \/ AskFails
      <3>1. PICK e : Fail(e)
        BY <2>9 DEF WaitCancelled, AskFails
      <3>2. status[b] = "queued" /\ UNCHANGED <<queue, rerate>>
        BY <1>1, <3>1 DEF Fail, SetStatus, BooksOK, books, memory
      <3> QED
        BY <2>4, <2>9, <3>2 DEF WaitCancelled, AskFails, Holding
    <2>10. CASE AskAnswers
      <3>1. status[b] = "queued" /\ UNCHANGED <<queue, rerate>>
        BY <1>1, <2>10 DEF AskAnswers, SaveAnalysis, BooksOK, books, memory
      <3> QED
        BY <2>4, <2>10, <3>1 DEF AskAnswers, Holding
    <2>11. CASE PopNothing \/ Feed \/ IdleWake \/ IdleTimer \/ IdleStop \/ RerateRead \/ WaitOver
      <3>1. UNCHANGED <<status, queue, rerate>>
        BY <2>11 DEF PopNothing, Feed, IdleWake, IdleTimer, IdleStop, RerateRead, WaitOver, books, memory
      <3>2. pc[Worker] \in {"pop", "feed", "idle", "wait"} \/ (rerating /\ pc[Worker] = "read")
        BY <2>11 DEF PopNothing, Feed, IdleWake, IdleTimer, IdleStop, RerateRead, WaitOver
      <3> QED
        BY <2>4, <3>1, <3>2 DEF Holding
    <2> QED
      BY <1>9, <2>5, <2>6, <2>7, <2>8, <2>9, <2>10, <2>11 DEF WorkerStep
  <1>10. ASSUME NEW a \in Actor, EnqueueStep(a)
         PROVE  Claims(b)' > Owed(b)'
    <2>1. /\ \A o \in Actor \ {a} : pc'[o] = pc[o] /\ ids'[o] = ids[o]
          /\ UNCHANGED <<rerate, hand, rerating, up>>
          /\ pc[a] \in {"mark", "enq", "append", "signal"}
          /\ pc'[a] \in {"mark", "enq", "append", "signal", "pop", "done"}
      BY <1>10, EnqueueMoves DEF current, process
    <2>2. up # "off" /\ \A r \in Req : pc[r] # "reset"
      BY <2>1 DEF Down, Actor
    <2>3. InHand(b)' = InHand(b)
      <3>1. Holding(b)' <=> Holding(b)
        BY <2>1 DEF Holding
      <3> QED
        BY <3>1 DEF InHand
    <2>4. status[b] = "queued" => Before
      BY <2>2 DEF Before
    <2>5. ASSUME NEW here \in {"mark", "enq"}, NEW there \in {"enq", "append"}, MarkOne(a, here, there)
          PROVE  Claims(b)' > Owed(b)'
      <3>1. ids'[a] = ids[a] /\ pc[a] = here /\ pc'[a] \in {here, there}
        <4>1. CASE n[a] = Len(ids[a])
          BY <1>1, <2>5, <4>1, Moves DEF MarkOne
        <4>2. CASE n[a] # Len(ids[a])
          BY <1>1, <2>5, <4>2 DEF MarkOne
        <4> QED
          BY <4>1, <4>2
      <3>2. queue' = queue /\ status' = [status EXCEPT ![ids[a][n[a]]] = "queued"]
        BY <2>5 DEF MarkOne, memory, SetStatus
      <3>3. n[a] \in DOMAIN ids[a]
        BY <3>1 DEF ListsFit
      <3>4. Enqueueing(b) \subseteq Enqueueing(b)'
        BY <2>1, <3>1 DEF Enqueueing
      <3>5. CASE ids[a][n[a]] = b
        <4>1. a \in Enqueueing(b)'
          BY <3>1, <3>3, <3>5 DEF Enqueueing, Ids
        <4>2. Callers(b)' >= 1
          BY <1>3, <4>1
        <4>3. CASE b \notin rerate
          BY <1>2, <2>1, <4>2, <4>3 DEF Owed
        <4>4. CASE b \in Ids(queue)
          BY <1>2, <1>3, <3>2, <4>2, <4>4
        <4>5. CASE pc[Worker] = "take" /\ hand = b
          <5>1. InHand(b)' = 1
            BY <2>3, <4>5 DEF InHand, Holding
          <5> QED
            BY <1>2, <4>2, <5>1
        <4> QED
          BY <4>3, <4>4, <4>5 DEF FlaggedIsQueued
      <3>6. CASE ids[a][n[a]] # b
        <4>1. status[b] = "queued"
          BY <1>1, <3>2, <3>6 DEF BooksOK
        <4> QED
          BY <1>2, <1>5, <1>7, <1>8, <2>1, <2>3, <2>4, <3>2, <3>4, <4>1
      <3> QED
        BY <3>5, <3>6
    <2>6. CASE QueueForAnalysisMark(a) \/ EnqueueMark(a)
      BY <2>5, <2>6 DEF QueueForAnalysisMark, EnqueueMark
    <2>7. CASE EnqueueAppend(a)
      <3>1. /\ status[b] = "queued" /\ pc[a] = "append" /\ ids[a] \in Seq(Book)
            /\ queue' = IF front[a] THEN ids[a] \o queue ELSE queue \o ids[a]
        BY <1>1, <2>7 DEF EnqueueAppend, LocalsOK, books
      <3> DEFINE Added == Cardinality(Entries(ids[a], b))
      <3>2. InLine(b)' = InLine(b) + Added
        <4>1. /\ Cardinality(Entries(ids[a] \o queue, b)) = Added + InLine(b)
              /\ Cardinality(Entries(queue \o ids[a], b)) = InLine(b) + Added
          BY <1>1, <3>1, EntriesConcat DEF InLine
        <4>2. Added \in Nat
          BY <3>1, EntriesLemma
        <4> HIDE DEF Added
        <4>3. InLine(b)' = Cardinality(Entries(queue', b))
          BY DEF InLine
        <4> QED
          BY <1>2, <3>1, <4>1, <4>2, <4>3
      <3>3. Added \in Nat /\ (b \in Ids(ids[a]) => Added >= 1)
        BY <3>1, EntriesLemma
      <3>4. Enqueueing(b) \ {a} \subseteq Enqueueing(b)'
        BY <1>6, <2>1
      <3>5. Claims(b) > Owed(b) /\ Owed(b)' = Owed(b)
        BY <1>4, <1>8, <2>1, <2>2, <3>1
      <3> HIDE DEF Added
      <3>6. CASE b \in Ids(ids[a])
        <4>1. Callers(b) <= Callers(b)' + 1 /\ Added >= 1
          BY <1>3, <3>3, <3>4, <3>6
        <4> QED
          BY <1>2, <2>3, <3>2, <3>3, <3>5, <4>1
      <3>7. CASE b \notin Ids(ids[a])
        <4>1. Enqueueing(b) \subseteq Enqueueing(b)'
          BY <3>4, <3>7 DEF Enqueueing
        <4> QED
          BY <1>2, <1>3, <2>3, <3>2, <3>3, <3>5, <4>1
      <3> QED
        BY <3>6, <3>7
    <2>8. CASE Signal(a)
      <3>1. status[b] = "queued" /\ queue' = queue /\ pc[a] = "signal"
        BY <2>8 DEF Signal, books
      <3> QED
        BY <1>2, <1>5, <1>6, <1>7, <1>8, <2>1, <2>3, <2>4, <3>1
    <2> QED
      BY <1>10, <2>6, <2>7, <2>8 DEF EnqueueStep
  <1>11. ASSUME NEW r \in Req, RequestArrives(r) \/ RequestStep(r)
         PROVE  Claims(b)' > Owed(b)'
    <2>1. /\ \A o \in Actor \ {r} : pc'[o] = pc[o] /\ ids'[o] = ids[o]
          /\ UNCHANGED <<hand, rerating, up>>
          /\ pc[r] = "new" \/ pc[r] \notin {"new", "done"}
          /\ pc[r] = "new" => up = "on"
      BY <1>11, RequestMoves DEF current, process
    <2>2. up # "off"
      BY <2>1 DEF Down
    <2>3. InHand(b)' = InHand(b)
      BY <2>1 DEF InHand, Holding
    <2>4. status[b] = "queued" /\ pc[r] # "reset" => Before
      BY <2>1, <2>2 DEF Before
    <2>5. CASE WipeQueue(r)
      BY <1>1, <2>5, Moves DEF WipeQueue
    <2>6. CASE WipeReset(r)
      BY <1>1, <2>6 DEF WipeReset, ResetQueued, BooksOK
    <2>7. CASE Rerate(r)
      <3>1. status[b] = "queued" /\ pc[r] = "flag" /\ ids[r] \in Seq(Book) /\ rerate \in SUBSET Book
            /\ rerate' = rerate \cup Ids(ids[r])
        BY <1>1, <2>7 DEF Rerate, LocalsOK, books, TypeOK, MemoryOK
      <3>2. PICK bs \in Without(ids[r], rerate) : queue' = queue \o bs
        BY <2>7 DEF Rerate
      <3>3. bs \in Seq(Book) /\ Ids(bs) = Ids(ids[r]) \ rerate
        BY <3>1, WithoutLemma
      <3> DEFINE Added == Cardinality(Entries(bs, b))
      <3>4. InLine(b)' = InLine(b) + Added
        BY <1>1, <3>2, <3>3, EntriesConcat DEF InLine
      <3>5. Added \in Nat /\ (b \in Ids(bs) => Added >= 1)
        BY <3>3, EntriesLemma
      <3>6. Owed(b)' <= Owed(b) + Added
        <4> HIDE DEF Added
        <4>1. CASE b \in Ids(bs)
          BY <1>2, <3>5, <4>1
        <4>2. CASE b \notin Ids(bs)
          <5>1. Owed(b)' = Owed(b)
            BY <3>1, <3>3, <4>2 DEF Owed
          <5> QED
            BY <1>2, <3>5, <5>1
        <4> QED
          BY <4>1, <4>2
      <3>7. Enqueueing(b) \subseteq Enqueueing(b)'
        BY <1>6, <2>1, <3>1
      <3> HIDE DEF Added
      <3> QED
        BY <1>2, <1>5, <2>3, <2>4, <3>1, <3>4, <3>5, <3>6, <3>7
    <2>8. CASE ~WipeQueue(r) /\ ~WipeReset(r) /\ ~Rerate(r)
      <3>1. UNCHANGED <<queue, rerate>>
        BY <1>11, <2>8, RequestsLeaveMemory DEF memory
      <3> DEFINE Goal == status[b] = "queued" /\ pc[r] \notin {"reset", "mark", "enq", "append"}
      <3>2. ASSUME NEW c \in Book, AnalyzeBook(r, c) \/ RateSoon(r, c) \/ RateBig(r, c)
            PROVE  Goal
        BY <3>2 DEF AnalyzeBook, RateSoon, RateBig, Quiet, Arrive, books
      <3>3. ASSUME NEW c \in Book, SetVerdict(r, c)
            PROVE  Goal
        BY <1>1, <3>3 DEF SetVerdict, Arrive, SaveAnalysis, BooksOK
      <3>4. ASSUME EnqueueUnrated(r)
            PROVE  Goal
        BY <3>4 DEF EnqueueUnrated, Quiet, Arrive, books
      <3>5. ASSUME AnalyzeBatch(r)
            PROVE  Goal
        BY <3>5 DEF AnalyzeBatch, Quiet, Arrive, books
      <3>6. ASSUME RetryErrors(r)
            PROVE  Goal
        BY <3>6 DEF RetryErrors, Quiet, Arrive, books
      <3>7. ASSUME RerateSelect(r)
            PROVE  Goal
        BY <3>7 DEF RerateSelect, Quiet, Arrive, books
      <3>8. ASSUME RateNowMark(r)
            PROVE  Goal
        BY <1>1, <3>8 DEF RateNowMark, SetStatus, BooksOK
      <3>9. ASSUME RateNowEnd(r)
            PROVE  Goal
        BY <1>1, <3>9 DEF RateNowEnd, SaveAnalysis, SetStatus, BooksOK
      <3>10. ASSUME RateWithEnd(r)
            PROVE  Goal
        BY <1>1, <3>10 DEF RateWithEnd, SaveAnalysis, BooksOK, books
      <3>11. Goal
        BY <1>11, <2>8, <3>2, <3>3, <3>4, <3>5, <3>6, <3>7, <3>8, <3>9, <3>10 DEF RequestArrives, RequestStep
      <3>12. Enqueueing(b) \subseteq Enqueueing(b)'
        BY <1>6, <2>1, <3>11
      <3> QED
        BY <1>2, <1>5, <1>7, <1>8, <2>3, <2>4, <3>1, <3>11, <3>12
    <2> QED
      BY <2>5, <2>6, <2>7, <2>8
  \* What leaves all goroutines, the queue and the flags alone, and queues nothing.
  <1>12. ASSUME UNCHANGED <<locals, current, queue, rerate>>, up # "off", status[b] = "queued"
         PROVE  Claims(b)' > Owed(b)'
    <2>1. UNCHANGED <<pc, ids, hand, rerating>>
      BY <1>12 DEF locals, current
    <2>2. InHand(b)' = InHand(b) /\ Enqueueing(b) \subseteq Enqueueing(b)'
      BY <2>1 DEF InHand, Holding, Enqueueing
    <2>3. Before
      BY <1>12, <2>1 DEF Before
    <2> QED
      BY <1>2, <1>5, <1>7, <1>8, <1>12, <2>2, <2>3
  <1>13. ASSUME NEW c \in Book, DeepScanSaves(c)
         PROVE  Claims(b)' > Owed(b)'
    <2>1. status[b] = "queued" /\ up # "off"
      BY <1>1, <1>13 DEF DeepScanSaves, SaveAnalysis, BooksOK
    <2> QED
      BY <1>12, <1>13, <2>1 DEF DeepScanSaves, memory
  <1>14. CASE Kick \/ Shutdown \/ UNCHANGED vars
    <2>1. UNCHANGED <<locals, current, queue, rerate, status>> /\ up # "off"
      BY <1>14 DEF Kick, Shutdown, vars, books, memory, process
    <2> QED
      BY <1>12, <2>1
  <1>15. CASE Exit
    BY <1>15 DEF Exit
  <1>16. CASE Boot
    BY <1>1, <1>16 DEF Boot, ResetQueued, BooksOK
  <1>17. CASE LeaveSafeMode
    <2>1. /\ status[b] = "queued" /\ up # "off" /\ pc[Worker] = "off"
          /\ UNCHANGED <<queue, rerate, hand, ids>> /\ Goto(Worker, "pop")
      BY <1>17 DEF LeaveSafeMode, books, memory, current, Goto
    <2>2. pc'[Worker] = "pop" /\ \A o \in Actor \ {Worker} : pc'[o] = pc[o] /\ ids'[o] = ids[o]
      BY <1>1, <2>1, Moves
    <2>3. InHand(b) = 0 /\ Enqueueing(b) \subseteq Enqueueing(b)' /\ Before
      BY <1>6, <2>1, <2>2 DEF InHand, Holding, Before
    <2> QED
      BY <1>2, <1>5, <1>7, <1>8, <2>1, <2>3
  <1> QED
    BY <1>9, <1>10, <1>11, <1>13, <1>14, <1>15, <1>16, <1>17 DEF Next

-----------------------------------------------------------------------------
(* The theorems.                                                           *)

IInv ==
    /\ TypeOK /\ Down /\ FlaggedIsQueued /\ WakeIsDue /\ MarksItsOwn /\ ProcessingHasOwner
    /\ ListsFit /\ QueuedIsClaimed

LEMMA Invariance == Spec => []IInv
  <1>1. Init => IInv
    <2> SUFFICES ASSUME Init PROVE IInv
      OBVIOUS
    <2>1. pc[Worker] = "pop" /\ \A r \in Req : pc[r] = "new"
      BY Actors DEF Init
    <2>2. Down /\ FlaggedIsQueued /\ WakeIsDue /\ MarksItsOwn
      BY <2>1 DEF Init, Down, FlaggedIsQueued, WakeIsDue, MarksItsOwn
    <2>3. \A b \in Book : status[b] \notin {"processing", "queued"}
      BY DEF Init
    <2>4. Begun = {Worker}
      BY Actors DEF Init, Begun
    <2>5. ListsFit
      BY <2>4, FS_Singleton DEF Init, ListsFit
    <2> QED
      BY <2>2, <2>3, <2>5, TypeInit DEF IInv, ProcessingHasOwner, QueuedIsClaimed
  <1>2. IInv /\ [Next]_vars => IInv'
    <2> SUFFICES ASSUME IInv, [Next]_vars PROVE IInv'
      OBVIOUS
    <2>1. TypeOK' /\ ListsFit'
      BY TypeNext, ListsNext DEF IInv
    <2>2. QueuedIsClaimed'
      BY <2>1, ClaimedNext DEF IInv
    <2> QED
      BY <2>1, <2>2, DownNext, FlaggedNext, WakeNext, MarksNext, OwnerNext DEF IInv
  <1> QED
    BY <1>1, <1>2, PTL DEF Spec

\* A book that is shown as queued is rated, fails, or is put back: whatever handlers,
\* re-rates, wipes, Deep Scans and restarts came between, process comes to it once more
\* than the re-rates that are due skip it.
THEOREM BooksKeepTheirPlace == Spec => []QueueKeepsItsBooks
  <1>1. IInv => QueueKeepsItsBooks
    BY DEF IInv, QueueKeepsItsBooks
  <1> QED
    BY <1>1, Invariance, PTL

\* No flagged book is forgotten: takeRerate runs for every flag Rerate sets, or a Wipe
\* clears it, so that a later re-rate of the book is never refused for good.
THEOREM FlagsAreServed == Spec => []FlaggedIsQueued
  <1>1. IInv => FlaggedIsQueued
    BY DEF IInv
  <1> QED
    BY <1>1, Invariance, PTL

\* The worker never falls asleep on a queue nobody is going to wake it for.
THEOREM WakeupsAreKept == Spec => []NoLostWakeup
  <1>1. IInv => NoLostWakeup
    BY DEF IInv, WakeIsDue, NoLostWakeup
  <1> QED
    BY <1>1, Invariance, PTL

\* No book stays in processing with nobody working on it.
THEOREM ProcessingIsOwned == Spec => []ProcessingHasOwner
  <1>1. IInv => ProcessingHasOwner
    BY DEF IInv
  <1> QED
    BY <1>1, Invariance, PTL
=============================================================================
