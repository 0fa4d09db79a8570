----------------------------- MODULE DeepScan_proofs -----------------------------
(***************************************************************************)
(* Deep Scans, for any books, admins, parts and number of scans: their     *)
(* rows say what happened, and go through the life of a scan. What makes   *)
(* it inductive is what the runner knows of the row it reads, which admins *)
(* may cancel but never put back in line, and what a held row keeps while  *)
(* an admin saves its rating and closes it in two statements.              *)
(***************************************************************************)
EXTENDS DeepScan, FiniteSetTheorems, WellFoundedInduction, TLAPS

\* A finite set of numbers has a largest: one with fewest above it, and a larger one would have fewer.
LEMMA HasLargest ==
    ASSUME NEW S \in SUBSET Nat, IsFiniteSet(S), S # {}
    PROVE  \E m \in S : \A x \in S : x <= m
<1> DEFINE Above(b) == {x \in S : x > b}
           T == {Above(b) : b \in S}
<1>1. T \subseteq SUBSET S /\ T # {}
  OBVIOUS
<1>2. IsWellFoundedOn(StrictSubsetOrdering(S), SUBSET S)
  BY FS_StrictSubsetOrderingWellFounded, FS_FiniteSubsetsOfFinite
<1>3. PICK A \in T : \A B \in T : <<B, A>> \notin StrictSubsetOrdering(S)
  <2> HIDE DEF T
  <2> QED
    BY <1>1, <1>2, WFMin
<1>4. PICK m \in S : A = Above(m)
  OBVIOUS
<1>5. ASSUME NEW x \in S, ~(x <= m)
      PROVE  FALSE
  <2>1. x > m /\ x \in Above(m) /\ x \notin Above(x)
    BY <1>5
  <2>2. ASSUME NEW y \in Above(x)
        PROVE  y \in Above(m)
    <3>1. y \in S /\ y > x
      OBVIOUS
    <3>2. x \in Nat /\ y \in Nat /\ m \in Nat
      BY <3>1
    <3>3. QED
      BY <2>1, <3>1, <3>2
  <2>3. Above(x) \in T /\ Above(x) # Above(m)
    BY <2>1
  <2>4. <<Above(x), A>> \in StrictSubsetOrdering(S)
    BY <2>2, <2>3, <1>1, <1>4 DEF StrictSubsetOrdering
  <2>5. QED
    BY <1>3, <2>3, <2>4
<1>6. QED
  BY <1>5

\* The types, in groups that the actions leave alone as a whole.
RowsTyped ==
    /\ status \in [Scan -> ScanStatus]
    /\ bookOf \in [Scan -> Book]
    /\ position \in [Scan -> Nat]
    /\ held \subseteq Scan
    /\ proposed \in [Scan -> Level \cup {Unrated}]
    /\ newLevel \in [Scan -> Level \cup {Unrated}]

BooksTyped ==
    /\ level \in [Book -> Level \cup {Unrated}]
    /\ source \in [Book -> Source]
    /\ applied \subseteq Scan

RunnerTyped ==
    /\ pc \in {"boot", "auto", "queue", "next", "dial", "idle", "begin", "check", "progress", "ask",
               "confirm", "requeue", "fail", "total", "wrap", "hold", "save", "finish"}
    /\ picked \subseteq Book
    /\ cur \in Scan \cup {NoScan}
    /\ prev \in Level \cup {Unrated}
    /\ parts \in Nat /\ part \in Nat /\ try \in 0..Tries
    /\ result \in Level \cup {Unrated}
    /\ single \in BOOLEAN

WorldTyped ==
    /\ wake \in BOOLEAN /\ waiting \in BOOLEAN
    /\ machine \in {"on", "away"}
    /\ crashes \in Nat

AdminsTyped ==
    /\ at \in [Admin -> {"new", "save", "close", "each", "order", "batch", "batched", "wake", "done"}]
    /\ item \in [Admin -> Scan \cup {NoScan}]
    /\ todo \in [Admin -> Seq(Scan)]
    /\ pick \in [Admin -> Level \cup {Unrated}]
    /\ chosen \in [Admin -> SUBSET Book]

LEMMA Typed == TypeOK <=> RowsTyped /\ BooksTyped /\ RunnerTyped /\ WorldTyped /\ AdminsTyped
  BY DEF TypeOK, RowsTyped, BooksTyped, RunnerTyped, WorldTyped, AdminsTyped

\* Where the runner has a scan, and where it has put its row to reading.
HasScan == {"dial", "begin", "check", "progress", "fail"}
Reads   == {"ask", "confirm", "requeue", "total", "wrap", "hold", "save", "finish"}

\* What the runner knows of its scan: it was approved; once it is read it waits no more,
\* though it may have been cancelled.
RunnerKnows ==
    /\ pc \in HasScan \cup Reads => cur \in Scan /\ status[cur] \notin {"none", "requested"}
    /\ pc \in Reads => status[cur] # "queued"
    /\ pc \in {"wrap", "hold", "save", "finish"} => result \in Level
    /\ pc = "finish" => cur \in applied

\* A held row is done and has a proposal; an open one has none.
HeldFits ==
    /\ \A s \in held : status[s] = "done" /\ proposed[s] # Unrated
    /\ \A s \in Scan : status[s] \in {"none"} \cup Open => proposed[s] = Unrated

\* What an admin on the way knows.
AdminKnows ==
    \A a \in Admin :
        /\ at[a] = "close" => item[a] \in applied
        /\ at[a] = "save" => item[a] \in Scan /\ pick[a] \in Level \cup {Unrated}
        /\ at[a] = "each" => todo[a] # <<>>
        /\ at[a] = "order" => item[a] \in 1..Len(todo[a]) /\ Len(todo[a]) <= MaxScans

IInv ==
    /\ RowsTyped /\ BooksTyped /\ RunnerTyped /\ WorldTyped /\ AdminsTyped
    /\ RunnerKnows /\ HeldFits /\ AdminKnows
    /\ DoneWasApplied /\ NoForgottenScan

-----------------------------------------------------------------------------
(* The first state.                                                        *)

LEMMA InitIInv == Init => IInv
<1> SUFFICES ASSUME Init
             PROVE  IInv
  OBVIOUS
<1> USE DEF Init
<1>1. RowsTyped
  BY DeepScanAssumption DEF RowsTyped, ScanStatus
<1>2. BooksTyped
  BY DEF BooksTyped, Source
<1>3. RunnerTyped /\ WorldTyped
  <2>1. single \in BOOLEAN /\ wake \in BOOLEAN /\ waiting \in BOOLEAN
    OBVIOUS
  <2>2. QED
    BY <2>1 DEF RunnerTyped, WorldTyped, Tries, NoScan
<1>4. AdminsTyped
  BY DEF AdminsTyped
<1>5. RunnerKnows /\ HeldFits /\ AdminKnows
  BY DEF RunnerKnows, HasScan, Reads, HeldFits, AdminKnows
<1>6. DoneWasApplied /\ NoForgottenScan
  BY DEF DoneWasApplied, NoForgottenScan
<1>7. QED
  BY <1>1, <1>2, <1>3, <1>4, <1>5, <1>6 DEF IInv

-----------------------------------------------------------------------------
(* The store's statements.                                                 *)

\* The end of the line is a position.
LEMMA LastIsNumber ==
    ASSUME RowsTyped
    PROVE  LastPosition \in Nat
<1> DEFINE P == {position[s] : s \in Scan}
<1>1. P \subseteq Nat
  BY DEF RowsTyped
<1>2. 1 \in Scan /\ IsFiniteSet(Scan)
  BY DeepScanAssumption, FS_Interval DEF Scan
<1>3. P # {}
  BY <1>2
<1>4. position \in Surjection(Scan, P)
  BY DEF RowsTyped, Surjection
<1>5. IsFiniteSet(P)
  BY <1>2, <1>4, FS_Surjection
<1>6. PICK m \in P : \A x \in P : x <= m
  <2> HIDE DEF P
  <2> QED
    BY <1>1, <1>3, <1>5, HasLargest
<1>7. QED
  BY <1>1, <1>6 DEF LastPosition

\* A request makes one row of a book that has none open.
LEMMA RequestMakesRow ==
    ASSUME IInv, NEW b \in Book, NEW approved \in BOOLEAN, RequestDeepRead(b, approved)
    PROVE  /\ RowsTyped' /\ HeldFits'
           /\ \E s \in Scan : /\ status[s] = "none"
                              /\ status' = [status EXCEPT ![s] = IF approved THEN "queued" ELSE "requested"]
           /\ UNCHANGED <<held, proposed, newLevel>>
<1>1. PICK s \in Scan :
         /\ status[s] = "none"
         /\ status' = [status EXCEPT ![s] = IF approved THEN "queued" ELSE "requested"]
         /\ bookOf' = [bookOf EXCEPT ![s] = b]
         /\ position' = [position EXCEPT ![s] = LastPosition + 1]
  BY DEF RequestDeepRead
<1>2. UNCHANGED <<held, proposed, newLevel>>
  BY DEF RequestDeepRead
<1>3. LastPosition + 1 \in Nat
  BY LastIsNumber DEF IInv
<1>4. RowsTyped'
  BY <1>1, <1>2, <1>3 DEF IInv, RowsTyped, ScanStatus, Open
<1>5. HeldFits'
  BY <1>1, <1>2 DEF IInv, RowsTyped, HeldFits, Open
<1>6. QED
  BY <1>1, <1>2, <1>4, <1>5

-----------------------------------------------------------------------------
(* The runner.                                                             *)

\* A step of the runner that writes no row and no rating: the rest is as it was.
LEMMA ReadingKeeps ==
    ASSUME IInv, UNCHANGED <<rows, books, admins>>, RunnerTyped', WorldTyped', RunnerKnows', NoForgottenScan'
    PROVE  IInv'
<1> USE DEF IInv, rows, books, admins
<1>1. RowsTyped' /\ BooksTyped' /\ AdminsTyped'
  BY DEF RowsTyped, BooksTyped, AdminsTyped
<1>2. HeldFits' /\ AdminKnows' /\ DoneWasApplied'
  BY DEF HeldFits, AdminKnows, DoneWasApplied
<1>3. QED
  BY <1>1, <1>2

\* A new pass of the loop, or a new process.
LEMMA FreshIsTyped ==
    ASSUME Fresh, pc' \in {"boot", "auto", "idle"}
    PROVE  RunnerTyped' /\ RunnerKnows'
<1>1. single' \in BOOLEAN
  BY DEF Fresh
<1>2. RunnerTyped'
  BY <1>1 DEF Fresh, RunnerTyped, NoScan, Tries
<1>3. RunnerKnows'
  BY DEF RunnerKnows, HasScan, Reads
<1>4. QED
  BY <1>2, <1>3

\* The steps that only move the runner, or change its locals.
LEMMA RunnerReads ==
    ASSUME IInv,
           \/ DeepCandidates \/ AutoQueued \/ NextDeepRead \/ Dial \/ IdleWake \/ IdleTimer \/ Begin
           \/ CheckCancelled \/ PartRead \/ PartTooLong \/ PartIsSpicy \/ TryFails \/ Confirm
           \/ ConfirmFails \/ WrapUp
    PROVE  IInv'
<1> USE DEF IInv, rows, books, admins, locals, signals, world, Others, Goto, Fresh, Again
<1> USE DEF RunnerTyped, WorldTyped, RunnerKnows, NoForgottenScan, HasScan, Reads, Tries, NoScan
<1>1. CASE DeepCandidates
  BY <1>1, ReadingKeeps DEF DeepCandidates, Candidates
<1>2. CASE AutoQueued
  BY <1>2, ReadingKeeps DEF AutoQueued
<1>3. CASE NextDeepRead
  BY <1>3, ReadingKeeps DEF NextDeepRead, FirstQueued
<1>4. CASE Dial
  <2>1. CASE machine = "away"
    <3>1. RunnerTyped' /\ RunnerKnows'
      BY <1>4, <2>1, FreshIsTyped DEF Dial
    <3>2. QED
      BY <1>4, <2>1, <3>1, ReadingKeeps DEF Dial
  <2>2. CASE machine # "away"
    BY <1>4, <2>2, ReadingKeeps DEF Dial
  <2>3. QED
    BY <2>1, <2>2
<1>5. CASE IdleWake
  BY <1>5, ReadingKeeps DEF IdleWake
<1>6. CASE IdleTimer
  BY <1>6, ReadingKeeps DEF IdleTimer
<1>7. CASE Begin
  BY <1>7, ReadingKeeps, DeepScanAssumption DEF Begin, RowsTyped, BooksTyped
<1>8. CASE CheckCancelled
  <2>1. CASE status[cur] = "cancelled"
    <3>1. RunnerTyped' /\ RunnerKnows'
      BY <1>8, <2>1, FreshIsTyped DEF CheckCancelled
    <3>2. QED
      BY <1>8, <2>1, <3>1, ReadingKeeps DEF CheckCancelled
  <2>2. CASE status[cur] # "cancelled"
    BY <1>8, <2>2, ReadingKeeps DEF CheckCancelled
  <2>3. QED
    BY <2>1, <2>2
<1>9. CASE PartRead
  BY <1>9, ReadingKeeps DEF PartRead, PartDone
<1>10. CASE PartTooLong
  BY <1>10, ReadingKeeps DEF PartTooLong
<1>11. CASE PartIsSpicy
  BY <1>11, ReadingKeeps DEF PartIsSpicy
<1>12. CASE TryFails
  BY <1>12, ReadingKeeps DEF TryFails
<1>13. CASE Confirm
  BY <1>13, ReadingKeeps DEF Confirm, PartDone
<1>14. CASE ConfirmFails
  BY <1>14, ReadingKeeps DEF ConfirmFails
<1>15. CASE WrapUp
  BY <1>15, ReadingKeeps DEF WrapUp
<1>16. QED
  BY <1>1, <1>2, <1>3, <1>4, <1>5, <1>6, <1>7, <1>8, <1>9, <1>10, <1>11, <1>12, <1>13, <1>14, <1>15

\* A restart takes back the row that was being read.
LEMMA ResumeKeeps ==
    ASSUME IInv, ResumeDeepReads
    PROVE  IInv'
<1> USE DEF IInv, ResumeDeepReads, Others, Goto, locals, books, signals, admins, world
<1>1. RowsTyped' /\ BooksTyped' /\ AdminsTyped'
  BY DEF RowsTyped, BooksTyped, AdminsTyped, ScanStatus, Open
<1>2. RunnerTyped' /\ WorldTyped' /\ RunnerKnows'
  BY DEF RunnerTyped, WorldTyped, RunnerKnows, HasScan, Reads
<1>3. HeldFits' /\ AdminKnows'
  BY DEF HeldFits, AdminKnows, RowsTyped, Open
<1>4. DoneWasApplied' /\ NoForgottenScan'
  BY DEF DoneWasApplied, NoForgottenScan, RowsTyped
<1>5. QED
  BY <1>1, <1>2, <1>3, <1>4

\* The rows for the chosen readers' Nightstands.
LEMMA AutoQueueKeeps ==
    ASSUME IInv, NEW b \in Book, AutoQueue(b)
    PROVE  IInv'
<1> USE DEF IInv, AutoQueue, Others, books, admins, world
<1>1. RowsTyped' /\ HeldFits'
  BY RequestMakesRow
<1>2. BooksTyped' /\ AdminsTyped' /\ AdminKnows'
  BY DEF BooksTyped, AdminsTyped, AdminKnows
<1>3. RunnerTyped' /\ WorldTyped'
  BY DEF RunnerTyped, WorldTyped
<1>4. RunnerKnows' /\ NoForgottenScan'
  BY DEF RunnerKnows, NoForgottenScan, HasScan, Reads
<1>5. DoneWasApplied'
  BY RequestMakesRow DEF DoneWasApplied, RowsTyped
<1>6. QED
  BY <1>1, <1>2, <1>3, <1>4, <1>5

\* A part is begun, or the book's level known: the row says reading, unless it was cancelled.
LEMMA ProgressKeeps ==
    ASSUME IInv, Progress \/ Total
    PROVE  IInv'
<1> USE DEF IInv, Progress, Total, SetDeepProgress, SetStatusIf, Others, books, signals, admins, world
<1>1. cur \in Scan /\ status[cur] \notin {"none", "requested"}
  BY DEF RunnerKnows, HasScan, Reads
<1>2. RowsTyped' /\ BooksTyped' /\ AdminsTyped'
  BY DEF RowsTyped, BooksTyped, AdminsTyped, ScanStatus, Open
<1>3. WorldTyped' /\ RunnerTyped'
  <2>1. single' \in BOOLEAN
    BY DEF RunnerTyped
  <2>2. QED
    BY <2>1 DEF RunnerTyped, WorldTyped, Tries
<1>4. RunnerKnows'
  BY <1>1 DEF RunnerKnows, HasScan, Reads, RowsTyped
<1>5. HeldFits' /\ AdminKnows'
  BY <1>1 DEF HeldFits, AdminKnows, RowsTyped, Open
<1>6. DoneWasApplied' /\ NoForgottenScan'
  BY <1>1 DEF DoneWasApplied, NoForgottenScan, RowsTyped
<1>7. QED
  BY <1>2, <1>3, <1>4, <1>5, <1>6

\* The row leaves the runner: back in line, failed, held, or done.
LEMMA LeaveKeeps ==
    ASSUME IInv, Requeue \/ FailScan \/ Hold \/ Finish
    PROVE  IInv'
<1> USE DEF IInv, Again, Others, books, signals, admins, world
<1>1. cur \in Scan /\ status[cur] \notin {"none", "requested"}
  BY DEF Requeue, FailScan, Hold, Finish, RunnerKnows, HasScan, Reads
<1>2. Fresh /\ pc' = "auto" /\ UNCHANGED <<books, signals, admins, world>>
  BY DEF Requeue, FailScan, Hold, Finish
<1>3. RunnerTyped' /\ RunnerKnows'
  BY <1>2, FreshIsTyped
<1>4. BooksTyped' /\ AdminsTyped' /\ WorldTyped' /\ AdminKnows' /\ NoForgottenScan'
  BY <1>2 DEF BooksTyped, AdminsTyped, WorldTyped, AdminKnows, NoForgottenScan
<1>5. CASE Requeue
  BY <1>1, <1>2, <1>3, <1>4, <1>5
  DEF Requeue, RequeueDeepRead, SetStatusIf, RowsTyped, HeldFits, DoneWasApplied, ScanStatus, Open
<1>6. CASE FailScan
  BY <1>1, <1>2, <1>3, <1>4, <1>6
  DEF FailScan, FinishDeepRead, Running, RowsTyped, HeldFits, DoneWasApplied, ScanStatus, Open, rows
<1>7. CASE Hold
  <2>1. result \in Level /\ result # Unrated
    BY <1>7, DeepScanAssumption DEF Hold, RunnerKnows
  <2>2. RowsTyped'
    BY <1>1, <1>7, <2>1 DEF Hold, HoldDeepRead, RowsTyped, ScanStatus, rows
  <2>3. HeldFits' /\ DoneWasApplied'
    BY <1>1, <1>2, <1>7, <2>1
    DEF Hold, HoldDeepRead, Running, RowsTyped, HeldFits, DoneWasApplied, Open, rows
  <2>4. QED
    BY <1>3, <1>4, <2>2, <2>3
<1>8. CASE Finish
  <2>1. cur \in applied /\ result \in Level
    BY <1>8 DEF Finish, RunnerKnows
  <2>2. QED
    BY <1>1, <1>2, <1>3, <1>4, <1>8, <2>1
    DEF Finish, FinishDeepRead, Running, RowsTyped, HeldFits, DoneWasApplied, ScanStatus, Open, rows
<1>9. QED
  BY <1>5, <1>6, <1>7, <1>8

\* The rating is saved, and with it the scan counts as applied.
LEMMA SaveKeeps ==
    ASSUME IInv, Save
    PROVE  IInv'
<1> USE DEF IInv, Save, SaveScan, SaveAnalysis, Goto, locals, Others, rows, signals, admins, world
<1>1. cur \in Scan /\ result \in Level
  BY DEF RunnerKnows, Reads
<1>2. RowsTyped' /\ AdminsTyped' /\ WorldTyped'
  BY DEF RowsTyped, AdminsTyped, WorldTyped
<1>3. BooksTyped'
  BY <1>1 DEF BooksTyped, RowsTyped, Source
<1>4. RunnerTyped' /\ RunnerKnows'
  BY <1>1 DEF RunnerTyped, RunnerKnows, HasScan, Reads
<1>5. HeldFits' /\ AdminKnows' /\ DoneWasApplied' /\ NoForgottenScan'
  BY DEF HeldFits, AdminKnows, DoneWasApplied, NoForgottenScan
<1>6. QED
  BY <1>2, <1>3, <1>4, <1>5

-----------------------------------------------------------------------------
(* Admins and readers.                                                     *)

\* A step of an admin leaves the runner, so it only has to keep what the runner knows.
LEMMA RunnerStays ==
    ASSUME IInv, Runner, wake' \in BOOLEAN
    PROVE  RunnerTyped' /\ WorldTyped'
  BY DEF IInv, Runner, RunnerTyped, WorldTyped, locals, world

\* A scan is asked for.
LEMMA StartKeeps ==
    ASSUME IInv, NEW a \in Admin, NEW b \in Book, StartDeepScan(a, b)
    PROVE  IInv'
<1>1. PICK approved \in BOOLEAN :
         RequestDeepRead(b, approved) /\ Step(a, IF approved THEN "wake" ELSE "done")
  BY DEF StartDeepScan
<1>2. UNCHANGED <<books, wake>> /\ Runner
  BY DEF StartDeepScan
<1>3. PICK s \in Scan : status[s] = "none" /\ status' = [status EXCEPT ![s] = IF approved THEN "queued" ELSE "requested"]
  BY <1>1, RequestMakesRow
<1>4. RowsTyped' /\ HeldFits' /\ held' = held
  BY <1>1, RequestMakesRow
<1>5. BooksTyped' /\ RunnerTyped' /\ WorldTyped'
  BY <1>2, RunnerStays DEF IInv, BooksTyped, WorldTyped, books
<1>6. AdminsTyped' /\ AdminKnows'
  BY <1>1, <1>2 DEF IInv, Step, AdminsTyped, AdminKnows, books
<1>7. RunnerKnows' /\ DoneWasApplied'
  BY <1>2, <1>3, <1>4
  DEF IInv, Runner, RunnerKnows, DoneWasApplied, RowsTyped, HasScan, Reads, locals, books
<1>8. NoForgottenScan'
  <2>1. CASE approved
    BY <1>1, <2>1 DEF IInv, Step, NoForgottenScan, AdminsTyped
  <2>2. CASE ~approved
    <3>1. at[a] = "new" /\ UNCHANGED <<pc, waiting, wake>>
      BY <1>2 DEF StartDeepScan, Runner
    <3>2. \A t \in Scan : status'[t] = "queued" => status[t] = "queued"
      BY <1>3, <2>2 DEF IInv, RowsTyped
    <3>3. \A c \in Admin : at[c] \in {"batched", "wake"} => at'[c] = at[c]
      BY <1>1, <3>1 DEF IInv, Step, AdminsTyped
    <3>4. QED
      BY <3>1, <3>2, <3>3 DEF IInv, NoForgottenScan
  <2>3. QED
    BY <2>1, <2>2
<1>9. QED
  BY <1>4, <1>5, <1>6, <1>7, <1>8 DEF IInv

\* An open scan is approved, turned down or cancelled.
LEMMA DecideKeeps ==
    ASSUME IInv, NEW a \in Admin, NEW s \in Scan, DecideDeepRead(a, s)
    PROVE  IInv'
<1>1. UNCHANGED <<books, wake, held, bookOf, position, proposed, newLevel>> /\ Runner /\ Step(a, "wake")
  BY DEF DecideDeepRead, SetStatusIf
<1>2. \/ status[s] = "requested" /\ status' = [status EXCEPT ![s] = "queued"]
      \/ status[s] = "requested" /\ status' = [status EXCEPT ![s] = "declined"]
      \/ status[s] \in {"queued", "reading"} /\ status' = [status EXCEPT ![s] = "cancelled"]
  BY DEF DecideDeepRead, SetStatusIf, Running
<1>3. RowsTyped' /\ BooksTyped'
  <2>1. status' \in [Scan -> ScanStatus]
    BY <1>2 DEF IInv, RowsTyped, ScanStatus, Open
  <2>2. QED
    BY <1>1, <2>1 DEF IInv, RowsTyped, BooksTyped, books
<1>4. RunnerTyped' /\ WorldTyped'
  BY <1>1, RunnerStays DEF IInv, WorldTyped
<1>5. AdminsTyped' /\ AdminKnows'
  BY <1>1 DEF IInv, Step, AdminsTyped, AdminKnows, books
<1>6. RunnerKnows'
  BY <1>1, <1>2 DEF IInv, Runner, RunnerKnows, RowsTyped, HasScan, Reads, locals, books
<1>7. HeldFits' /\ DoneWasApplied'
  BY <1>1, <1>2 DEF IInv, HeldFits, DoneWasApplied, RowsTyped, Open, books
<1>8. NoForgottenScan'
  BY <1>1 DEF IInv, Step, NoForgottenScan, AdminsTyped
<1>9. QED
  BY <1>3, <1>4, <1>5, <1>6, <1>7, <1>8 DEF IInv

\* Held scans keep their books' old ratings.
LEMMA KeepOldKeeps ==
    ASSUME IInv, NEW a \in Admin, NEW S \in SUBSET held, DeclineHeld(S),
           Step(a, "wake") \/ Step(a, "done"), at[a] = "new", UNCHANGED <<books, wake>>, Runner
    PROVE  IInv'
<1> USE DEF IInv, DeclineHeld, books
<1>1. RowsTyped' /\ BooksTyped'
  BY DEF RowsTyped, BooksTyped, ScanStatus
<1>2. RunnerTyped' /\ WorldTyped'
  BY RunnerStays DEF WorldTyped
<1>3. AdminsTyped' /\ AdminKnows'
  BY DEF Step, AdminsTyped, AdminKnows
<1>4. RunnerKnows'
  BY DEF Runner, RunnerKnows, RowsTyped, HasScan, Reads, locals
<1>5. HeldFits' /\ DoneWasApplied'
  BY DEF HeldFits, DoneWasApplied, RowsTyped, Open
<1>6. NoForgottenScan'
  BY DEF Runner, Step, NoForgottenScan, AdminsTyped, RowsTyped
<1>7. QED
  BY <1>1, <1>2, <1>3, <1>4, <1>5, <1>6

\* A step that changes nothing but an admin, who was not about to wake the runner.
LEMMA AdminMoves ==
    ASSUME IInv, NEW a \in Admin, UNCHANGED <<rows, books, wake>>, Runner,
           AdminsTyped', AdminKnows', at[a] \notin {"batched", "wake"}, \A c \in Admin \ {a} : at'[c] = at[c]
    PROVE  IInv'
<1> USE DEF IInv, rows, books, locals, world, Runner
<1>1. RowsTyped' /\ BooksTyped' /\ RunnerTyped' /\ WorldTyped'
  BY DEF RowsTyped, BooksTyped, RunnerTyped, WorldTyped
<1>2. RunnerKnows' /\ HeldFits' /\ DoneWasApplied'
  BY DEF RunnerKnows, HeldFits, DoneWasApplied
<1>3. NoForgottenScan'
  BY DEF NoForgottenScan
<1>4. QED
  BY <1>1, <1>2, <1>3

\* An admin turns to a held scan with a level.
LEMMA AcceptKeeps ==
    ASSUME IInv, NEW a \in Admin, NEW s \in Scan, AcceptOrSet(a, s)
    PROVE  IInv'
<1>1. AdminsTyped' /\ AdminKnows'
  BY DEF IInv, AcceptOrSet, AdminsTyped, AdminKnows, books
<1>2. QED
  BY <1>1, AdminMoves DEF IInv, AcceptOrSet, AdminsTyped

\* The first write of an acceptance: the rating.
LEMMA AcceptSaveKeeps ==
    ASSUME IInv, NEW a \in Admin, AcceptSave(a)
    PROVE  IInv'
<1> USE DEF IInv, AcceptSave, SaveScan, SaveAnalysis, rows
<1>1. item[a] \in Scan /\ pick[a] \in Level \cup {Unrated} /\ UNCHANGED wake
  BY DEF AdminKnows
<1>2. RowsTyped' /\ HeldFits'
  BY DEF RowsTyped, HeldFits
<1>3. BooksTyped'
  BY <1>1 DEF BooksTyped, RowsTyped, Source
<1>4. RunnerTyped' /\ WorldTyped'
  BY RunnerStays DEF WorldTyped
<1>5. AdminsTyped' /\ AdminKnows'
  BY DEF Step, AdminsTyped, AdminKnows
<1>6. RunnerKnows' /\ DoneWasApplied'
  BY DEF Runner, RunnerKnows, DoneWasApplied, HasScan, Reads, locals
<1>7. NoForgottenScan'
  BY DEF Runner, Step, NoForgottenScan, AdminsTyped
<1>8. QED
  BY <1>2, <1>3, <1>4, <1>5, <1>6, <1>7

\* The rest of a list that is not empty is shorter, and empty after its last.
LEMMA RestOfList ==
    ASSUME NEW q \in Seq(Scan), q # <<>>
    PROVE  /\ Head(q) \in Scan /\ Tail(q) \in Seq(Scan)
           /\ Len(q) # 1 => Tail(q) # <<>>
<1>1. Len(q) \in Nat \ {0} /\ Head(q) \in Scan /\ Tail(q) \in Seq(Scan)
  OBVIOUS
<1>2. Len(Tail(q)) = Len(q) - 1
  OBVIOUS
<1>3. ASSUME Len(q) # 1
      PROVE  Tail(q) # <<>>
  <2>1. Len(Tail(q)) # 0
    BY <1>1, <1>2, <1>3
  <2>2. Len(<<>>) = 0
    OBVIOUS
  <2>3. QED
    BY <2>1, <2>2
<1>4. QED
  BY <1>1, <1>3

LEMMA NextOfList ==
    ASSUME IInv, NEW a \in Admin, todo[a] # <<>>, TakeNext(a)
    PROVE  /\ at' \in [Admin -> {"new", "save", "close", "each", "order", "batch", "batched", "wake", "done"}]
           /\ todo' \in [Admin -> Seq(Scan)]
           /\ at'[a] \in {"each", "done"}
           /\ at'[a] = "each" => todo'[a] # <<>>
           /\ \A c \in Admin \ {a} : at'[c] = at[c] /\ todo'[c] = todo[c]
<1>1. todo[a] \in Seq(Scan)
  BY DEF IInv, AdminsTyped
<1>2. Tail(todo[a]) \in Seq(Scan) /\ (Len(todo[a]) # 1 => Tail(todo[a]) # <<>>)
  BY <1>1, RestOfList
<1>3. QED
  BY <1>2 DEF IInv, AdminsTyped, TakeNext

\* The last write: the row is closed, and the next of a list is taken.
LEMMA AcceptCloseKeeps ==
    ASSUME IInv, NEW a \in Admin, AcceptClose(a)
    PROVE  IInv'
<1> USE DEF IInv, AcceptClose, CloseHeld, books
<1>1. item[a] \in applied /\ pick[a] \in Level \cup {Unrated}
  BY DEF AdminKnows, AdminsTyped
<1>2. RowsTyped' /\ BooksTyped'
  BY <1>1 DEF RowsTyped, BooksTyped
<1>3. RunnerTyped' /\ WorldTyped'
  BY RunnerStays DEF WorldTyped
<1>4. /\ at' \in [Admin -> {"new", "save", "close", "each", "order", "batch", "batched", "wake", "done"}]
      /\ todo' \in [Admin -> Seq(Scan)]
      /\ at'[a] \in {"wake", "each", "done"}
      /\ at'[a] = "each" => todo'[a] # <<>>
      /\ \A c \in Admin \ {a} : at'[c] = at[c] /\ todo'[c] = todo[c]
  <2>1. CASE todo[a] = <<>>
    BY <2>1 DEF AdminsTyped
  <2>2. CASE todo[a] # <<>>
    BY <2>2, NextOfList
  <2>3. QED
    BY <2>1, <2>2
<1>5. AdminsTyped' /\ AdminKnows'
  BY <1>4 DEF AdminsTyped, AdminKnows
<1>6. RunnerKnows' /\ HeldFits' /\ DoneWasApplied'
  BY <1>1 DEF Runner, RunnerKnows, HeldFits, DoneWasApplied, HasScan, Reads, locals
<1>7. NoForgottenScan'
  BY <1>4 DEF Runner, NoForgottenScan
<1>8. QED
  BY <1>2, <1>3, <1>5, <1>6, <1>7

\* All held scans are listed once.
LEMMA AcceptAllKeeps ==
    ASSUME IInv, NEW a \in Admin, AcceptAllHeld(a)
    PROVE  IInv'
<1>1. IsFiniteSet(held) /\ Cardinality(held) \in Nat \ {0}
  <2>1. IsFiniteSet(Scan) /\ held \subseteq Scan /\ held # {}
    <3>1. IsFiniteSet(Scan)
      BY DeepScanAssumption, FS_Interval DEF Scan
    <3>2. QED
      BY <3>1 DEF IInv, RowsTyped, AcceptAllHeld
  <2>2. IsFiniteSet(held)
    BY <2>1, FS_Subset
  <2>3. QED
    BY <2>1, <2>2, FS_CardinalityType, FS_EmptySet
<1>2. PICK q \in [1..Cardinality(held) -> held] : todo' = [todo EXCEPT ![a] = q]
  BY DEF AcceptAllHeld
<1>3. q \in Seq(Scan) /\ q # <<>>
  <2> DEFINE n == Cardinality(held)
  <2>1. n \in Nat \ {0} /\ q \in [1..n -> Scan]
    BY <1>1, <1>2 DEF IInv, RowsTyped
  <2> HIDE DEF n
  <2>2. q \in Seq(Scan) /\ Len(q) = n
    BY <2>1
  <2>3. QED
    BY <2>1, <2>2
<1>4. AdminsTyped' /\ AdminKnows'
  BY <1>2, <1>3 DEF IInv, AcceptAllHeld, AdminsTyped, AdminKnows, books
<1>5. QED
  BY <1>4, AdminMoves DEF IInv, AcceptAllHeld, AdminsTyped

\* The next of the list, unless somebody closed it meanwhile.
LEMMA AcceptNextKeeps ==
    ASSUME IInv, NEW a \in Admin, AcceptNext(a)
    PROVE  IInv'
<1> USE DEF IInv, AcceptNext
<1> DEFINE s == Head(todo[a])
<1>1. todo[a] # <<>> /\ s \in Scan /\ proposed[s] \in Level \cup {Unrated}
  BY RestOfList DEF AdminsTyped, AdminKnows, RowsTyped
<1>2. AdminsTyped' /\ AdminKnows' /\ \A c \in Admin \ {a} : at'[c] = at[c]
  <2>1. CASE s \in held
    <3> HIDE DEF s
    <3>1. /\ item' = [item EXCEPT ![a] = s] /\ pick' = [pick EXCEPT ![a] = proposed[s]]
          /\ at' = [at EXCEPT ![a] = "save"] /\ UNCHANGED <<todo, books>>
      BY <2>1 DEF s
    <3>2. QED
      BY <1>1, <3>1 DEF AdminsTyped, AdminKnows, books
  <2>2. CASE s \notin held
    <3>1. TakeNext(a) /\ UNCHANGED <<item, pick, books>>
      BY <2>2
    <3>2. QED
      BY <1>1, <3>1, NextOfList DEF AdminsTyped, AdminKnows, books
  <2>3. QED
    BY <2>1, <2>2
<1>3. QED
  BY <1>2, AdminMoves

\* A new order is sent.
LEMMA OrderKeeps ==
    ASSUME IInv, NEW a \in Admin, OrderDeepReads(a)
    PROVE  IInv'
<1>1. PICK k \in 1..MaxScans : \E q \in [1..k -> Scan] : todo' = [todo EXCEPT ![a] = q]
  BY DEF OrderDeepReads
<1>2. PICK q \in [1..k -> Scan] : todo' = [todo EXCEPT ![a] = q]
  BY <1>1
<1>3. q \in Seq(Scan) /\ Len(q) = k /\ k \in 1..MaxScans /\ 1 \in Scan
  BY <1>2, DeepScanAssumption DEF Scan
<1>4. AdminsTyped' /\ AdminKnows'
  BY <1>2, <1>3, DeepScanAssumption DEF IInv, OrderDeepReads, AdminsTyped, AdminKnows, books
<1>5. QED
  BY <1>4, AdminMoves DEF IInv, OrderDeepReads, AdminsTyped

\* One row takes its place.
LEMMA OrderOneKeeps ==
    ASSUME IInv, NEW a \in Admin, OrderOne(a)
    PROVE  IInv'
<1> USE DEF IInv, OrderOne, books
<1>1. /\ item[a] \in 1..Len(todo[a]) /\ Len(todo[a]) <= MaxScans
      /\ todo[a] \in Seq(Scan) /\ MaxScans \in Nat
  BY DeepScanAssumption DEF AdminKnows, AdminsTyped
<1>2. RowsTyped' /\ BooksTyped'
  BY <1>1 DEF RowsTyped, BooksTyped
<1>3. RunnerTyped' /\ WorldTyped'
  BY RunnerStays DEF WorldTyped
<1>4. AdminsTyped' /\ AdminKnows'
  <2>1. CASE item[a] = Len(todo[a])
    <3>1. /\ at' = [at EXCEPT ![a] = "done"] /\ item' = [item EXCEPT ![a] = NoScan]
          /\ todo' = [todo EXCEPT ![a] = <<>>] /\ UNCHANGED <<pick, books>>
      BY <2>1
    <3>2. <<>> \in Seq(Scan)
      OBVIOUS
    <3>3. QED
      BY <3>1, <3>2 DEF AdminsTyped, AdminKnows
  <2>2. CASE item[a] # Len(todo[a])
    <3>1. item[a] + 1 \in Scan /\ item[a] + 1 \in 1..Len(todo[a])
      BY <1>1, <2>2 DEF Scan
    <3>2. QED
      BY <1>1, <2>2, <3>1 DEF AdminsTyped, AdminKnows
  <2>3. QED
    BY <2>1, <2>2
<1>5. RunnerKnows' /\ HeldFits' /\ DoneWasApplied'
  BY DEF Runner, RunnerKnows, HeldFits, DoneWasApplied, HasScan, Reads, locals
<1>6. NoForgottenScan'
  BY DEF Runner, NoForgottenScan, AdminsTyped
<1>7. QED
  BY <1>2, <1>3, <1>4, <1>5, <1>6

\* The next books of the Nightstand are chosen.
LEMMA QueueNextKeeps ==
    ASSUME IInv, NEW a \in Admin, QueueNext(a)
    PROVE  IInv'
<1>1. PICK S \in SUBSET Candidates : chosen' = [chosen EXCEPT ![a] = S]
  BY DEF QueueNext, NextInQueues
<1>2. S \subseteq Book
  BY <1>1 DEF Candidates
<1>3. AdminsTyped' /\ AdminKnows'
  BY <1>1, <1>2 DEF IInv, QueueNext, AdminsTyped, AdminKnows, books
<1>4. QED
  BY <1>3, AdminMoves DEF IInv, QueueNext, AdminsTyped

\* One of them gets a row: the runner is not woken yet, but will be.
LEMMA QueueOneKeeps ==
    ASSUME IInv, NEW a \in Admin, NEW b \in Book, QueueOne(a, b)
    PROVE  IInv'
<1> USE DEF IInv, QueueOne, books
<1>1. PICK s \in Scan : status[s] = "none" /\ status' = [status EXCEPT ![s] = "queued"]
  BY RequestMakesRow
<1>2. RowsTyped' /\ HeldFits' /\ held' = held
  BY RequestMakesRow
<1>3. BooksTyped' /\ RunnerTyped' /\ WorldTyped'
  BY RunnerStays DEF BooksTyped, WorldTyped
<1>4. AdminsTyped' /\ AdminKnows'
  BY DEF AdminsTyped, AdminKnows
<1>5. RunnerKnows' /\ DoneWasApplied'
  BY <1>1, <1>2 DEF Runner, RunnerKnows, DoneWasApplied, RowsTyped, HasScan, Reads, locals
<1>6. NoForgottenScan'
  BY DEF NoForgottenScan, AdminsTyped
<1>7. QED
  BY <1>2, <1>3, <1>4, <1>5, <1>6

\* The loop is over: who made a row wakes the runner next.
LEMMA QueueEndsKeeps ==
    ASSUME IInv, NEW a \in Admin, QueueEnds(a)
    PROVE  IInv'
<1>1. AdminsTyped' /\ AdminKnows'
  BY DEF IInv, QueueEnds, AdminsTyped, AdminKnows, books
<1>2. CASE at[a] = "batch"
  BY <1>1, <1>2, AdminMoves DEF IInv, QueueEnds, AdminsTyped
<1>3. CASE at[a] = "batched"
  <2> USE DEF IInv, QueueEnds, rows, books
  <2>1. RowsTyped' /\ BooksTyped' /\ RunnerTyped' /\ WorldTyped'
    BY RunnerStays DEF RowsTyped, BooksTyped, WorldTyped
  <2>2. RunnerKnows' /\ HeldFits' /\ DoneWasApplied'
    BY DEF Runner, RunnerKnows, HeldFits, DoneWasApplied, HasScan, Reads, locals
  <2>3. NoForgottenScan'
    BY <1>3 DEF Runner, NoForgottenScan, AdminsTyped
  <2>4. QED
    BY <1>1, <2>1, <2>2, <2>3
<1>4. QED
  BY <1>2, <1>3 DEF QueueEnds

\* The signal is sent.
LEMMA WakeKeeps ==
    ASSUME IInv, NEW a \in Admin, Wake(a)
    PROVE  IInv'
<1> USE DEF IInv, Wake, rows, books
<1>1. RowsTyped' /\ BooksTyped' /\ RunnerTyped' /\ WorldTyped'
  BY RunnerStays DEF RowsTyped, BooksTyped
<1>2. AdminsTyped' /\ AdminKnows'
  BY DEF Step, AdminsTyped, AdminKnows
<1>3. RunnerKnows' /\ HeldFits' /\ DoneWasApplied' /\ NoForgottenScan'
  BY DEF Runner, RunnerKnows, HeldFits, DoneWasApplied, NoForgottenScan, HasScan, Reads, locals
<1>4. QED
  BY <1>1, <1>2, <1>3

-----------------------------------------------------------------------------
(* The world, and all steps together.                                      *)

\* A rating from elsewhere, or the machine's switch.
LEMMA WorldKeeps ==
    ASSUME IInv, MachineSwitched \/ \E b \in Book : RateOtherwise(b)
    PROVE  IInv'
<1> USE DEF IInv, rows, locals, signals, admins
<1>1. RowsTyped' /\ RunnerTyped' /\ AdminsTyped'
  BY DEF MachineSwitched, RateOtherwise, RowsTyped, RunnerTyped, AdminsTyped
<1>2. WorldTyped'
  BY DEF MachineSwitched, RateOtherwise, WorldTyped, world
<1>3. BooksTyped'
  BY DEF MachineSwitched, RateOtherwise, SaveAnalysis, BooksTyped, Source, books
<1>4. UNCHANGED applied
  BY DEF MachineSwitched, RateOtherwise, books
<1>5. RunnerKnows' /\ HeldFits' /\ AdminKnows' /\ DoneWasApplied' /\ NoForgottenScan'
  BY <1>4 DEF MachineSwitched, RateOtherwise, RunnerKnows, HeldFits, AdminKnows, DoneWasApplied, NoForgottenScan
<1>6. QED
  BY <1>1, <1>2, <1>3, <1>5

\* The process ends and begins again.
LEMMA CrashKeeps ==
    ASSUME IInv, Crash
    PROVE  IInv'
<1> USE DEF IInv, Crash, rows, books
<1>1. RowsTyped' /\ BooksTyped' /\ HeldFits' /\ DoneWasApplied'
  BY DEF RowsTyped, BooksTyped, HeldFits, DoneWasApplied
<1>2. RunnerTyped' /\ RunnerKnows'
  BY FreshIsTyped
<1>3. WorldTyped'
  <2>1. wake' \in BOOLEAN /\ waiting' \in BOOLEAN
    OBVIOUS
  <2>2. QED
    BY <2>1 DEF WorldTyped
<1>4. AdminsTyped' /\ AdminKnows' /\ NoForgottenScan'
  BY DEF AdminsTyped, AdminKnows, NoForgottenScan
<1>5. QED
  BY <1>1, <1>2, <1>3, <1>4

LEMMA StutterKeeps ==
    ASSUME IInv, UNCHANGED vars
    PROVE  IInv'
<1>1. UNCHANGED <<rows, books, locals, signals, admins, world, pc>>
  BY DEF vars
<1>2. (RowsTyped /\ BooksTyped /\ RunnerTyped /\ WorldTyped /\ AdminsTyped)'
  BY <1>1 DEF IInv, RowsTyped, BooksTyped, RunnerTyped, WorldTyped, AdminsTyped,
              rows, books, locals, signals, admins, world
<1>3. (RunnerKnows /\ HeldFits /\ AdminKnows /\ DoneWasApplied /\ NoForgottenScan)'
  BY <1>1 DEF IInv, RunnerKnows, HeldFits, AdminKnows, DoneWasApplied, NoForgottenScan,
              rows, books, locals, signals, admins, world
<1>4. QED
  BY <1>2, <1>3 DEF IInv

LEMMA RunnerKeeps ==
    ASSUME IInv, RunnerStep \/ PartTooLong
    PROVE  IInv'
  BY RunnerReads, ResumeKeeps, ProgressKeeps, LeaveKeeps, SaveKeeps DEF RunnerStep

LEMMA AdminKeeps ==
    ASSUME IInv, NEW a \in Admin, AdminArrives(a) \/ AdminStep(a)
    PROVE  IInv'
<1>1. ASSUME NEW s \in Scan, KeepOldRating(a, s)
      PROVE  IInv'
  BY <1>1, KeepOldKeeps DEF KeepOldRating
<1>2. CASE KeepAllOldRatings(a)
  BY <1>2, KeepOldKeeps DEF KeepAllOldRatings
<1>3. CASE AdminArrives(a)
  BY <1>1, <1>2, <1>3, StartKeeps, DecideKeeps, AcceptKeeps, AcceptAllKeeps, OrderKeeps, QueueNextKeeps DEF AdminArrives
<1>4. CASE AdminStep(a)
  BY <1>4, AcceptSaveKeeps, AcceptCloseKeeps, AcceptNextKeeps, OrderOneKeeps, QueueEndsKeeps, WakeKeeps DEF AdminStep
<1>5. QED
  BY <1>3, <1>4

LEMMA NextIInv == IInv /\ [Next]_vars => IInv'
<1> SUFFICES ASSUME IInv, [Next]_vars
             PROVE  IInv'
  OBVIOUS
<1>1. CASE RunnerStep \/ PartTooLong
  BY <1>1, RunnerKeeps
<1>2. ASSUME NEW a \in Admin, AdminArrives(a) \/ AdminStep(a)
      PROVE  IInv'
  BY <1>2, AdminKeeps
<1>3. ASSUME NEW b \in Book, AutoQueue(b)
      PROVE  IInv'
  BY <1>3, AutoQueueKeeps
<1>4. ASSUME NEW a \in Admin, NEW b \in Book, QueueOne(a, b)
      PROVE  IInv'
  BY <1>4, QueueOneKeeps
<1>5. CASE MachineSwitched \/ \E b \in Book : RateOtherwise(b)
  BY <1>5, WorldKeeps
<1>6. CASE Crash
  BY <1>6, CrashKeeps
<1>7. CASE UNCHANGED vars
  BY <1>7, StutterKeeps
<1>8. QED
  BY <1>1, <1>2, <1>3, <1>4, <1>5, <1>6, <1>7 DEF Next

THEOREM ScanInvariant == Spec => []IInv
  BY InitIInv, NextIInv, PTL DEF Spec

\* Through cancels, decisions, crashes and restarts: a scan listed as done was applied
\* (deepreview.go saves the rating before it closes the row), and the runner does not sleep
\* beside an approved scan with nobody about to wake it (deepread.go: the channel holds one
\* signal, and every decision ends with Wake).
THEOREM ScansStayTrue == Spec => []ScansAreTrue
<1>1. IInv => ScansAreTrue
  BY Typed DEF IInv, ScansAreTrue
<1>2. QED
  BY <1>1, ScanInvariant, PTL

-----------------------------------------------------------------------------
(* The life of a scan.                                                     *)

Phases == [s \in Scan |-> PhaseOf(s)]

\* A step that moves one row moves one phase.
LEMMA OneMoves ==
    ASSUME NEW s \in Scan, \A t \in Scan \ {s} : PhaseOf(t)' = PhaseOf(t)
    PROVE  Phases' = [Phases EXCEPT ![s] = PhaseOf(s)']
  BY DEF Phases

\* What a phase depends on.
LEMMA SamePhase ==
    ASSUME NEW s \in Scan, UNCHANGED <<status[s], proposed[s]>>,
           status[s] = "done" => (s \in held' <=> s \in held)
    PROVE  PhaseOf(s)' = PhaseOf(s)
  BY DEF PhaseOf

\* The steps of the life of one scan.
LifeSteps ==
    {<<"none", "asked">>, <<"none", "waiting">>, <<"asked", "waiting">>, <<"asked", "refused">>,
     <<"waiting", "stopped">>, <<"reading", "stopped">>, <<"waiting", "reading">>,
     <<"reading", "applied">>, <<"review", "applied">>, <<"reading", "review">>, <<"review", "kept">>,
     <<"waiting", "failed">>, <<"reading", "failed">>, <<"reading", "waiting">>}

LEMMA OneLives ==
    ASSUME NEW s \in Scan, \A t \in Scan \ {s} : PhaseOf(t)' = PhaseOf(t),
           <<PhaseOf(s), PhaseOf(s)'>> \in LifeSteps
    PROVE  Life!Next
<1>1. Phases[s] = PhaseOf(s) /\ Phases' = [Phases EXCEPT ![s] = PhaseOf(s)']
  BY OneMoves DEF Phases
<1>2. \/ Life!Ask(s) \/ Life!Start(s) \/ Life!Approve(s) \/ Life!Refuse(s) \/ Life!Stop(s)
      \/ Life!Read(s) \/ Life!Apply(s) \/ Life!Hold(s) \/ Life!Keep(s) \/ Life!Fail(s)
      \/ Life!Requeue(s)
  <2> HIDE DEF PhaseOf
  <2> QED
    BY <1>1 DEF LifeSteps, Phases, Life!Ask, Life!Start, Life!Approve, Life!Refuse, Life!Stop, Life!Read,
                Life!Apply, Life!Hold, Life!Keep, Life!Fail, Life!Requeue, Life!Move
<1>3. QED
  BY <1>2 DEF Life!Next

Lives == Life!Next \/ UNCHANGED Phases

\* Rows and proposals as they were: no scan moved.
LEMMA SameRowsSamePhases ==
    ASSUME UNCHANGED <<status, held, proposed>>
    PROVE  Lives
<1>1. \A s \in Scan : PhaseOf(s)' = PhaseOf(s)
  BY DEF PhaseOf
<1>2. QED
  BY <1>1 DEF Lives, Phases

\* One row's status is set, nothing is held or let go.
LEMMA OneStatus ==
    ASSUME IInv, NEW s \in Scan, NEW to, status' = [status EXCEPT ![s] = to], UNCHANGED <<held, proposed>>,
           to \in ScanStatus, to = "done" => s \notin held,
           <<status[s], to>> \in
              {<<"none", "requested">>, <<"none", "queued">>, <<"requested", "queued">>, <<"requested", "declined">>,
               <<"queued", "cancelled">>, <<"reading", "cancelled">>, <<"queued", "reading">>,
               <<"reading", "done">>, <<"queued", "error">>, <<"reading", "error">>, <<"reading", "queued">>}
    PROVE  Life!Next
<1>1. \A t \in Scan \ {s} : PhaseOf(t)' = PhaseOf(t)
  BY DEF IInv, RowsTyped, PhaseOf
<1>2. status'[s] = to
  BY DEF IInv, RowsTyped
<1>3. to = "declined" => proposed'[s] = Unrated
  BY DEF IInv, HeldFits, Open
<1>4. <<PhaseOf(s), PhaseOf(s)'>> \in LifeSteps
  BY <1>2, <1>3 DEF LifeSteps, PhaseOf
<1>5. QED
  BY <1>1, <1>4, OneLives

LEMMA RequestLives ==
    ASSUME IInv, NEW b \in Book, NEW approved \in BOOLEAN, RequestDeepRead(b, approved)
    PROVE  Lives
<1>1. PICK s \in Scan : status[s] = "none" /\ status' = [status EXCEPT ![s] = IF approved THEN "queued" ELSE "requested"]
  BY RequestMakesRow
<1>2. UNCHANGED <<held, proposed>>
  BY RequestMakesRow
<1>3. CASE approved
  BY <1>1, <1>2, <1>3, OneStatus DEF Lives, ScanStatus, Open
<1>4. CASE ~approved
  BY <1>1, <1>2, <1>4, OneStatus DEF Lives, ScanStatus, Open
<1>5. QED
  BY <1>3, <1>4

LEMMA RunnerLives ==
    ASSUME IInv, RunnerStep \/ PartTooLong
    PROVE  Lives
<1>1. CASE ResumeDeepReads
  <2>1. \A s \in Scan : PhaseOf(s)' = IF PhaseOf(s) = "reading" THEN "waiting" ELSE PhaseOf(s)
    BY <1>1 DEF IInv, RowsTyped, ResumeDeepReads, PhaseOf, ScanStatus, Open
  <2>2. Life!RequeueAll
    BY <2>1 DEF Life!RequeueAll
  <2>3. QED
    BY <2>2 DEF Lives, Life!Next
<1>2. CASE Progress \/ Total
  <2>1. cur \in Scan /\ UNCHANGED <<held, proposed>>
    BY <1>2 DEF IInv, RunnerKnows, HasScan, Reads, Progress, Total, SetDeepProgress, SetStatusIf
  <2>2. CASE status[cur] = "queued"
    <3>1. status' = [status EXCEPT ![cur] = "reading"]
      BY <1>2, <2>2 DEF Progress, Total, SetDeepProgress, SetStatusIf
    <3>2. QED
      BY <2>1, <2>2, <3>1, OneStatus DEF Lives, ScanStatus, Open
  <2>3. CASE status[cur] # "queued"
    <3>1. status' = status
      BY <1>2, <2>3 DEF IInv, RowsTyped, Progress, Total, SetDeepProgress, SetStatusIf
    <3>2. QED
      BY <2>1, <3>1, SameRowsSamePhases
  <2>4. QED
    BY <2>2, <2>3
<1>3. CASE Requeue \/ FailScan \/ Finish
  <2>1. cur \in Scan /\ UNCHANGED <<held, proposed>>
    BY <1>3 DEF IInv, RunnerKnows, HasScan, Reads, Requeue, FailScan, Finish, RequeueDeepRead, SetStatusIf,
                FinishDeepRead, rows
  <2>2. \/ status' = status
        \/ status[cur] = "reading" /\ status' = [status EXCEPT ![cur] = "queued"]
        \/ status[cur] \in {"queued", "reading"} /\ status' = [status EXCEPT ![cur] = "error"]
        \/ status[cur] = "reading" /\ status' = [status EXCEPT ![cur] = "done"]
    BY <1>3 DEF IInv, RunnerKnows, Reads, Requeue, FailScan, Finish, RequeueDeepRead, SetStatusIf,
                FinishDeepRead, Running, rows
  <2>3. status[cur] = "reading" => cur \notin held
    BY DEF IInv, HeldFits
  <2>4. QED
    BY <2>1, <2>2, <2>3, OneStatus, SameRowsSamePhases DEF Lives, ScanStatus, Open
<1>4. CASE Hold
  <2>1. cur \in Scan /\ result # Unrated /\ status[cur] # "queued"
    BY <1>4, DeepScanAssumption DEF IInv, Hold, RunnerKnows, Reads
  <2>2. ASSUME NEW s \in Scan, s = cur, status[s] = "reading"
        PROVE  Lives
    <3>1. /\ status' = [status EXCEPT ![s] = "done"] /\ held' = held \cup {s}
          /\ proposed' = [proposed EXCEPT ![s] = result]
      BY <1>4, <2>2 DEF Hold, HoldDeepRead, Running
    <3>2. \A t \in Scan \ {s} : PhaseOf(t)' = PhaseOf(t)
      BY <3>1 DEF IInv, RowsTyped, PhaseOf
    <3>3. status'[s] = "done" /\ s \in held'
      BY <3>1 DEF IInv, RowsTyped
    <3>4. PhaseOf(s) = "reading" /\ PhaseOf(s)' = "review"
      BY <2>2, <3>3 DEF PhaseOf
    <3>5. <<PhaseOf(s), PhaseOf(s)'>> \in LifeSteps
      BY <3>4 DEF LifeSteps
    <3>6. QED
      BY <3>2, <3>5, OneLives DEF Lives
  <2>3. CASE status[cur] # "reading"
    BY <1>4, <2>1, <2>3, SameRowsSamePhases DEF Hold, HoldDeepRead, Running, rows
  <2>4. QED
    BY <2>1, <2>2, <2>3
<1>5. CASE \/ DeepCandidates \/ AutoQueued \/ NextDeepRead \/ Dial \/ IdleWake \/ IdleTimer \/ Begin
           \/ CheckCancelled \/ PartRead \/ PartTooLong \/ PartIsSpicy \/ TryFails \/ Confirm
           \/ ConfirmFails \/ WrapUp \/ Save
  <2>1. CASE DeepCandidates \/ AutoQueued \/ NextDeepRead \/ Dial \/ IdleWake \/ IdleTimer
    BY <2>1, SameRowsSamePhases DEF DeepCandidates, AutoQueued, NextDeepRead, Dial, IdleWake, IdleTimer, rows
  <2>2. CASE Begin
    BY <2>2, SameRowsSamePhases DEF Begin, rows
  <2>3. CASE CheckCancelled
    BY <2>3, SameRowsSamePhases DEF CheckCancelled, rows
  <2>4. CASE PartRead
    BY <2>4, SameRowsSamePhases DEF PartRead, PartDone, rows
  <2>5. CASE PartTooLong
    BY <2>5, SameRowsSamePhases DEF PartTooLong, rows
  <2>6. CASE PartIsSpicy
    BY <2>6, SameRowsSamePhases DEF PartIsSpicy, rows
  <2>7. CASE TryFails
    BY <2>7, SameRowsSamePhases DEF TryFails, rows
  <2>8. CASE Confirm
    BY <2>8, SameRowsSamePhases DEF Confirm, PartDone, rows
  <2>9. CASE ConfirmFails
    BY <2>9, SameRowsSamePhases DEF ConfirmFails, rows
  <2>10. CASE WrapUp
    BY <2>10, SameRowsSamePhases DEF WrapUp, rows
  <2>11. CASE Save
    BY <2>11, SameRowsSamePhases DEF Save, rows
  <2>12. QED
    BY <1>5, <2>1, <2>2, <2>3, <2>4, <2>5, <2>6, <2>7, <2>8, <2>9, <2>10, <2>11
<1>6. QED
  BY <1>1, <1>2, <1>3, <1>4, <1>5 DEF RunnerStep

LEMMA DeclineLives ==
    ASSUME IInv, NEW S \in SUBSET held, DeclineHeld(S), S = held \/ \E s \in held : S = {s}
    PROVE  Lives
<1>1. \A s \in S : PhaseOf(s) = "review" /\ PhaseOf(s)' = "kept"
  BY DEF IInv, RowsTyped, HeldFits, DeclineHeld, PhaseOf
<1>2. \A s \in Scan \ S : PhaseOf(s)' = PhaseOf(s)
  BY DEF IInv, RowsTyped, DeclineHeld, PhaseOf
<1>3. CASE S = held
  <2>1. \A s \in Scan \ S : PhaseOf(s) # "review"
    BY <1>3 DEF IInv, RowsTyped, PhaseOf, ScanStatus, Open
  <2>2. S \subseteq Scan
    BY DEF IInv, RowsTyped
  <2>3. \A s \in Scan : PhaseOf(s)' = IF PhaseOf(s) = "review" THEN "kept" ELSE PhaseOf(s)
    BY <1>1, <1>2, <2>1
  <2>4. Life!KeepAll
    BY <2>3 DEF Life!KeepAll
  <2>5. QED
    BY <2>4 DEF Lives, Life!Next
<1>4. ASSUME NEW s \in held, S = {s}
      PROVE  Lives
  <2>1. s \in Scan /\ <<PhaseOf(s), PhaseOf(s)'>> \in LifeSteps
    BY <1>1, <1>4 DEF IInv, RowsTyped, LifeSteps
  <2>2. \A t \in Scan \ {s} : PhaseOf(t)' = PhaseOf(t)
    BY <1>2, <1>4
  <2>3. QED
    BY <2>1, <2>2, OneLives DEF Lives
<1>5. QED
  BY <1>3, <1>4

LEMMA AdminLives ==
    ASSUME IInv, NEW a \in Admin, AdminArrives(a) \/ AdminStep(a)
    PROVE  Lives
<1>1. ASSUME NEW b \in Book, StartDeepScan(a, b)
      PROVE  Lives
  BY <1>1, RequestLives DEF StartDeepScan
<1>2. ASSUME NEW s \in Scan, DecideDeepRead(a, s)
      PROVE  Lives
  BY <1>2, OneStatus DEF DecideDeepRead, SetStatusIf, Running, Lives, ScanStatus, Open
<1>3. ASSUME NEW s \in Scan, KeepOldRating(a, s)
      PROVE  Lives
  BY <1>3, DeclineLives DEF KeepOldRating
<1>4. CASE KeepAllOldRatings(a)
  BY <1>4, DeclineLives DEF KeepAllOldRatings
<1>5. CASE AcceptClose(a)
  <2>1. held' = held \ {item[a]} /\ UNCHANGED <<status, proposed>>
    BY <1>5 DEF AcceptClose, CloseHeld
  <2>2. ASSUME NEW s \in Scan, s = item[a], s \in held
        PROVE  Lives
    <3>1. status[s] = "done" /\ status'[s] = "done" /\ s \notin held'
      BY <2>1, <2>2 DEF IInv, HeldFits
    <3>2. PhaseOf(s) = "review" /\ PhaseOf(s)' = "applied"
      BY <2>2, <3>1 DEF PhaseOf
    <3>3. \A t \in Scan \ {s} : PhaseOf(t)' = PhaseOf(t)
      BY <2>1, <2>2 DEF PhaseOf
    <3>4. <<PhaseOf(s), PhaseOf(s)'>> \in LifeSteps
      BY <3>2 DEF LifeSteps
    <3>5. QED
      BY <3>3, <3>4, OneLives DEF Lives
  <2>3. CASE item[a] \notin held
    BY <2>1, <2>3, SameRowsSamePhases
  <2>4. QED
    BY <2>2, <2>3 DEF IInv, RowsTyped
<1>6. CASE \/ (\E s \in Scan : AcceptOrSet(a, s)) \/ AcceptAllHeld(a) \/ OrderDeepReads(a)
           \/ AcceptSave(a) \/ AcceptNext(a) \/ OrderOne(a) \/ QueueNext(a) \/ QueueEnds(a) \/ Wake(a)
  <2>1. UNCHANGED <<status, held, proposed>>
    BY <1>6 DEF AcceptOrSet, AcceptAllHeld, OrderDeepReads, AcceptSave, AcceptNext, OrderOne, QueueNext, QueueEnds, Wake, rows
  <2>2. QED
    BY <2>1, SameRowsSamePhases
<1>7. QED
  BY <1>1, <1>2, <1>3, <1>4, <1>5, <1>6 DEF AdminArrives, AdminStep

LEMMA NextLives == IInv /\ [Next]_vars => [Life!Next]_Phases
<1> SUFFICES ASSUME IInv, [Next]_vars
             PROVE  Lives
  BY DEF Lives
<1>1. CASE RunnerStep \/ PartTooLong
  BY <1>1, RunnerLives
<1>2. ASSUME NEW a \in Admin, AdminArrives(a) \/ AdminStep(a)
      PROVE  Lives
  BY <1>2, AdminLives
<1>3. ASSUME NEW b \in Book, AutoQueue(b)
      PROVE  Lives
  BY <1>3, RequestLives DEF AutoQueue
<1>4. ASSUME NEW a \in Admin, NEW b \in Book, QueueOne(a, b)
      PROVE  Lives
  BY <1>4, RequestLives DEF QueueOne
<1>5. CASE MachineSwitched \/ Crash \/ (\E b \in Book : RateOtherwise(b)) \/ UNCHANGED vars
  <2>1. UNCHANGED rows
    BY <1>5 DEF MachineSwitched, Crash, RateOtherwise, vars
  <2>2. QED
    BY <2>1, SameRowsSamePhases DEF rows
<1>6. QED
  BY <1>1, <1>2, <1>3, <1>4, <1>5 DEF Next

\* Rows implement the life of a scan: no interleaving of the runner, any number of admins, and
\* restarts takes a scan back out of a final phase, past its review or past its approval
\* (deepreads.go guards each UPDATE by the status it expects).
THEOREM RowsImplementLifecycle == Spec => ImplementsLifecycle
<1>1. Init => Life!Init
  BY DEF Init, Life!Init, PhaseOf
<1>2. IInv /\ [Next]_vars => [Life!Next]_[s \in Scan |-> PhaseOf(s)]
  BY NextLives DEF Phases
<1>3. QED
  BY <1>1, <1>2, ScanInvariant, PTL DEF Spec, ImplementsLifecycle, Life!Spec
=============================================================================
