---------------------------- MODULE Tools_proofs ----------------------------
(***************************************************************************)
(* What the parts of MCTools keep, for any values of the constants. Each   *)
(* part shares no state with the others, so each has its invariant, true   *)
(* while the part runs.                                                    *)
(*                                                                         *)
(* Starts: who holds the lock of State.Leave is in safe mode still, and    *)
(* who starts the work has left it already; of the starts noted in the     *)
(* window, none before a healthy time still counts, so quick deaths add    *)
(* up. Duplicates: at each stage of a request, what is left beside what    *)
(* it was asked to remove is still there if nobody else touched the book,  *)
(* and the suggested copy is the best of what was read. Titles: the time   *)
(* a rating saw, the time read last and the time in Calibre stay in this   *)
(* order, and one push carries each rating that it has to move up. Tunnel: *)
(* who saves alone stops the connector and starts the next. Parts: a split *)
(* adds one section at a time to parts that begin where the one before     *)
(* them ends, and halving a part keeps them so. Event pages: the answers   *)
(* so far begin with the site's list, up to what is asked for next.        *)
(***************************************************************************)
EXTENDS MCTools, FiniteSetTheorems, SequenceTheorems, WellFoundedInduction, TLAPS

-----------------------------------------------------------------------------
(* Starts and safe mode.                                                   *)

WorkTyped ==
    /\ up \in {"off", "booting", "on", "stopping"}
    /\ once \in BOOLEAN /\ background \in Nat
    /\ pc \in [Admin -> {"new", "clean", "start"}]

\* A process that is off, or that does not serve yet, has nobody in Leave.
Alone ==
    /\ up \in {"off", "booting"} => \A a \in Admin : pc[a] = "new"
    /\ up = "booting" => background = 0 /\ once = FALSE

\* Who holds the lock of Leave found safe mode on, and it still is.
LockedIsSafe == \A a \in Admin : pc[a] = "clean" => reason # "none"

\* The lock is held by one.
OneLocked == \A a, b \in Admin : pc[a] = "clean" /\ pc[b] = "clean" => a = b

\* Who is about to start the work has left safe mode; until the first does, nothing runs.
StartIsFirst == \A a \in Admin : pc[a] = "start" => reason = "none" /\ (once = FALSE => background = 0)

\* The once is used only by somebody who left.
OnceIsLeft == once = TRUE => reason = "none"

IInv == WorkTyped /\ Alone /\ OneLocked /\ LockedIsSafe /\ StartIsFirst /\ OnceIsLeft /\ SafeModeIsQuiet /\ StartsOnce

LEMMA InitIInv == Init => IInv
<1> SUFFICES ASSUME Init PROVE IInv
  OBVIOUS
<1>1. up = "off" /\ reason = "none" /\ once = FALSE /\ background = 0 /\ pc = [a \in Admin |-> "new"]
  BY DEF Init
<1>2. once \in BOOLEAN
  BY <1>1
<1>3. QED
  BY <1>1, <1>2 DEF IInv, WorkTyped, Alone, OneLocked, LockedIsSafe, StartIsFirst, OnceIsLeft, SafeModeIsQuiet, StartsOnce

\* Steps of the clock, of the files and of a stop leave the work and the admins alone.
LEMMA AsideKeeps ==
    ASSUME IInv, UNCHANGED <<state, pc>>,
           up' = up \/ (up \notin {"off", "booting"} /\ up' = "stopping")
    PROVE  IInv'
  BY DEF IInv, state, WorkTyped, Alone, OneLocked, LockedIsSafe, StartIsFirst, OnceIsLeft, SafeModeIsQuiet, StartsOnce

LEMMA EndKeeps ==
    ASSUME IInv, Ended, UNCHANGED state
    PROVE  IInv'
  BY DEF IInv, Ended, state, WorkTyped, Alone, OneLocked, LockedIsSafe, StartIsFirst, OnceIsLeft, SafeModeIsQuiet, StartsOnce

LEMMA StartingKeeps ==
    ASSUME IInv, Starting
    PROVE  IInv'
<1>1. /\ up = "off" /\ up' = "booting" /\ once' = FALSE /\ background' = 0 /\ UNCHANGED pc
  BY DEF Starting
<1>2. once' \in BOOLEAN
  BY <1>1
<1>3. QED
  BY <1>1, <1>2 DEF IInv, WorkTyped, Alone, OneLocked, LockedIsSafe, StartIsFirst, OnceIsLeft, SafeModeIsQuiet, StartsOnce

LEMMA ServeKeeps ==
    ASSUME IInv, Serve
    PROVE  IInv'
<1>1. /\ up = "booting" /\ up' = "on" /\ UNCHANGED <<reason, once, pc>>
      /\ background' = IF reason = "none" THEN 1 ELSE 0
  BY DEF Serve
<1>2. QED
  BY <1>1 DEF IInv, WorkTyped, Alone, OneLocked, LockedIsSafe, StartIsFirst, OnceIsLeft, SafeModeIsQuiet, StartsOnce

\* Leave, step by step: the lock lets one admin at a time past the check.
LEMMA LeaveKeeps ==
    ASSUME IInv, NEW a \in Admin, LeaveFlag(a) \/ LeaveClean(a) \/ LeaveStart(a)
    PROVE  IInv'
<1>1. CASE LeaveFlag(a)
  <2>1. /\ up \in {"on", "stopping"} /\ reason # "none" /\ pc' = [pc EXCEPT ![a] = "clean"]
        /\ UNCHANGED <<up, reason, once, background>>
    BY <1>1 DEF LeaveFlag, state
  <2>2. \A b \in Admin : pc[b] # "clean"
    BY <1>1 DEF LeaveFlag, Unlocked
  <2>3. QED
    BY <2>1, <2>2 DEF IInv, WorkTyped, Alone, OneLocked, LockedIsSafe, StartIsFirst, OnceIsLeft, SafeModeIsQuiet, StartsOnce
<1>2. CASE LeaveClean(a)
  <2>1. /\ pc[a] = "clean" /\ reason' = "none" /\ pc' = [pc EXCEPT ![a] = "start"]
        /\ UNCHANGED <<up, once, background>>
    BY <1>2 DEF LeaveClean
  <2>2. up \notin {"off", "booting"} /\ background = 0 /\ reason # "none"
    BY <2>1 DEF IInv, WorkTyped, Alone, LockedIsSafe, SafeModeIsQuiet
  <2>3. QED
    BY <2>1, <2>2 DEF IInv, WorkTyped, Alone, OneLocked, LockedIsSafe, StartIsFirst, OnceIsLeft, SafeModeIsQuiet, StartsOnce
<1>3. CASE LeaveStart(a)
  <2>1. /\ pc[a] = "start" /\ once' = TRUE /\ pc' = [pc EXCEPT ![a] = "new"]
        /\ UNCHANGED <<up, reason>>
    BY <1>3 DEF LeaveStart
  <2>2. background' = IF once THEN background ELSE background + 1
    BY <1>3 DEF LeaveStart
  <2>3. reason = "none" /\ background' \in {0, 1}
    BY <2>1, <2>2 DEF IInv, WorkTyped, StartIsFirst, StartsOnce
  <2>4. up \notin {"off", "booting"}
    BY <2>1 DEF IInv, Alone
  <2>5. QED
    BY <2>1, <2>3, <2>4 DEF IInv, WorkTyped, Alone, OneLocked, LockedIsSafe, StartIsFirst, OnceIsLeft, SafeModeIsQuiet, StartsOnce
<1>4. QED
  BY <1>1, <1>2, <1>3

LEMMA NextIInv ==
    ASSUME IInv, [Next]_vars
    PROVE  IInv'
<1>1. CASE Tick \/ Healthy \/ SafeModeOn \/ SafeModeOff \/ UNCHANGED vars
  BY <1>1, AsideKeeps DEF Tick, Healthy, SafeModeOn, SafeModeOff, vars, state
<1>2. CASE Terminate
  BY <1>2, AsideKeeps DEF Terminate
<1>3. CASE CleanExit \/ Crash
  BY <1>3, EndKeeps DEF CleanExit, Crash
<1>4. QED
  BY <1>1, <1>2, <1>3, StartingKeeps, ServeKeeps, LeaveKeeps DEF Next

THEOREM SafeModeInvariant == Spec => []IInv
  BY InitIInv, NextIInv, PTL DEF Spec

\* Nothing runs in the background while safe mode is on, and main, out of safe mode, and any
\* number of admins who leave it at the same time start the background work once between them
\* (main.go gives State.Leave a sync.OnceFunc, and calls bg.start itself otherwise).
THEOREM AlwaysOnce == Spec => []WorkStartsOnce
<1>1. IInv => WorkStartsOnce
  BY DEF IInv, WorkStartsOnce
<1>2. QED
  BY <1>1, SafeModeInvariant, PTL
-----------------------------------------------------------------------------
(* A crash loop. The starts that count are still in the file, the jth      *)
(* before this one less than j healthy times old.                          *)

StartsTyped ==
    /\ now \in 0..MaxTime /\ since \in 0..MaxTime /\ since <= now
    /\ boots \in 0..MaxStarts /\ quick \in 0..MaxStarts /\ left \in BOOLEAN
    /\ starts \subseteq [boot : 1..MaxStarts, at : 0..MaxTime] /\ IsFiniteSet(starts)
    /\ flag \in BOOLEAN /\ waiting \in BOOLEAN /\ reason \in Reason

Young == up # "off" /\ ~left /\ now - since < HealthyAt

\* Start number n is in the file and was less than d before `since`.
Listed1(n, d) == \E s \in starts : s.boot = n /\ s.at <= since /\ since - s.at < d

\* Between two runs, and in a run that is young.
RunsListed  == up = "off" => \A j \in 1..quick : j <= Crashes - 1 => Listed1(boots + 1 - j, j * HealthyAt)
StartListed == Young => \E s \in starts : s.boot = boots /\ s.at = since
YoungListed == Young => \A j \in 1..quick : j <= Crashes - 1 => Listed1(boots - j, j * HealthyAt)
QuickStarts == (up = "off" => quick <= boots) /\ (up # "off" => quick < boots)

LoopInv == StartsTyped /\ RunsListed /\ StartListed /\ YoungListed /\ QuickStarts /\ CrashLoopIsCaught

LEMMA TimesGrow ==
    ASSUME NEW j \in Nat, NEW k \in Nat, NEW h \in Nat, j <= k
    PROVE  j * h <= k * h /\ (j + 1) * h = j * h + h
<1>1. PICK d \in Nat : k = j + d
  <2>1. k - j \in Nat /\ k = j + (k - j)
    OBVIOUS
  <2>2. QED
    BY <2>1
<1>2. k * h = j * h + d * h /\ d * h >= 0 /\ j * h >= 0
  BY <1>1
<1>3. QED
  BY <1>2

LEMMA LoopInit == Init => LoopInv
<1> SUFFICES ASSUME Init PROVE LoopInv
  OBVIOUS
<1>1. /\ now = 0 /\ since = 0 /\ boots = 0 /\ quick = 0 /\ left = FALSE /\ starts = {} /\ flag = FALSE
      /\ waiting = FALSE /\ reason = "none" /\ up = "off"
  BY DEF Init
<1>2. 0 \in 0..MaxTime /\ 0 \in 0..MaxStarts /\ IsFiniteSet({})
  BY SafeModeAssumption, FS_EmptySet
<1>3. StartsTyped
  <2>1. flag \in BOOLEAN /\ waiting \in BOOLEAN /\ left \in BOOLEAN /\ reason \in Reason
    BY <1>1 DEF Reason
  <2>2. QED
    BY <1>1, <1>2, <2>1 DEF StartsTyped
<1>4. RunsListed /\ StartListed /\ YoungListed
  BY <1>1 DEF RunsListed, StartListed, YoungListed, Young
<1>5. QuickStarts /\ CrashLoopIsCaught
  BY <1>1 DEF QuickStarts, CrashLoopIsCaught
<1>6. QED
  BY <1>3, <1>4, <1>5 DEF LoopInv

\* As many starts as make a loop are among the recent ones.
LEMMA LoopIsSeen ==
    ASSUME LoopInv, up = "off", now = since, quick >= Crashes - 1
    PROVE  Cardinality(recent) + 1 >= Crashes
<1> DEFINE n == Crashes - 1
           f == [j \in 1..n |-> CHOOSE s \in recent : s.boot = boots + 1 - j]
<1>1. /\ n \in Nat /\ Crashes \in Nat /\ HealthyAt \in Nat /\ Window \in Nat /\ n * HealthyAt <= Window
      /\ now \in Nat /\ boots \in Nat /\ quick \in Nat /\ IsFiniteSet(starts)
      /\ \A s \in starts : s.at \in Nat
  BY SafeModeAssumption DEF LoopInv, StartsTyped
<1>2. IsFiniteSet(recent) /\ recent \subseteq starts
  <2>1. recent \in SUBSET starts
    BY DEF recent
  <2>2. QED
    BY <1>1, <2>1, FS_Subset
<1>3. ASSUME NEW j \in 1..n
      PROVE  \E s \in recent : s.boot = boots + 1 - j
  <2>1. j \in 1..quick /\ j <= Crashes - 1 /\ j \in Nat
    BY <1>1
  <2>2. PICK s \in starts : s.boot = boots + 1 - j /\ s.at <= since /\ since - s.at < j * HealthyAt
    BY <2>1 DEF LoopInv, RunsListed, Listed1
  <2>3. j * HealthyAt <= n * HealthyAt /\ j * HealthyAt \in Nat /\ n * HealthyAt \in Nat
    BY <1>1, <2>1, TimesGrow
  <2>4. now - s.at < Window /\ s.at <= now
    <3> HIDE DEF n
    <3>1. s.at \in Nat
      BY <1>1
    <3>2. QED
      BY <1>1, <2>2, <2>3, <3>1
  <2>5. s \in recent
    BY <2>4 DEF recent
  <2>6. QED
    BY <2>2, <2>5
<1>4. \A j \in 1..n : f[j] \in recent /\ f[j].boot = boots + 1 - j
  BY <1>3
<1>5. f \in Injection(1..n, recent)
  <2>1. f \in [1..n -> recent]
    BY <1>4
  <2>2. ASSUME NEW i \in 1..n, NEW j \in 1..n, f[i] = f[j]
        PROVE  i = j
    <3>1. boots + 1 - i = boots + 1 - j
      BY <1>4, <2>2
    <3>2. i \in Int /\ j \in Int
      BY <1>1
    <3> HIDE DEF f, n
    <3>3. QED
      BY <1>1, <3>1, <3>2
  <2> HIDE DEF f, n
  <2>3. QED
    BY <2>1, <2>2 DEF Injection, IsInjective
<1>6. Cardinality(1..n) <= Cardinality(recent)
  <2> HIDE DEF f, n
  <2>1. QED
    BY <1>2, <1>5, FS_Injection
<1>7. Cardinality(1..n) = n
  <2>1. n \in Int /\ 1 \in Int
    BY <1>1
  <2>2. Cardinality(1..n) = IF 1 > n THEN 0 ELSE n - 1 + 1
    <3> HIDE DEF n
    <3>1. QED
      BY <2>1, FS_Interval
  <2>3. QED
    BY <1>1, <2>2
<1>8. Cardinality(recent) \in Nat
  BY <1>2, FS_CardinalityType
<1>9. QED
  BY <1>1, <1>6, <1>7, <1>8

LEMMA LoopStarting ==
    ASSUME LoopInv, Starting
    PROVE  LoopInv'
<1> DEFINE new == [boot |-> boots + 1, at |-> now]
<1>1. /\ up = "off" /\ boots < MaxStarts /\ starts' = recent \cup {new} /\ up' = "booting" /\ since' = now
      /\ waiting' = FALSE /\ boots' = boots + 1 /\ left' = FALSE /\ quick' = (IF now = since THEN quick ELSE 0)
      /\ UNCHANGED <<now, flag>>
  BY DEF Starting
<1>2. /\ now \in Nat /\ since \in Nat /\ boots \in Nat /\ quick \in Nat /\ now \in 0..MaxTime /\ quick <= boots
      /\ MaxStarts \in Nat /\ HealthyAt \in Nat /\ Crashes \in Nat \ {0} /\ Window \in Nat
      /\ (Crashes - 1) * HealthyAt <= Window /\ flag \in BOOLEAN
      /\ starts \subseteq [boot : 1..MaxStarts, at : 0..MaxTime] /\ IsFiniteSet(starts)
      /\ since \in 0..MaxTime /\ quick \in 0..MaxStarts
      /\ \A s \in starts : s.at \in Nat
  BY <1>1, SafeModeAssumption DEF LoopInv, StartsTyped, QuickStarts
<1>3. new \in [boot : 1..MaxStarts, at : 0..MaxTime] /\ new.boot = boots + 1 /\ new.at = now
  BY <1>1, <1>2
<1>4. reason' \in Reason
  BY DEF Starting, Reason
<1>5. StartsTyped'
  <2>1. IsFiniteSet(recent) /\ recent \subseteq starts
    <3>1. recent \in SUBSET starts
      BY DEF recent
    <3>2. QED
      BY <1>2, <3>1, FS_Subset
  <2>2. IsFiniteSet(starts')
    BY <1>1, <2>1, FS_AddElement
  <2>3. starts' \subseteq [boot : 1..MaxStarts, at : 0..MaxTime]
    BY <1>1, <1>2, <1>3, <2>1
  <2>4. boots' \in 0..MaxStarts /\ quick' \in 0..MaxStarts /\ since' \in 0..MaxTime /\ since' <= now'
    BY <1>1, <1>2
  <2>5. QED
    BY <1>1, <1>2, <1>4, <2>2, <2>3, <2>4 DEF StartsTyped
<1>6. RunsListed' /\ QuickStarts'
  BY <1>1, <1>2 DEF RunsListed, QuickStarts
<1>7. StartListed'
  BY <1>1, <1>3 DEF StartListed
<1>8. YoungListed'
  <2>1. SUFFICES ASSUME NEW j \in 1..quick', j <= Crashes - 1
                 PROVE  \E s \in starts' : s.boot = boots' - j /\ s.at <= since' /\ since' - s.at < j * HealthyAt
    BY DEF YoungListed, Listed1
  <2>2. now = since /\ j \in 1..quick /\ j \in Nat /\ Crashes - 1 \in Nat
    BY <1>1, <1>2
  <2>3. PICK s \in starts : s.boot = boots + 1 - j /\ s.at <= since /\ since - s.at < j * HealthyAt
    BY <1>1, <2>1, <2>2 DEF LoopInv, RunsListed, Listed1
  <2>4. j * HealthyAt <= (Crashes - 1) * HealthyAt /\ j * HealthyAt \in Nat /\ (Crashes - 1) * HealthyAt \in Nat
    BY <1>2, <2>1, <2>2, TimesGrow
  <2>5. s.at \in Nat
    BY <1>2
  <2>6. now - s.at < Window /\ s.at <= now
    BY <1>2, <2>2, <2>3, <2>4, <2>5
  <2>7. s \in starts'
    BY <1>1, <2>6 DEF recent
  <2>8. s.boot = boots' - j
    BY <1>1, <1>2, <2>2, <2>3
  <2>9. s.at <= since' /\ since' - s.at < j * HealthyAt
    BY <1>1, <2>2, <2>3
  <2>10. QED
    BY <2>7, <2>8, <2>9
<1>9. CrashLoopIsCaught'
  <2>1. SUFFICES ASSUME quick' >= Crashes - 1
                 PROVE  reason' # "none"
    BY DEF CrashLoopIsCaught
  <2>2. Cardinality(recent) + 1 >= Crashes
    <3>1. CASE now = since
      BY <1>1, <2>1, <3>1, LoopIsSeen
    <3>2. CASE now # since
      <4>1. Crashes = 1
        BY <1>1, <1>2, <2>1, <3>2
      <4>2. recent \in SUBSET starts
        BY DEF recent
      <4>3. Cardinality(recent) \in Nat
        BY <1>2, <4>2, FS_Subset, FS_CardinalityType
      <4>4. QED
        BY <4>1, <4>3
    <3>3. QED
      BY <3>1, <3>2
  <2>3. QED
    BY <2>2 DEF Starting
<1>10. QED
  BY <1>5, <1>6, <1>7, <1>8, <1>9 DEF LoopInv

\* Steps that leave the file and the run as they are.
LEMMA LoopAside ==
    ASSUME LoopInv, UNCHANGED <<starts, since, boots, quick, left>>,
           now' \in 0..MaxTime, now' >= now,
           flag' \in BOOLEAN, waiting' \in BOOLEAN,
           (up = "off") <=> (up' = "off"), reason' = reason
    PROVE  LoopInv'
<1>1. now \in Nat /\ since \in Nat /\ now' \in Nat /\ HealthyAt \in Nat
  BY SafeModeAssumption DEF LoopInv, StartsTyped
<1>2. StartsTyped'
  BY <1>1 DEF LoopInv, StartsTyped
<1>3. Young' => Young
  <2>1. \A x, y, z, h \in Nat : y >= x /\ y - z < h => x - z < h
    OBVIOUS
  <2>2. now' >= now
    OBVIOUS
  <2>3. now' - since < HealthyAt => now - since < HealthyAt
    BY <1>1, <2>1, <2>2
  <2>4. QED
    BY <2>3 DEF Young
<1>4. RunsListed' /\ StartListed' /\ YoungListed'
  BY <1>3 DEF LoopInv, RunsListed, StartListed, YoungListed, Listed1
<1>5. QuickStarts' /\ CrashLoopIsCaught'
  BY DEF LoopInv, QuickStarts, CrashLoopIsCaught
<1>6. QED
  BY <1>2, <1>4, <1>5 DEF LoopInv

\* The file is cleaned: no run counts any more, or this one does not.
LEMMA LoopCleaned ==
    ASSUME LoopInv, starts' = {}, UNCHANGED <<now, boots>>, since' \in {since, now},
           quick' \in {quick, 0}, left' \in BOOLEAN, flag' \in BOOLEAN, waiting' \in BOOLEAN, reason' \in Reason,
           up' = "off" => quick' = 0 /\ (up # "off" \/ boots' >= quick'),
           up' # "off" => up # "off" /\ ~Young' /\ (left' \/ (reason' = reason /\ left' = left))
    PROVE  LoopInv'
<1>1. /\ now \in 0..MaxTime /\ since \in 0..MaxTime /\ since <= now /\ boots \in 0..MaxStarts /\ quick \in 0..MaxStarts
      /\ MaxStarts \in Nat /\ MaxTime \in Nat /\ Crashes \in Nat
  BY SafeModeAssumption DEF LoopInv, StartsTyped
<1>2. StartsTyped'
  <2>1. IsFiniteSet(starts')
    BY FS_EmptySet
  <2>2. quick' \in 0..MaxStarts /\ since' \in 0..MaxTime /\ since' <= now'
    BY <1>1
  <2>3. QED
    BY <1>1, <2>1, <2>2 DEF StartsTyped
<1>3. RunsListed' /\ StartListed' /\ YoungListed'
  <2>1. ~Young'
    BY DEF Young
  <2>2. up' = "off" => 1..quick' = {}
    OBVIOUS
  <2>3. QED
    BY <2>1, <2>2 DEF RunsListed, StartListed, YoungListed
<1>4. QuickStarts'
  BY <1>1 DEF LoopInv, QuickStarts
<1>5. CrashLoopIsCaught'
  <2>1. SUFFICES ASSUME up' # "off", ~left', quick' >= Crashes - 1
                 PROVE  reason' # "none"
    BY DEF CrashLoopIsCaught
  <2>2. up # "off" /\ ~left /\ reason' = reason
    BY <2>1
  <2>3. quick >= Crashes - 1
    BY <1>1, <2>1
  <2>4. QED
    BY <2>2, <2>3 DEF LoopInv, CrashLoopIsCaught
<1>6. QED
  BY <1>2, <1>3, <1>4, <1>5 DEF LoopInv

LEMMA LoopCrash ==
    ASSUME LoopInv, Crash
    PROVE  LoopInv'
<1>1. /\ up # "off" /\ up' = "off" /\ since' = now /\ waiting' = FALSE
      /\ quick' = (IF now - since < HealthyAt /\ ~left THEN quick + 1 ELSE 0)
      /\ UNCHANGED <<now, starts, flag, reason, boots, left>>
  BY DEF Crash, Ended, files, state
<1>2. /\ now \in 0..MaxTime /\ now \in Nat /\ since \in Nat /\ since <= now /\ boots \in 0..MaxStarts /\ boots \in Nat
      /\ quick \in Nat /\ MaxStarts \in Nat /\ HealthyAt \in Nat /\ Crashes \in Nat \ {0} /\ quick < boots
      /\ \A s \in starts : s.at \in Nat
  BY <1>1, SafeModeAssumption DEF LoopInv, StartsTyped, QuickStarts
<1>3. quick' \in 0..MaxStarts /\ quick' <= boots
  BY <1>1, <1>2
<1>4. StartsTyped'
  <2>1. waiting' \in BOOLEAN
    BY <1>1
  <2>2. since' \in 0..MaxTime /\ since' <= now'
    BY <1>1, <1>2
  <2>3. QED
    BY <1>1, <1>3, <2>1, <2>2 DEF LoopInv, StartsTyped
<1>5. StartListed' /\ YoungListed' /\ QuickStarts' /\ CrashLoopIsCaught'
  BY <1>1, <1>3 DEF StartListed, YoungListed, Young, QuickStarts, CrashLoopIsCaught
<1>6. RunsListed'
  <2>1. SUFFICES ASSUME NEW j \in 1..quick', j <= Crashes - 1
                 PROVE  \E s \in starts : s.boot = boots + 1 - j /\ s.at <= now /\ now - s.at < j * HealthyAt
    BY <1>1 DEF RunsListed, Listed1
  <2>2. Young /\ quick' = quick + 1 /\ j \in Nat /\ j >= 1
    BY <1>1, <1>2, <2>1 DEF Young
  <2>3. CASE j = 1
    <3>1. PICK s \in starts : s.boot = boots /\ s.at = since
      BY <2>2 DEF LoopInv, StartListed
    <3>2. QED
      BY <1>2, <2>2, <2>3, <3>1 DEF Young
  <2>4. CASE j # 1
    <3>1. j - 1 \in 1..quick /\ j - 1 <= Crashes - 1 /\ j - 1 \in Nat
      BY <1>2, <2>1, <2>2, <2>4
    <3>2. PICK s \in starts : s.boot = boots - (j - 1) /\ s.at <= since /\ since - s.at < (j - 1) * HealthyAt
      BY <2>2, <3>1 DEF LoopInv, YoungListed, Listed1
    <3>3. (j - 1 + 1) * HealthyAt = (j - 1) * HealthyAt + HealthyAt /\ (j - 1) * HealthyAt \in Nat
      BY <1>2, <3>1, TimesGrow
    <3>4. j - 1 + 1 = j /\ s.at \in Nat
      BY <1>2, <2>2
    <3>5. now - s.at < j * HealthyAt
      BY <1>2, <2>2, <3>2, <3>3, <3>4 DEF Young
    <3>6. s.boot = boots + 1 - j /\ s.at <= now
      BY <1>2, <2>2, <3>2, <3>4
    <3>7. QED
      BY <3>5, <3>6
  <2>5. QED
    BY <2>3, <2>4
<1>7. QED
  BY <1>4, <1>5, <1>6 DEF LoopInv

LEMMA LoopNext ==
    ASSUME LoopInv, IInv, [Next]_vars
    PROVE  LoopInv'
<1>1. /\ now \in 0..MaxTime /\ since \in 0..MaxTime /\ flag \in BOOLEAN /\ waiting \in BOOLEAN /\ reason \in Reason /\ left \in BOOLEAN
      /\ MaxTime \in Nat /\ HealthyAt \in Nat /\ up \in {"off", "booting", "on", "stopping"} /\ quick \in Nat /\ boots \in Nat
      /\ 0 <= boots
  BY SafeModeAssumption DEF LoopInv, StartsTyped, IInv, WorkTyped
<1>2. CASE UNCHANGED vars
  BY <1>1, <1>2, LoopAside DEF vars, files, state, history
<1>3. CASE Tick
  BY <1>1, <1>3, LoopAside DEF Tick, files, state, history
<1>4. CASE Starting
  BY <1>4, LoopStarting
<1>5. CASE Serve
  BY <1>1, <1>5, LoopAside DEF Serve, files, history
<1>6. CASE Healthy
  <2>1. /\ up = "on" /\ now - since >= HealthyAt /\ waiting' = FALSE /\ starts' = {}
        /\ UNCHANGED <<now, flag, up, since, reason, boots, quick, left>>
    BY <1>6 DEF Healthy, state, history
  <2>2. ~Young'
    BY <1>1, <2>1 DEF Young
  <2>3. QED
    BY <1>1, <2>1, <2>2, LoopCleaned
<1>7. CASE Terminate
  <2>1. waiting' \in BOOLEAN /\ up # "off" /\ up' # "off" /\ UNCHANGED <<now, starts, flag, since, reason, boots, quick, left>>
    BY <1>7 DEF Terminate, files, state, history
  <2>2. QED
    BY <1>1, <2>1, LoopAside
<1>8. CASE CleanExit
  BY <1>1, <1>8, LoopCleaned DEF CleanExit, Ended, state
<1>9. CASE Crash
  BY <1>9, LoopCrash
<1>10. ASSUME NEW a \in Admin, LeaveFlag(a) \/ LeaveClean(a) \/ LeaveStart(a)
       PROVE  LoopInv'
  <2>1. CASE LeaveFlag(a)
    <3>1. flag' \in BOOLEAN /\ UNCHANGED <<now, starts, up, since, waiting, reason, boots, quick, left>>
      BY <2>1 DEF LeaveFlag, state, history
    <3>2. QED
      BY <1>1, <3>1, LoopAside
  <2>2. CASE LeaveClean(a)
    <3>1. up # "off"
      BY <2>2 DEF LeaveClean, IInv, Alone
    <3>2. /\ starts' = {} /\ reason' = "none" /\ left' = TRUE
          /\ UNCHANGED <<now, flag, up, since, waiting, boots, quick>>
      BY <2>2 DEF LeaveClean
    <3>3. ~Young' /\ reason' \in Reason
      BY <3>2 DEF Young, Reason
    <3>4. QED
      BY <1>1, <3>1, <3>2, <3>3, LoopCleaned
  <2>3. CASE LeaveStart(a)
    BY <1>1, <2>3, LoopAside DEF LeaveStart, files, history
  <2>4. QED
    BY <1>10, <2>1, <2>2, <2>3
<1>11. CASE SafeModeOn
  BY <1>1, <1>11, LoopAside DEF SafeModeOn, state, history
<1>12. CASE SafeModeOff
  <2>1. /\ flag' = FALSE /\ starts' = {} /\ quick' = 0 /\ left' = (left \/ up # "off")
        /\ UNCHANGED <<now, up, since, waiting, reason, boots>>
    BY <1>12 DEF SafeModeOff, state
  <2>2. left' \in BOOLEAN /\ (up # "off" => left') /\ ~Young'
    BY <1>1, <2>1 DEF Young
  <2>3. QED
    BY <1>1, <2>1, <2>2, LoopCleaned
<1>13. QED
  BY <1>2, <1>3, <1>4, <1>5, <1>6, <1>7, <1>8, <1>9, <1>10, <1>11, <1>12 DEF Next

\* "Stopped unexpectedly 3 times within a few minutes of starting" (safemode.go): for any
\* number of crashes that makes a loop, if that many healthy times less one fit into the window,
\* a process that dies young each time and is started at once is in safe mode by then, unless
\* somebody left it in this run.
THEOREM LoopsEnd == MCSpec => []LoopsAreCaught
<1> DEFINE Fit == running = "starts" => IInv /\ LoopInv
<1>1. MCInit => Fit
  BY InitIInv, LoopInit DEF MCInit
<1>2. Fit /\ [MCNext]_allVars => Fit'
  <2> SUFFICES ASSUME Fit, [MCNext]_allVars, running' = "starts"
               PROVE  IInv' /\ LoopInv'
    OBVIOUS
  <2>1. running = "starts" /\ [Next]_vars
    BY DEF MCNext, allVars
  <2>2. QED
    BY <2>1, NextIInv, LoopNext
<1>3. Fit => LoopsAreCaught
  <2> SUFFICES ASSUME IInv, LoopInv
               PROVE  TypeOK /\ CrashLoopIsCaught
    BY DEF LoopsAreCaught
  <2>1. background \in 0..2
    BY DEF IInv, WorkTyped, StartsOnce
  <2>2. QED
    BY <2>1 DEF TypeOK, LoopInv, StartsTyped, IInv, WorkTyped
<1>4. QED
  BY <1>1, <1>2, <1>3, PTL DEF MCSpec

-----------------------------------------------------------------------------
(* Duplicates.                                                             *)

LEMMA CopyCounts == \A s : D!Cardinality(s) = Cardinality(s)
  BY DEF D!Cardinality, Cardinality

\* Of a finite set some element has the largest value: one with fewest above it.
LEMMA LargestValue ==
    ASSUME NEW es, IsFiniteSet(es), es # {}, NEW f \in [es -> Nat]
    PROVE  \E m \in es : \A x \in es : f[x] <= f[m]
<1> DEFINE Above(b) == {x \in es : f[x] > f[b]}
           aboves == {Above(b) : b \in es}
<1>1. aboves \subseteq SUBSET es /\ aboves # {}
  <2>1. \A b \in es : Above(b) \in SUBSET es /\ Above(b) \in aboves
    OBVIOUS
  <2>2. \A s \in aboves : \E b \in es : s = Above(b)
    OBVIOUS
  <2> HIDE DEF aboves, Above
  <2>3. QED
    BY <2>1, <2>2
<1>2. IsWellFoundedOn(StrictSubsetOrdering(es), SUBSET es)
  BY FS_StrictSubsetOrderingWellFounded, FS_FiniteSubsetsOfFinite
<1>3. PICK low \in aboves : \A other \in aboves : <<other, low>> \notin StrictSubsetOrdering(es)
  <2> HIDE DEF aboves
  <2> QED
    BY <1>1, <1>2, WFMin
<1>4. PICK m \in es : low = Above(m)
  OBVIOUS
<1>5. ASSUME NEW x \in es, ~(f[x] <= f[m])
      PROVE  FALSE
  <2>1. \A z \in es : f[z] \in Nat
    OBVIOUS
  <2>2. f[x] > f[m] /\ ~(f[x] > f[x])
    BY <1>5, <2>1
  <2>3. x \in Above(m) /\ x \notin Above(x)
    BY <2>2
  <2>4. ASSUME NEW z \in Above(x)
        PROVE  z \in Above(m)
    <3>1. z \in es /\ f[z] > f[x]
      OBVIOUS
    <3>2. f[z] > f[m]
      BY <2>1, <2>2, <3>1
    <3>3. QED
      BY <3>1, <3>2
  <2>5. Above(x) \in aboves /\ Above(x) # Above(m)
    BY <2>3
  <2>6. <<Above(x), low>> \in StrictSubsetOrdering(es)
    BY <2>4, <2>5, <1>1, <1>4 DEF StrictSubsetOrdering
  <2>7. QED
    BY <1>3, <2>5, <2>6
<1>6. QED
  BY <1>5

LEMMA ScoreIsNat ==
    \A e : D!Score(e) \in Nat
<1>1. \A e, f : D!Has(e, f) \in Nat
  BY DEF D!Has, D!FormatScore
<1>2. QED
  BY <1>1 DEF D!Score

\* The entry to keep: no other has better formats.
LEMMA KeptIsBest ==
    ASSUME NEW es \in SUBSET Copy, es # {}
    PROVE  /\ D!SuggestKeep(es) \in es
           /\ \A c \in es : D!Score(c) <= D!Score(D!SuggestKeep(es))
<1> DEFINE filesIn(x) == Cardinality(FilesOf[x])
           score == [x \in es |-> D!Score(x)]
           count == [x \in es |-> filesIn(x)]
           size  == [x \in es |-> SizeOf[x]]
<1>1. /\ \A x \in es : D!Score(x) \in Nat /\ filesIn(x) \in Nat /\ SizeOf[x] \in Nat /\ x \in Nat
      /\ IsFiniteSet(es)
  BY CopiesAssumption, ScoreIsNat, FS_CardinalityType, FS_Subset
<1>2. PICK m1 \in es : \A x \in es : D!Score(x) <= D!Score(m1)
  <2>1. score \in [es -> Nat]
    BY <1>1
  <2>2. \E m \in es : \A x \in es : score[x] <= score[m]
    <3> HIDE DEF score
    <3>1. QED
      BY <1>1, <2>1, LargestValue
  <2>3. QED
    BY <2>2
<1> DEFINE es1 == {x \in es : D!Score(x) = D!Score(m1)}
<1>3. PICK m2 \in es1 : \A x \in es1 : filesIn(x) <= filesIn(m2)
  <2>1. IsFiniteSet(es1) /\ es1 # {}
    BY <1>1, FS_Subset
  <2>2. [x \in es1 |-> filesIn(x)] \in [es1 -> Nat]
    BY <1>1
  <2>3. \E m \in es1 : \A x \in es1 : [z \in es1 |-> filesIn(z)][x] <= [z \in es1 |-> filesIn(z)][m]
    <3> DEFINE f == [x \in es1 |-> filesIn(x)]
    <3> HIDE DEF f, es1
    <3>1. f \in [es1 -> Nat]
      BY <2>2 DEF f
    <3>2. \E m \in es1 : \A x \in es1 : f[x] <= f[m]
      BY <2>1, <3>1, LargestValue
    <3>3. QED
      BY <3>2 DEF f
  <2>4. QED
    BY <2>3
<1> DEFINE es2 == {x \in es1 : filesIn(x) = filesIn(m2)}
<1>4. PICK m3 \in es2 : \A x \in es2 : SizeOf[x] <= SizeOf[m3]
  <2>1. IsFiniteSet(es2) /\ es2 # {} /\ es2 \subseteq es
    BY <1>1, FS_Subset
  <2>2. [x \in es2 |-> SizeOf[x]] \in [es2 -> Nat]
    BY <1>1
  <2>3. \E m \in es2 : \A x \in es2 : [z \in es2 |-> SizeOf[z]][x] <= [z \in es2 |-> SizeOf[z]][m]
    <3> DEFINE f == [x \in es2 |-> SizeOf[x]]
    <3> HIDE DEF f, es2
    <3>1. f \in [es2 -> Nat]
      BY <2>2 DEF f
    <3>2. \E m \in es2 : \A x \in es2 : f[x] <= f[m]
      BY <2>1, <3>1, LargestValue
    <3>3. QED
      BY <3>2 DEF f
  <2>4. QED
    BY <2>3
<1> DEFINE es3 == {x \in es2 : SizeOf[x] = SizeOf[m3]}
<1>5. PICK m4 \in es3 : \A x \in es3 : m4 <= x
  <2>1. IsFiniteSet(es3) /\ es3 # {} /\ es3 \subseteq es /\ es3 \subseteq Nat
    BY <1>1, FS_Subset
  <2>2. PICK top \in es3 : \A x \in es3 : x <= top
    <3> DEFINE f == [x \in es3 |-> x]
    <3>1. f \in [es3 -> Nat]
      BY <2>1
    <3>2. \E m \in es3 : \A x \in es3 : f[x] <= f[m]
      <4> HIDE DEF f, es3
      <4>1. QED
        BY <2>1, <3>1, LargestValue
    <3>3. QED
      BY <3>2
  <2>3. \E m \in es3 : \A x \in es3 : top - x <= top - m
    <3> DEFINE f == [x \in es3 |-> top - x]
    <3>1. f \in [es3 -> Nat]
      <4> HIDE DEF es3
      <4>1. \A x \in es3 : top - x \in Nat
        BY <2>1, <2>2
      <4>2. QED
        BY <4>1
    <3>2. \E m \in es3 : \A x \in es3 : f[x] <= f[m]
      <4> HIDE DEF f, es3
      <4>1. QED
        BY <2>1, <3>1, LargestValue
    <3>3. PICK m \in es3 : \A x \in es3 : f[x] <= f[m]
      BY <3>2
    <3>4. QED
      BY <3>3
  <2>4. QED
    <3> HIDE DEF es3
    <3>1. PICK m \in es3 : \A x \in es3 : top - x <= top - m
      BY <2>3
    <3>2. \A x \in es3 : m <= x
      BY <2>1, <3>1
    <3>3. QED
      BY <3>2
<1>6. ASSUME NEW c \in es \ {m4}
      PROVE  D!Better(m4, c)
  <2>1. /\ m4 \in es /\ D!Score(m4) = D!Score(m1) /\ filesIn(m4) = filesIn(m2) /\ SizeOf[m4] = SizeOf[m3]
        /\ c \in es /\ D!Score(c) <= D!Score(m4)
    BY <1>2
  <2>2. D!Score(c) = D!Score(m4) => filesIn(c) <= filesIn(m4)
    BY <1>3, <2>1
  <2>3. D!Score(c) = D!Score(m4) /\ filesIn(c) = filesIn(m4) => SizeOf[c] <= SizeOf[m4]
    BY <1>4, <2>1
  <2>4. D!Score(c) = D!Score(m4) /\ filesIn(c) = filesIn(m4) /\ SizeOf[c] = SizeOf[m4] => m4 <= c
    BY <1>5, <2>1
  <2>5. /\ D!Score(c) \in Nat /\ D!Score(m4) \in Nat /\ filesIn(c) \in Nat /\ filesIn(m4) \in Nat
        /\ SizeOf[c] \in Nat /\ SizeOf[m4] \in Nat /\ c \in Nat /\ m4 \in Nat /\ c # m4
    BY <1>1, <2>1
  <2> DEFINE sc == D!Score(c)
             sm == D!Score(m4)
             fc == filesIn(c)
             fm == filesIn(m4)
  <2>6. \/ sc < sm
        \/ sc = sm /\ fc < fm
        \/ sc = sm /\ fc = fm /\ SizeOf[c] < SizeOf[m4]
        \/ sc = sm /\ fc = fm /\ SizeOf[c] = SizeOf[m4] /\ m4 < c
    <3> HIDE DEF sc, sm, fc, fm
    <3>1. QED
      BY <2>1, <2>2, <2>3, <2>4, <2>5 DEF sc, sm, fc, fm
  <2>7. QED
    BY <2>6, CopyCounts DEF D!Better
<1>7. m4 \in es
  OBVIOUS
<1> DEFINE k == D!SuggestKeep(es)
<1>8. k \in es /\ \A c \in es \ {k} : D!Better(k, c)
  <2> HIDE DEF es3
  <2>1. \E e \in es : \A c \in es \ {e} : D!Better(e, c)
    BY <1>6, <1>7
  <2>2. QED
    BY <2>1 DEF D!SuggestKeep
<1>9. ASSUME NEW c \in es
      PROVE  D!Score(c) <= D!Score(k)
  <2>1. D!Score(c) \in Nat /\ D!Score(k) \in Nat
    BY ScoreIsNat
  <2>2. CASE c = k
    BY <2>1, <2>2
  <2>3. CASE c # k
    <3>1. D!Better(k, c)
      BY <1>8, <2>3
    <3>2. D!Score(c) < D!Score(k) \/ D!Score(c) = D!Score(k)
      BY <3>1 DEF D!Better
    <3> HIDE DEF k
    <3>3. QED
      BY <2>1, <3>2
  <2>4. QED
    BY <2>2, <2>3
<1>10. QED
  BY <1>8, <1>9

RequestState == [at : {"idle", "titles", "remove"}, ids : SUBSET Copy]

CopiesTyped ==
    /\ copies \subseteq Copy /\ rowsOf \subseteq Copy
    /\ request \in [Remover -> RequestState]
    /\ touched \subseteq D!Book /\ overlapped \in BOOLEAN /\ followed \in BOOLEAN

IdleHasNone == \A a \in Remover : request[a].at = "idle" => request[a].ids = {}
OneRemoves  == \A a, c \in Remover : request[a].at # "idle" /\ request[c].at # "idle" => a = c

\* Nobody is about to take it.
Free(e) == \A a \in Remover : e \notin request[a].ids

\* Until something is removed, the list is what Calibre has.
ListIsFresh ==
    (\A a \in Remover : request[a].at # "remove") =>
        \A e \in rowsOf : CopyOf[e] \notin touched => e \in copies

CopySurvives == \A b \in D!Book \ touched : \E e \in copies : CopyOf[e] = b /\ Free(e)
BestSurvives == followed =>
    \A e \in Copy : CopyOf[e] \notin touched =>
        \E k \in copies : CopyOf[k] = CopyOf[e] /\ Free(k) /\ D!Score(e) <= D!Score(k)

CopiesKept == OneRemoves /\ ListIsFresh /\ CopySurvives /\ BestSurvives

CopiesFit == CopiesTyped /\ IdleHasNone /\ (~overlapped => CopiesKept)

LEMMA RequestFields ==
    /\ \A q \in RequestState : q.at \in {"idle", "titles", "remove"} /\ q.ids \in SUBSET Copy
    /\ \A v \in {"idle", "titles", "remove"}, ids \in SUBSET Copy :
         [at |-> v, ids |-> ids] \in RequestState
    /\ D!Idle \in RequestState /\ D!Idle.at = "idle" /\ D!Idle.ids = {}
  BY DEF RequestState, D!Idle

LEMMA RequestIds ==
    ASSUME NEW q \in RequestState, NEW ids
    PROVE  [q EXCEPT !.ids = ids] = [at |-> q.at, ids |-> ids]
  BY DEF RequestState

\* A step of a request under way: it takes away no more than it had picked.
LEMMA OneRequestFits ==
    ASSUME CopiesFit, NEW a \in Remover, NEW q \in RequestState,
           request' = [request EXCEPT ![a] = q],
           q.ids \subseteq request[a].ids, request[a].at # "idle",
           q.at = "idle" => q.ids = {},
           copies' \subseteq copies, copies \ request[a].ids \subseteq copies',
           copies \ copies' \subseteq request[a].ids \ q.ids,
           UNCHANGED <<touched, followed>>,
           overlapped' \in BOOLEAN, ~overlapped' => ~overlapped,
           rowsOf' \subseteq Copy,
           ~overlapped' /\ q.at # "remove" => rowsOf' = copies' \/ (request[a].at = "titles" /\ UNCHANGED <<copies, rowsOf>>)
    PROVE  CopiesFit'
<1>1. /\ request \in [Remover -> RequestState] /\ request[a] \in RequestState
      /\ \A c \in Remover : request'[c] = IF c = a THEN q ELSE request[c]
  BY DEF CopiesFit, CopiesTyped
<1>2. \A e : Free(e) => Free(e)'
  BY <1>1 DEF Free
<1>3. CopiesTyped'
  BY <1>1 DEF CopiesFit, CopiesTyped
<1>4. IdleHasNone'
  BY <1>1 DEF CopiesFit, IdleHasNone
<1>5. ASSUME ~overlapped'
      PROVE  CopiesKept'
  <2>1. OneRemoves /\ ListIsFresh /\ CopySurvives /\ BestSurvives
    BY <1>5 DEF CopiesFit, CopiesKept
  <2>2. OneRemoves'
    BY <1>1, <2>1 DEF OneRemoves
  <2>3. \A c \in Remover : c # a => request[c].at = "idle"
    BY <2>1 DEF OneRemoves
  <2>4. ListIsFresh'
    BY <1>1, <1>5, <2>1, <2>3 DEF ListIsFresh
  <2>5. \A e \in copies : Free(e) => e \in copies'
    BY DEF Free
  <2>6. CopySurvives'
    BY <1>2, <2>1, <2>5 DEF CopySurvives
  <2>7. BestSurvives'
    BY <1>2, <2>1, <2>5 DEF BestSurvives
  <2>8. QED
    BY <2>2, <2>4, <2>6, <2>7 DEF CopiesKept
<1>6. QED
  BY <1>3, <1>4, <1>5 DEF CopiesFit

\* Somebody takes an entry away in Calibre, or the library is read.
LEMMA OutsideFits ==
    ASSUME CopiesFit, (\E e \in Copy : D!CalibreRemove(e)) \/ D!Sync
    PROVE  CopiesFit'
<1>1. ASSUME NEW e \in Copy, D!CalibreRemove(e)
      PROVE  CopiesFit'
  <2>1. /\ e \in copies /\ copies' = copies \ {e} /\ touched' = touched \cup {CopyOf[e]}
        /\ UNCHANGED <<rowsOf, request, overlapped, followed>> /\ CopyOf[e] \in D!Book
    BY <1>1 DEF D!CalibreRemove, D!Book
  <2>2. CopiesTyped' /\ IdleHasNone'
    BY <2>1 DEF CopiesFit, CopiesTyped, IdleHasNone
  <2>3. ASSUME ~overlapped
        PROVE  CopiesKept'
    <3>1. OneRemoves /\ ListIsFresh /\ CopySurvives /\ BestSurvives
      BY <2>3 DEF CopiesFit, CopiesKept
    <3>2. \A k : Free(k)' <=> Free(k)
      BY <2>1 DEF Free
    <3>3. OneRemoves' /\ ListIsFresh'
      BY <2>1, <3>1 DEF OneRemoves, ListIsFresh
    <3>4. CopySurvives'
      BY <2>1, <3>1, <3>2 DEF CopySurvives
    <3>5. BestSurvives'
      BY <2>1, <3>1, <3>2 DEF BestSurvives
    <3>6. QED
      BY <3>3, <3>4, <3>5 DEF CopiesKept
  <2>4. QED
    BY <2>1, <2>2, <2>3 DEF CopiesFit
<1>2. CASE D!Sync
  <2>1. rowsOf' = copies /\ UNCHANGED <<copies, request, touched, overlapped, followed>>
    BY <1>2 DEF D!Sync
  <2>2. CopiesTyped' /\ IdleHasNone'
    BY <2>1 DEF CopiesFit, CopiesTyped, IdleHasNone
  <2>3. ASSUME ~overlapped
        PROVE  CopiesKept'
    <3>1. OneRemoves /\ CopySurvives /\ BestSurvives
      BY <2>3 DEF CopiesFit, CopiesKept
    <3>2. \A k : Free(k)' <=> Free(k)
      BY <2>1 DEF Free
    <3>3. OneRemoves' /\ ListIsFresh'
      BY <2>1, <3>1 DEF OneRemoves, ListIsFresh
    <3>4. CopySurvives' /\ BestSurvives'
      BY <2>1, <3>1, <3>2 DEF CopySurvives, BestSurvives
    <3>5. QED
      BY <3>3, <3>4 DEF CopiesKept
  <2>4. QED
    BY <2>1, <2>2, <2>3 DEF CopiesFit
<1>3. QED
  BY <1>1, <1>2

\* A request is accepted: it leaves an entry of each book.
LEMMA RemoveDuplicatesFits ==
    ASSUME CopiesFit, NEW a \in Remover, NEW ids \in SUBSET Copy, D!RemoveDuplicates(a, ids)
    PROVE  CopiesFit'
<1> DEFINE q == [at |-> "titles", ids |-> ids]
           books == {CopyOf[e] : e \in ids}
           rows1(b) == {e \in rowsOf : CopyOf[e] = b}
           picked(b) == {e \in ids : CopyOf[e] = b}
<1>1. /\ request[a].at = "idle" /\ ids # {} /\ ids \subseteq rowsOf
      /\ request' = [request EXCEPT ![a] = q]
      /\ overlapped' = (overlapped \/ \E c \in Remover : request[c].at # "idle")
      /\ UNCHANGED <<copies, rowsOf, touched>>
  BY DEF D!RemoveDuplicates
<1>2. \A b \in books : Cardinality(picked(b)) < Cardinality(rows1(b))
  BY CopyCounts DEF D!RemoveDuplicates, D!KeepsOne, D!Entries
<1>3. followed' = (followed /\ \A b \in books : picked(b) = rows1(b) \ {D!SuggestKeep(rows1(b))})
  BY DEF D!RemoveDuplicates, D!Entries
<1>4. /\ request \in [Remover -> RequestState] /\ q \in RequestState /\ q.ids = ids /\ q.at = "titles"
      /\ copies \subseteq Copy /\ rowsOf \subseteq Copy /\ touched \subseteq D!Book
      /\ followed \in BOOLEAN /\ overlapped \in BOOLEAN
      /\ \A c \in Remover : request'[c] = IF c = a THEN q ELSE request[c]
  BY <1>1, RequestFields DEF CopiesFit, CopiesTyped
<1>5. CopiesTyped'
  <2>1. request' \in [Remover -> RequestState]
    BY <1>1, <1>4
  <2>2. overlapped' \in BOOLEAN /\ followed' \in BOOLEAN
    BY <1>1, <1>3, <1>4
  <2>3. QED
    BY <1>1, <1>4, <2>1, <2>2 DEF CopiesTyped
<1>6. IdleHasNone'
  BY <1>4 DEF CopiesFit, IdleHasNone
<1>7. ASSUME ~overlapped'
      PROVE  CopiesKept'
  <2>1. ~overlapped /\ \A c \in Remover : request[c].at = "idle" /\ request[c].ids = {}
    BY <1>1, <1>7 DEF CopiesFit, IdleHasNone
  <2>2. OneRemoves /\ ListIsFresh /\ CopySurvives /\ BestSurvives
    BY <2>1 DEF CopiesFit, CopiesKept
  <2>3. \A e \in rowsOf : CopyOf[e] \notin touched => e \in copies
    BY <2>1, <2>2 DEF ListIsFresh
  <2>4. \A e : Free(e)' <=> e \notin ids
    BY <1>4, <2>1 DEF Free
  <2>5. OneRemoves' /\ ListIsFresh'
    BY <1>1, <1>4, <2>1, <2>3 DEF OneRemoves, ListIsFresh
  <2>6. ASSUME NEW b \in D!Book \ touched
        PROVE  \E e \in copies : CopyOf[e] = b /\ e \notin ids
    <3>1. CASE b \notin books
      <4>1. PICK e \in copies : CopyOf[e] = b
        BY <2>2, <2>6 DEF CopySurvives
      <4>2. e \notin ids
        BY <3>1, <4>1
      <4>3. QED
        BY <4>1, <4>2
    <3>2. CASE b \in books
      <4>1. \E e \in rows1(b) : e \notin picked(b)
        <5>1. ASSUME rows1(b) \subseteq picked(b)
              PROVE  FALSE
          <6>1. IsFiniteSet(picked(b))
            <7>1. picked(b) \in SUBSET Copy
              OBVIOUS
            <7>2. QED
              BY <7>1, CopiesAssumption, FS_Subset
          <6>2. /\ Cardinality(rows1(b)) <= Cardinality(picked(b)) /\ IsFiniteSet(rows1(b))
            <7> HIDE DEF rows1, picked
            <7>1. QED
              BY <5>1, <6>1, FS_Subset
          <6>3. Cardinality(rows1(b)) \in Nat /\ Cardinality(picked(b)) \in Nat
            <7> HIDE DEF rows1, picked
            <7>1. QED
              BY <6>1, <6>2, FS_CardinalityType
          <6>4. QED
            <7> HIDE DEF rows1, picked
            <7>1. QED
              BY <1>2, <3>2, <6>2, <6>3
        <5>2. QED
          BY <5>1
      <4>2. PICK e \in rowsOf : CopyOf[e] = b /\ e \notin ids
        BY <4>1
      <4>3. e \in copies
        BY <2>3, <2>6, <4>2
      <4>4. QED
        BY <4>2, <4>3
    <3>3. QED
      BY <3>1, <3>2
  <2>7. CopySurvives'
    BY <1>1, <2>4, <2>6 DEF CopySurvives
  <2>8. ASSUME followed', NEW e \in Copy, CopyOf[e] \notin touched
        PROVE  \E k \in copies : CopyOf[k] = CopyOf[e] /\ k \notin ids /\ D!Score(e) <= D!Score(k)
    <3> DEFINE b == CopyOf[e]
    <3>1. PICK k \in copies : CopyOf[k] = b /\ D!Score(e) <= D!Score(k)
      BY <1>3, <2>2, <2>8 DEF BestSurvives
    <3>2. CASE k \notin ids
      BY <3>1, <3>2
    <3>3. CASE k \in ids
      <4> DEFINE best == D!SuggestKeep(rows1(b))
      <4>1. b \in books /\ k \in rows1(b)
        BY <1>1, <3>1, <3>3
      <4>2. rows1(b) \in SUBSET Copy /\ rows1(b) # {}
        BY <1>4, <4>1
      <4>3. best \in rows1(b) /\ D!Score(k) <= D!Score(best)
        <5> HIDE DEF rows1
        <5>1. QED
          BY <4>1, <4>2, KeptIsBest
      <4>4. picked(b) = rows1(b) \ {best}
        BY <1>3, <2>8, <4>1
      <4>5. best \notin picked(b) /\ CopyOf[best] = b /\ best \in rowsOf
        <5>1. best \notin picked(b)
          <6> HIDE DEF rows1, picked, best
          <6>1. QED
            BY <4>4
        <5>2. QED
          BY <4>3, <5>1
      <4>6. best \notin ids /\ best \in copies
        BY <2>3, <2>8, <4>5
      <4>7. D!Score(e) <= D!Score(best)
        <5>1. D!Score(e) \in Nat /\ D!Score(k) \in Nat /\ D!Score(best) \in Nat
          BY ScoreIsNat
        <5> HIDE DEF best
        <5>2. QED
          BY <3>1, <4>3, <5>1
      <4>8. QED
        BY <4>5, <4>6, <4>7
    <3>4. QED
      BY <3>2, <3>3
  <2>9. BestSurvives'
    BY <1>1, <2>4, <2>8 DEF BestSurvives
  <2>10. QED
    BY <2>5, <2>7, <2>9 DEF CopiesKept
<1>8. QED
  BY <1>5, <1>6, <1>7 DEF CopiesFit

LEMMA CopiesNext ==
    ASSUME CopiesFit, [D!Next]_copyVars
    PROVE  CopiesFit'
<1>1. CASE UNCHANGED copyVars
  BY <1>1 DEF copyVars, CopiesFit, CopiesTyped, IdleHasNone, CopiesKept, OneRemoves, ListIsFresh, CopySurvives, BestSurvives, Free
<1>2. CASE D!Sync \/ \E e \in Copy : D!CalibreRemove(e)
  BY <1>2, OutsideFits
<1>3. ASSUME NEW a \in Remover, NEW ids \in SUBSET Copy, D!RemoveDuplicates(a, ids)
      PROVE  CopiesFit'
  BY <1>3, RemoveDuplicatesFits
<1>4. ASSUME NEW a \in Remover, NEW ok \in BOOLEAN, D!Titles(a, ok)
      PROVE  CopiesFit'
  <2> DEFINE q == IF ok THEN [at |-> "remove", ids |-> request[a].ids \cap copies] ELSE D!Idle
  <2>1. /\ request[a] \in RequestState /\ request \in [Remover -> RequestState] /\ overlapped \in BOOLEAN
        /\ rowsOf \subseteq Copy
    BY DEF CopiesFit, CopiesTyped
  <2>2. /\ request[a].at = "titles" /\ request' = [request EXCEPT ![a] = q]
        /\ UNCHANGED <<copies, rowsOf, touched, overlapped, followed>>
    BY <1>4, <2>1 DEF D!Titles
  <2>3. /\ q \in RequestState /\ q.ids \subseteq request[a].ids
        /\ q.at = "idle" => q.ids = {}
    BY <2>1, RequestFields
  <2> HIDE DEF q
  <2>4. QED
    BY <2>1, <2>2, <2>3, OneRequestFits
<1>5. ASSUME NEW a \in Remover, NEW ids \in SUBSET Copy, D!Remove(a, ids)
      PROVE  CopiesFit'
  <2> DEFINE q == [at |-> "remove", ids |-> request[a].ids \ ids]
  <2>1. /\ request[a] \in RequestState /\ request \in [Remover -> RequestState] /\ overlapped \in BOOLEAN
        /\ rowsOf \subseteq Copy
    BY DEF CopiesFit, CopiesTyped
  <2>2. /\ request[a].at = "remove" /\ ids \subseteq request[a].ids /\ copies' = copies \ ids
        /\ UNCHANGED <<rowsOf, touched, overlapped, followed>>
        /\ request' = [request EXCEPT ![a] = [request[a] EXCEPT !.ids = request[a].ids \ ids]]
    BY <1>5, <2>1 DEF D!Remove
  <2>3. [request[a] EXCEPT !.ids = request[a].ids \ ids] = q
    BY <2>1, <2>2, RequestIds
  <2>4. q \in RequestState /\ q.at = "remove" /\ q.ids = request[a].ids \ ids
    BY <2>1, RequestFields
  <2> HIDE DEF q
  <2>5. QED
    BY <2>1, <2>2, <2>3, <2>4, OneRequestFits
<1>6. ASSUME NEW a \in Remover, D!Fails(a) \/ D!ReadAgain(a)
      PROVE  CopiesFit'
  <2>1. /\ request[a] \in RequestState /\ overlapped \in BOOLEAN /\ copies \subseteq Copy /\ rowsOf \subseteq Copy
    BY DEF CopiesFit, CopiesTyped
  <2>2. CASE D!Fails(a)
    <3>1. /\ request[a].at = "remove" /\ request' = [request EXCEPT ![a] = D!Idle] /\ overlapped' = TRUE
          /\ UNCHANGED <<copies, rowsOf, touched, followed>>
      BY <2>2 DEF D!Fails
    <3>2. overlapped' \in BOOLEAN
      BY <3>1
    <3>3. QED
      BY <2>1, <3>1, <3>2, RequestFields, OneRequestFits
  <2>3. CASE D!ReadAgain(a)
    <3>1. /\ request[a].at = "remove" /\ request' = [request EXCEPT ![a] = D!Idle] /\ rowsOf' = copies
          /\ UNCHANGED <<copies, touched, overlapped, followed>> /\ request[a].ids = {}
      BY <2>3 DEF D!ReadAgain
    <3>2. QED
      BY <2>1, <3>1, RequestFields, OneRequestFits
  <2>4. QED
    BY <1>6, <2>2, <2>3
<1>7. QED
  BY <1>1, <1>2, <1>3, <1>4, <1>5, <1>6 DEF D!Next

LEMMA CopiesInit == D!Init => CopiesFit
<1> SUFFICES ASSUME D!Init PROVE CopiesFit
  OBVIOUS
<1>1. /\ copies = Copy /\ rowsOf = Copy /\ request = [a \in Remover |-> D!Idle] /\ touched = {}
      /\ overlapped = FALSE /\ followed = TRUE
  BY DEF D!Init
<1>2. overlapped \in BOOLEAN /\ followed \in BOOLEAN
  BY <1>1
<1>3. CopiesTyped /\ IdleHasNone
  BY <1>1, <1>2, RequestFields DEF CopiesTyped, IdleHasNone
<1>4. \A e : Free(e)
  BY <1>1, RequestFields DEF Free
<1>5. OneRemoves /\ ListIsFresh
  BY <1>1, RequestFields DEF OneRemoves, ListIsFresh
<1>6. CopySurvives
  BY <1>1, <1>4 DEF CopySurvives, D!Book
<1>7. BestSurvives
  <2>1. \A e \in Copy : D!Score(e) <= D!Score(e)
    BY ScoreIsNat
  <2>2. QED
    BY <1>1, <1>4, <2>1 DEF BestSurvives
<1>8. QED
  BY <1>3, <1>5, <1>6, <1>7 DEF CopiesFit, CopiesKept

\* "Removing the last copy" (duplicates_handlers.go refuses it): a book nobody touched in
\* Calibre keeps one, for any copies and admins, unless requests overlapped or one could not
\* read the library again; and who removes all but the suggested one keeps the best formats.
THEOREM CopiesAreKept == MCSpec => []BestCopyStays
<1> DEFINE Fit == running = "copies" => CopiesFit
<1>1. MCInit => Fit
  BY CopiesInit DEF MCInit
<1>2. Fit /\ [MCNext]_allVars => Fit'
  <2> SUFFICES ASSUME Fit, [MCNext]_allVars, running' = "copies"
               PROVE  CopiesFit'
    OBVIOUS
  <2>1. running = "copies" /\ [D!Next]_copyVars
    BY DEF MCNext, allVars
  <2>2. QED
    BY <2>1, CopiesNext
<1>3. Fit => BestCopyStays
  <2> SUFFICES ASSUME CopiesFit
               PROVE  D!TypeOK /\ D!LastCopyKept /\ D!BestKept
    BY DEF BestCopyStays
  <2>1. D!TypeOK
    BY DEF CopiesFit, CopiesTyped, D!TypeOK, RequestState
  <2>2. D!LastCopyKept
    BY DEF CopiesFit, CopiesKept, CopySurvives, D!LastCopyKept, D!Entries
  <2>3. D!BestKept
    BY DEF CopiesFit, CopiesKept, BestSurvives, D!BestKept, D!Entries
  <2>4. QED
    BY <2>1, <2>2, <2>3
<1>4. QED
  BY <1>1, <1>2, <1>3, PTL DEF MCSpec

-----------------------------------------------------------------------------
(* Titles.                                                                 *)

TitleSet  == {"numbered", "tidy", "other"}
EntryRow  == [title : TitleSet, at : 0..MaxChanges]
BookRow   == [title : TitleSet, fix : BOOLEAN, modified : 0..MaxChanges, rated : 0..MaxChanges]
PushStep  == {"idle", "titles", "next", "set", "save", "accept"}
PushState ==
    [at : PushStep, server : {"same", "other"}, books : SUBSET Titled, want : [Titled -> TitleSet], title : TitleSet,
     left : SUBSET Titled, found : SUBSET Titled, now : Titled \cup {0}, unchanged : BOOLEAN, accept : SUBSET Titled]

TitlesTyped ==
    /\ entries \in [Titled -> EntryRow] /\ theirs \in [Titled -> TitleSet \cup {"gone"}]
    /\ served \in {"same", "other"} /\ book \in [Titled -> BookRow] /\ push \in [Pusher -> PushState]
    /\ clock \in 0..MaxChanges /\ others \subseteq Titled /\ foreign \subseteq Titled
    /\ renamed \subseteq Titled /\ mixed \in BOOLEAN /\ wrong \in BOOLEAN

\* A push works on the books it was given, one after the other.
PushIsWhole(p) ==
    /\ p.left \subseteq p.books /\ p.found \subseteq p.books /\ p.accept \subseteq p.books
    /\ p.accept \cap p.left = {}
    /\ p.at = "idle" => p.books = {}
    /\ p.at = "titles" => p.accept = {}
    /\ p.at \in {"set", "save"} => p.now \in p.books /\ p.now \in Titled /\ p.now \notin p.left

PushesAreWhole == \A a \in Pusher : PushIsWhole(push[a])

\* What a rating saw, what was read last, and what Calibre has, in this order.
TimesInOrder == \A b \in Titled :
    book[b].rated <= book[b].modified /\ book[b].modified <= entries[b].at /\ entries[b].at <= clock

\* No push takes the rating along of a book that somebody else changed before.
NotOthers(p, os) ==
    p.at # "idle" => p.accept \cap os = {} /\ (p.at \in {"set", "save"} /\ p.unchanged => p.now \notin os)

OthersStay == /\ \A b \in others : book[b].rated < book[b].modified
              /\ \A a \in Pusher : NotOthers(push[a], others)

\* The titles a push compared in the other library are still those, or a push's.
ComparedFits(p, ts, done) ==
    p.server = "other" /\ p.at \in {"next", "set", "save"} =>
        \A c \in p.found \ done : T!NormKey(ts[c]) = T!NormKey(p.want[c])

OtherStays == ~wrong /\ \A a \in Pusher : ComparedFits(push[a], theirs, renamed)

\* The push that takes a book's rating along.
Carries(p, b) == p.at # "idle" /\ (b \in p.accept \/ (p.at = "save" /\ p.now = b /\ p.unchanged))

OnePushes == \A a, c \in Pusher : push[a].at # "idle" /\ push[c].at # "idle" => a = c
PushesOurs == \A a \in Pusher : push[a].at # "idle" => push[a].server = "same"
OwnChange == \A b \in Titled \ foreign :
    entries[b].at <= book[b].rated \/ \E a \in Pusher : Carries(push[a], b)
KnownUnchanged == \A a \in Pusher :
    push[a].at \in {"set", "save"} /\ push[a].now \notin foreign => push[a].unchanged
ReadForAccept == \A a \in Pusher, b \in Titled :
    push[a].at = "accept" /\ b \in push[a].accept \ foreign => book[b].modified = entries[b].at

OwnKept == OnePushes /\ PushesOurs /\ OwnChange /\ KnownUnchanged /\ ReadForAccept

TitlesFit ==
    TitlesTyped /\ PushesAreWhole /\ TimesInOrder /\ OthersStay /\ OtherStays /\ (~mixed => OwnKept)

-----------------------------------------------------------------------------

\* What a push becomes.
Goes(p, v)        == [p EXCEPT !.at = v]
Finds(p, bs)      == [p EXCEPT !.at = "next", !.found = bs]
Takes(p, b, u, v) == [p EXCEPT !.left = p.left \ {b}, !.now = b, !.unchanged = u, !.at = v]
Notes(p, bs)      == [p EXCEPT !.at = "next", !.accept = bs]
Begun(l, bs, w, t) ==
    [T!NoPush EXCEPT !.at = "titles", !.server = l, !.books = bs, !.left = bs, !.want = w, !.title = t]

LEMMA PushFields ==
    \A p \in PushState :
        /\ p.at \in PushStep /\ p.server \in {"same", "other"} /\ p.books \subseteq Titled /\ p.want \in [Titled -> TitleSet]
        /\ p.title \in TitleSet /\ p.left \subseteq Titled /\ p.found \subseteq Titled /\ p.now \in Titled \cup {0}
        /\ p.unchanged \in BOOLEAN /\ p.accept \subseteq Titled
  BY DEF PushState

LEMMA GoesFields ==
    ASSUME NEW p \in PushState, NEW v \in PushStep
    PROVE  /\ Goes(p, v) \in PushState /\ Goes(p, v).at = v /\ Goes(p, v).server = p.server /\ Goes(p, v).books = p.books
           /\ Goes(p, v).want = p.want /\ Goes(p, v).title = p.title /\ Goes(p, v).left = p.left
           /\ Goes(p, v).found = p.found /\ Goes(p, v).now = p.now /\ Goes(p, v).unchanged = p.unchanged
           /\ Goes(p, v).accept = p.accept
  BY DEF PushState, Goes

LEMMA FindsFields ==
    ASSUME NEW p \in PushState, NEW bs \in SUBSET Titled
    PROVE  /\ Finds(p, bs) \in PushState /\ Finds(p, bs).at = "next" /\ Finds(p, bs).server = p.server
           /\ Finds(p, bs).books = p.books /\ Finds(p, bs).want = p.want /\ Finds(p, bs).title = p.title
           /\ Finds(p, bs).left = p.left /\ Finds(p, bs).found = bs /\ Finds(p, bs).accept = p.accept
  BY DEF PushState, PushStep, Finds

LEMMA TakesFields ==
    ASSUME NEW p \in PushState, NEW b \in Titled, NEW u \in BOOLEAN, NEW v \in PushStep
    PROVE  /\ Takes(p, b, u, v) \in PushState /\ Takes(p, b, u, v).at = v /\ Takes(p, b, u, v).server = p.server
           /\ Takes(p, b, u, v).books = p.books /\ Takes(p, b, u, v).want = p.want /\ Takes(p, b, u, v).title = p.title
           /\ Takes(p, b, u, v).left = p.left \ {b} /\ Takes(p, b, u, v).found = p.found
           /\ Takes(p, b, u, v).now = b /\ Takes(p, b, u, v).unchanged = u /\ Takes(p, b, u, v).accept = p.accept
  BY DEF PushState, Takes

LEMMA NotesFields ==
    ASSUME NEW p \in PushState, NEW bs \in SUBSET Titled
    PROVE  /\ Notes(p, bs) \in PushState /\ Notes(p, bs).at = "next" /\ Notes(p, bs).server = p.server
           /\ Notes(p, bs).books = p.books /\ Notes(p, bs).want = p.want /\ Notes(p, bs).title = p.title
           /\ Notes(p, bs).left = p.left /\ Notes(p, bs).found = p.found /\ Notes(p, bs).accept = bs
  BY DEF PushState, PushStep, Notes

LEMMA NoPushFields ==
    /\ T!NoPush \in PushState /\ T!NoPush.at = "idle" /\ T!NoPush.books = {} /\ T!NoPush.left = {} /\ T!NoPush.found = {}
    /\ T!NoPush.accept = {}
<1>1. FALSE \in BOOLEAN /\ {} \in SUBSET Titled /\ [b \in Titled |-> "tidy"] \in [Titled -> TitleSet]
  BY DEF TitleSet
<1>2. QED
  BY <1>1 DEF T!NoPush, PushState, PushStep, TitleSet

LEMMA RowFields ==
    /\ \A r \in BookRow : /\ r.title \in TitleSet /\ r.fix \in BOOLEAN /\ r.modified \in 0..MaxChanges
                          /\ r.rated \in 0..MaxChanges
    /\ \A r \in EntryRow : r.title \in TitleSet /\ r.at \in 0..MaxChanges
    /\ \A t \in TitleSet, n \in 0..MaxChanges : [title |-> t, at |-> n] \in EntryRow
  BY DEF BookRow, EntryRow

LEMMA TitleFacts ==
    ASSUME TitlesFit
    PROVE  /\ TitlesTyped /\ PushesAreWhole /\ TimesInOrder /\ OthersStay /\ OtherStays
           /\ ~mixed => OnePushes /\ PushesOurs /\ OwnChange /\ KnownUnchanged /\ ReadForAccept
           /\ entries \in [Titled -> EntryRow] /\ book \in [Titled -> BookRow] /\ push \in [Pusher -> PushState]
           /\ clock \in Nat /\ MaxChanges \in Nat /\ clock \in 0..MaxChanges
           /\ \A b \in Titled : /\ book[b] \in BookRow /\ entries[b] \in EntryRow
                                /\ book[b].rated \in Nat /\ book[b].modified \in Nat /\ entries[b].at \in Nat
           /\ \A a \in Pusher : push[a] \in PushState /\ PushIsWhole(push[a]) /\ NotOthers(push[a], others)
                                /\ ComparedFits(push[a], theirs, renamed)
<1>1. TitlesTyped /\ PushesAreWhole /\ TimesInOrder /\ OthersStay /\ OtherStays /\ MaxChanges \in Nat
  BY TitlesAssumption DEF TitlesFit
<1>2. ~mixed => OnePushes /\ PushesOurs /\ OwnChange /\ KnownUnchanged /\ ReadForAccept
  BY DEF TitlesFit, OwnKept
<1>3. entries \in [Titled -> EntryRow] /\ book \in [Titled -> BookRow] /\ push \in [Pusher -> PushState] /\ clock \in 0..MaxChanges
  BY <1>1 DEF TitlesTyped
<1>4. clock \in Nat
  BY <1>1, <1>3
<1>5. ASSUME NEW b \in Titled
      PROVE  /\ book[b] \in BookRow /\ entries[b] \in EntryRow
             /\ book[b].rated \in Nat /\ book[b].modified \in Nat /\ entries[b].at \in Nat
  <2>1. book[b] \in BookRow /\ entries[b] \in EntryRow
    BY <1>3
  <2>2. QED
    BY <1>1, <2>1, RowFields
<1>6. \A a \in Pusher : push[a] \in PushState /\ PushIsWhole(push[a]) /\ NotOthers(push[a], others)
                                /\ ComparedFits(push[a], theirs, renamed)
  BY <1>1, <1>3 DEF PushesAreWhole, OthersStay, OtherStays
<1>7. QED
  BY <1>1, <1>2, <1>3, <1>4, <1>5, <1>6

-----------------------------------------------------------------------------

\* A step of a push that changes no times.
LEMMA PushSaves ==
    ASSUME TitlesFit, NEW a \in Pusher, NEW q \in PushState,
           push' = [push EXCEPT ![a] = q],
           UNCHANGED <<entries, theirs, served, clock, others, foreign, renamed, wrong>>,
           book' \in [Titled -> BookRow],
           \A b \in Titled : book'[b].modified = book[b].modified /\ book'[b].rated = book[b].rated,
           mixed' \in BOOLEAN, push[a].at # "idle",
           PushIsWhole(q), NotOthers(q, others), ComparedFits(q, theirs, renamed),
           ~mixed' =>
               /\ ~mixed
               /\ q.server = push[a].server \/ q.at = "idle"
               /\ q.at \notin {"accept"}
               /\ q.at \in {"set", "save"} /\ q.now \notin foreign => q.unchanged
               /\ \A b \in Titled \ foreign : Carries(push[a], b) => Carries(q, b) \/ entries[b].at <= book[b].rated
    PROVE  TitlesFit'
<1>1. /\ TitlesTyped /\ PushesAreWhole /\ TimesInOrder /\ OthersStay /\ OtherStays /\ push \in [Pusher -> PushState]
      /\ ~mixed => OnePushes /\ PushesOurs /\ OwnChange /\ KnownUnchanged /\ ReadForAccept
  BY TitleFacts
<1>2. \A c \in Pusher : push'[c] = IF c = a THEN q ELSE push[c]
  BY <1>1
<1>3. TitlesTyped'
  BY <1>1 DEF TitlesTyped
<1>4. PushesAreWhole'
  BY <1>1, <1>2 DEF PushesAreWhole
<1>5. TimesInOrder'
  BY <1>1 DEF TimesInOrder
<1>6. OthersStay'
  <2>1. others \subseteq Titled
    BY <1>1 DEF TitlesTyped
  <2>2. QED
    BY <1>1, <1>2, <2>1 DEF OthersStay
<1>7. OtherStays'
  BY <1>1, <1>2 DEF OtherStays
<1>8. ASSUME ~mixed'
      PROVE  OwnKept'
  <2>1. OnePushes /\ PushesOurs /\ OwnChange /\ KnownUnchanged /\ ReadForAccept
    BY <1>1, <1>8
  <2>2. OnePushes' /\ PushesOurs'
    BY <1>2, <1>8, <2>1 DEF OnePushes, PushesOurs
  <2>3. OwnChange'
    BY <1>2, <1>8, <2>1 DEF OwnChange
  <2>4. KnownUnchanged' /\ ReadForAccept'
    BY <1>2, <1>8, <2>1 DEF KnownUnchanged, ReadForAccept
  <2>5. QED
    BY <2>2, <2>3, <2>4 DEF OwnKept
<1>9. QED
  BY <1>3, <1>4, <1>5, <1>6, <1>7, <1>8 DEF TitlesFit

\* A step of a push that writes nothing.
LEMMA PushMoves ==
    ASSUME TitlesFit, NEW a \in Pusher, NEW q \in PushState,
           push' = [push EXCEPT ![a] = q],
           UNCHANGED <<entries, theirs, served, book, clock, others, foreign, renamed, wrong>>,
           mixed' \in BOOLEAN, push[a].at # "idle",
           PushIsWhole(q), NotOthers(q, others), ComparedFits(q, theirs, renamed),
           ~mixed' =>
               /\ ~mixed
               /\ q.server = push[a].server \/ q.at = "idle"
               /\ q.at \notin {"accept"}
               /\ q.at \in {"set", "save"} /\ q.now \notin foreign => q.unchanged
               /\ \A b \in Titled \ foreign : Carries(push[a], b) => Carries(q, b) \/ entries[b].at <= book[b].rated
    PROVE  TitlesFit'
<1>1. /\ book' \in [Titled -> BookRow]
      /\ \A b \in Titled : book'[b].modified = book[b].modified /\ book'[b].rated = book[b].rated
  BY TitleFacts
<1>2. QED
  BY <1>1, PushSaves

\* Calibre changes an entry, by somebody else.
LEMMA EditFits ==
    ASSUME TitlesFit, NEW b \in Titled, NEW t \in Typed, T!CalibreEdit(b, t)
    PROVE  TitlesFit'
<1> DEFINE e == [title |-> t, at |-> clock + 1]
<1>1. /\ clock < MaxChanges /\ clock' = clock + 1 /\ entries' = [entries EXCEPT ![b] = e] /\ foreign' = foreign \cup {b}
      /\ UNCHANGED <<theirs, served, book, push, others, mixed, renamed, wrong>>
  BY DEF T!CalibreEdit
<1>2. /\ TitlesTyped /\ PushesAreWhole /\ TimesInOrder /\ OthersStay /\ OtherStays
      /\ ~mixed => OnePushes /\ PushesOurs /\ OwnChange /\ KnownUnchanged /\ ReadForAccept
      /\ entries \in [Titled -> EntryRow] /\ clock \in Nat /\ MaxChanges \in Nat
      /\ \A c \in Titled : book[c].rated \in Nat /\ book[c].modified \in Nat /\ entries[c].at \in Nat
  BY TitleFacts
<1>3. clock + 1 \in 0..MaxChanges /\ e \in EntryRow /\ e.at = clock + 1
  <2>1. clock + 1 \in 0..MaxChanges
    BY <1>1, <1>2
  <2>0. t \in TitleSet
    BY TitlesAssumption DEF TitleSet
  <2>2. QED
    BY <2>0, <2>1, RowFields
<1> HIDE DEF e
<1>4. \A c \in Titled : entries'[c] = IF c = b THEN e ELSE entries[c]
  BY <1>1, <1>2
<1>5. TitlesTyped'
  BY <1>1, <1>2, <1>3 DEF TitlesTyped
<1>6. PushesAreWhole' /\ OthersStay' /\ OtherStays'
  BY <1>1, <1>2 DEF PushesAreWhole, OthersStay, OtherStays
<1>7. TimesInOrder'
  BY <1>1, <1>2, <1>3, <1>4 DEF TimesInOrder
<1>8. ~mixed => OwnKept'
  BY <1>1, <1>2, <1>4 DEF OwnKept, OnePushes, PushesOurs, OwnChange, KnownUnchanged, ReadForAccept
<1>9. QED
  BY <1>1, <1>5, <1>6, <1>7, <1>8 DEF TitlesFit

\* A sync reads the library: every row has its entry's time.
LEMMA ReadRows ==
    ASSUME TitlesFit, T!Read
    PROVE  /\ book' \in [Titled -> BookRow]
           /\ \A b \in Titled : book'[b].modified = entries[b].at /\ book'[b].rated = book[b].rated
           /\ \A b \in Titled : book[b].rated <= entries[b].at /\ book[b].modified <= entries[b].at
<1>1. /\ TimesInOrder /\ book \in [Titled -> BookRow] /\ MaxChanges \in Nat
      /\ \A b \in Titled : /\ book[b] \in BookRow /\ entries[b] \in EntryRow
                           /\ book[b].rated \in Nat /\ book[b].modified \in Nat /\ entries[b].at \in Nat
  BY TitleFacts
<1> DEFINE tidy(b) == IF entries[b].title = "numbered" THEN "tidy" ELSE entries[b].title
           fix(b) == entries[b].title = "numbered"
           r(b) == [book[b] EXCEPT !.title = tidy(b), !.fix = fix(b), !.modified = entries[b].at]
<1>2. book' = [b \in Titled |-> r(b)]
  BY DEF T!Read
<1>3. ASSUME NEW b \in Titled
      PROVE  r(b) \in BookRow /\ r(b).modified = entries[b].at /\ r(b).rated = book[b].rated
  <2>1. tidy(b) \in TitleSet /\ fix(b) \in BOOLEAN /\ entries[b].at \in 0..MaxChanges /\ book[b] \in BookRow
    BY <1>1, RowFields DEF TitleSet
  <2> HIDE DEF tidy, fix
  <2>2. QED
    BY <2>1 DEF BookRow
<1> HIDE DEF r
<1>4. QED
  BY <1>1, <1>2, <1>3 DEF TimesInOrder

LEMMA SyncFits ==
    ASSUME TitlesFit, T!Sync
    PROVE  TitlesFit'
<1>1. /\ T!Read /\ UNCHANGED <<entries, theirs, served, push, clock, foreign, mixed, renamed, wrong>>
      /\ others' = IF T!Idle THEN others \cup {b \in foreign : book[b].modified < entries[b].at} ELSE others
  BY DEF T!Sync
<1>2. /\ TitlesTyped /\ PushesAreWhole /\ TimesInOrder /\ OthersStay /\ OtherStays
      /\ ~mixed => OnePushes /\ PushesOurs /\ OwnChange /\ KnownUnchanged /\ ReadForAccept
      /\ \A c \in Titled : book[c].rated \in Nat /\ book[c].modified \in Nat /\ entries[c].at \in Nat
  BY TitleFacts
<1>3. /\ book' \in [Titled -> BookRow]
      /\ \A b \in Titled : book'[b].modified = entries[b].at /\ book'[b].rated = book[b].rated
      /\ \A b \in Titled : book[b].rated <= entries[b].at /\ book[b].modified <= entries[b].at
  BY <1>1, ReadRows
<1>4. others' \subseteq Titled /\ foreign \subseteq Titled /\ others \subseteq Titled
  BY <1>1, <1>2 DEF TitlesTyped
<1>5. TitlesTyped'
  BY <1>1, <1>2, <1>3, <1>4 DEF TitlesTyped
<1>6. PushesAreWhole' /\ OtherStays'
  BY <1>1, <1>2 DEF PushesAreWhole, OtherStays
<1>7. TimesInOrder'
  BY <1>1, <1>2, <1>3 DEF TimesInOrder
<1>8. OthersStay'
  <2>1. ASSUME NEW b \in others'
        PROVE  book'[b].rated < book'[b].modified
    <3>1. b \in Titled /\ book[b].rated \in Nat /\ book[b].modified \in Nat /\ entries[b].at \in Nat
      BY <1>2, <1>4
    <3>2. CASE b \in others
      <4>1. book[b].rated < book[b].modified
        BY <1>2, <3>2 DEF OthersStay
      <4>2. QED
        BY <1>3, <3>1, <4>1
    <3>3. CASE b \notin others
      <4>1. book[b].modified < entries[b].at /\ book[b].rated <= book[b].modified
        BY <1>1, <1>2, <3>1, <3>3 DEF TimesInOrder
      <4>2. QED
        BY <1>3, <3>1, <4>1
    <3>4. QED
      BY <3>2, <3>3
  <2>2. \A a \in Pusher : NotOthers(push[a], others')
    BY <1>1, <1>2 DEF OthersStay, NotOthers, T!Idle
  <2>3. QED
    BY <1>1, <2>1, <2>2 DEF OthersStay
<1>9. ~mixed => OwnKept'
  <2>1. SUFFICES ASSUME ~mixed
                 PROVE  OwnKept'
    OBVIOUS
  <2>2. OnePushes' /\ PushesOurs' /\ KnownUnchanged'
    BY <1>1, <1>2, <2>1 DEF OnePushes, PushesOurs, KnownUnchanged
  <2>3. OwnChange'
    BY <1>1, <1>2, <1>3, <2>1 DEF OwnChange
  <2>4. ReadForAccept'
    BY <1>1, <1>3 DEF ReadForAccept
  <2>5. QED
    BY <2>2, <2>3, <2>4 DEF OwnKept
<1>10. QED
  BY <1>1, <1>5, <1>6, <1>7, <1>8, <1>9 DEF TitlesFit

LEMMA RateFits ==
    ASSUME TitlesFit, NEW b \in Titled, T!Rate(b)
    PROVE  TitlesFit'
<1> DEFINE r == [book[b] EXCEPT !.rated = book[b].modified]
<1>1. /\ book' = [book EXCEPT ![b] = r] /\ others' = others \ {b}
      /\ foreign' = (IF entries[b].at = book[b].modified THEN foreign \ {b} ELSE foreign)
      /\ mixed' = (mixed \/ \E a \in Pusher : b \in push[a].books)
      /\ UNCHANGED <<entries, theirs, served, push, clock, renamed, wrong>>
  <2>1. book \in [Titled -> BookRow]
    BY TitleFacts
  <2>2. QED
    BY <2>1 DEF T!Rate
<1>2. /\ TitlesTyped /\ PushesAreWhole /\ TimesInOrder /\ OthersStay /\ OtherStays
      /\ ~mixed => OnePushes /\ PushesOurs /\ OwnChange /\ KnownUnchanged /\ ReadForAccept
      /\ book \in [Titled -> BookRow] /\ book[b] \in BookRow
      /\ \A c \in Titled : book[c].rated \in Nat /\ book[c].modified \in Nat /\ entries[c].at \in Nat
  BY TitleFacts
<1>3. r \in BookRow /\ r.modified = book[b].modified /\ r.rated = book[b].modified
  BY <1>2 DEF BookRow
<1> HIDE DEF r
<1>4. \A c \in Titled : book'[c] = IF c = b THEN r ELSE book[c]
  BY <1>1, <1>2
<1>5. TitlesTyped'
  <2>1. mixed' \in BOOLEAN /\ book' \in [Titled -> BookRow] /\ foreign' \subseteq Titled /\ others' \subseteq Titled
    BY <1>1, <1>2, <1>3 DEF TitlesTyped
  <2>2. QED
    BY <1>1, <1>2, <2>1 DEF TitlesTyped
<1>6. PushesAreWhole' /\ OtherStays'
  BY <1>1, <1>2 DEF PushesAreWhole, OtherStays
<1>7. TimesInOrder'
  BY <1>1, <1>2, <1>3, <1>4 DEF TimesInOrder
<1>8. OthersStay'
  <2>1. \A c \in others' : book'[c].rated < book'[c].modified
    BY <1>1, <1>2, <1>4 DEF OthersStay, TitlesTyped
  <2>2. \A a \in Pusher : NotOthers(push[a], others')
    BY <1>1, <1>2 DEF OthersStay, NotOthers
  <2>3. QED
    BY <1>1, <2>1, <2>2 DEF OthersStay
<1>9. ASSUME ~mixed'
      PROVE  OwnKept'
  <2>1. ~mixed /\ \A a \in Pusher : b \notin push[a].books
    BY <1>1, <1>9
  <2>2. OnePushes' /\ PushesOurs'
    BY <1>1, <1>2, <2>1 DEF OnePushes, PushesOurs
  <2>3. OwnChange'
    <3>1. ASSUME NEW c \in Titled \ foreign'
          PROVE  entries[c].at <= book'[c].rated \/ \E a \in Pusher : Carries(push[a], c)
      <4>1. CASE c = b /\ entries[b].at = book[b].modified
        BY <1>2, <1>3, <1>4, <4>1
      <4>2. CASE c # b
        BY <1>1, <1>2, <1>4, <2>1, <3>1, <4>2 DEF OwnChange
      <4>3. CASE c = b /\ entries[b].at # book[b].modified
        <5>1. b \notin foreign
          BY <1>1, <3>1, <4>3
        <5>2. entries[b].at <= book[b].rated \/ \E a \in Pusher : Carries(push[a], b)
          BY <1>2, <2>1, <5>1 DEF OwnChange
        <5>3. book[b].rated <= book[b].modified /\ book[b].modified \in Nat /\ book[b].rated \in Nat /\ entries[b].at \in Nat
          BY <1>2 DEF TimesInOrder
        <5>4. entries[b].at <= book[b].rated => entries[b].at <= book[b].modified
          BY <5>3
        <5>5. QED
          BY <1>3, <1>4, <4>3, <5>2, <5>4
      <4>4. QED
        BY <4>1, <4>2, <4>3
    <3>2. QED
      BY <1>1, <3>1 DEF OwnChange
  <2>4. KnownUnchanged'
    <3>1. ASSUME NEW a \in Pusher, push[a].at \in {"set", "save"}, push[a].now \notin foreign'
          PROVE  push[a].unchanged
      <4>1. push[a].now \in push[a].books
        BY <1>2, <3>1 DEF PushesAreWhole, PushIsWhole
      <4>2. push[a].now \notin foreign
        BY <1>1, <2>1, <3>1, <4>1
      <4>3. QED
        BY <1>2, <2>1, <3>1, <4>2 DEF KnownUnchanged
    <3>2. QED
      BY <1>1, <3>1 DEF KnownUnchanged
  <2>5. ReadForAccept'
    <3>1. ASSUME NEW a \in Pusher, NEW c \in Titled, push[a].at = "accept", c \in push[a].accept \ foreign'
          PROVE  book'[c].modified = entries[c].at
      <4>1. c # b
        BY <1>2, <2>1, <3>1 DEF PushesAreWhole, PushIsWhole
      <4>2. c \notin foreign
        BY <1>1, <3>1, <4>1
      <4>3. QED
        BY <1>2, <1>4, <2>1, <3>1, <4>1, <4>2 DEF ReadForAccept
    <3>2. QED
      BY <1>1, <3>1 DEF ReadForAccept
  <2>6. QED
    BY <2>2, <2>3, <2>4, <2>5 DEF OwnKept
<1>10. QED
  BY <1>5, <1>6, <1>7, <1>8, <1>9 DEF TitlesFit

LEMMA BeginFits ==
    ASSUME TitlesFit, NEW a \in Pusher, NEW bs \in SUBSET Titled, NEW t \in TitleSet, T!Begin(a, bs, t)
    PROVE  TitlesFit'
<1> DEFINE w == [b \in Titled |-> book[b].title]
           q == Begun(served, bs, w, t)
<1>1. /\ push[a].at = "idle" /\ push' = [push EXCEPT ![a] = q] /\ mixed' = (mixed \/ ~T!Idle \/ served = "other")
      /\ UNCHANGED <<entries, theirs, served, book, clock, others, foreign, renamed, wrong>>
  BY DEF T!Begin, Begun
<1>2. /\ TitlesTyped /\ PushesAreWhole /\ TimesInOrder /\ OthersStay /\ OtherStays
      /\ ~mixed => OnePushes /\ PushesOurs /\ OwnChange /\ KnownUnchanged /\ ReadForAccept
      /\ push \in [Pusher -> PushState] /\ served \in {"same", "other"}
      /\ \A b \in Titled : book[b] \in BookRow
  BY TitleFacts DEF TitlesTyped
<1>3. w \in [Titled -> TitleSet]
  BY <1>2, RowFields
<1>4. /\ q \in PushState /\ q.at = "titles" /\ q.server = served /\ q.books = bs /\ q.left = bs
      /\ q.found = {} /\ q.accept = {}
  <2> HIDE DEF w, q
  <2>1. served \in {"same", "other"} /\ w \in [Titled -> TitleSet]
    BY <1>2, <1>3
  <2>2. /\ Begun(served, bs, w, t) \in PushState /\ Begun(served, bs, w, t).at = "titles"
        /\ Begun(served, bs, w, t).server = served /\ Begun(served, bs, w, t).books = bs
        /\ Begun(served, bs, w, t).left = bs /\ Begun(served, bs, w, t).found = {} /\ Begun(served, bs, w, t).accept = {}
    BY <2>1, NoPushFields DEF Begun, PushState, PushStep
  <2>3. QED
    BY <2>2 DEF q
<1> HIDE DEF q
<1>5. \A c \in Pusher : push'[c] = IF c = a THEN q ELSE push[c]
  BY <1>1, <1>2
<1>6. TitlesTyped'
  <2>1. mixed' \in BOOLEAN /\ push' \in [Pusher -> PushState]
    BY <1>1, <1>2, <1>4 DEF TitlesTyped
  <2>2. QED
    BY <1>1, <1>2, <2>1 DEF TitlesTyped
<1>7. PushIsWhole(q) /\ NotOthers(q, others) /\ ComparedFits(q, theirs, renamed)
  BY <1>4 DEF PushIsWhole, NotOthers, ComparedFits
<1>8. PushesAreWhole' /\ OthersStay' /\ OtherStays'
  BY <1>1, <1>2, <1>5, <1>7 DEF PushesAreWhole, OthersStay, OtherStays
<1>9. TimesInOrder'
  BY <1>1, <1>2 DEF TimesInOrder
<1>10. ASSUME ~mixed'
       PROVE  OwnKept'
  <2>1. ~mixed /\ served = "same" /\ \A c \in Pusher : push[c].at = "idle"
    BY <1>1, <1>2, <1>10 DEF T!Idle
  <2>2. \A c \in Pusher : push'[c].at \in {"idle", "titles"} /\ (push'[c].at = "titles" => c = a)
    BY <1>4, <1>5, <2>1
  <2>3. \A b \in Titled \ foreign : entries[b].at <= book[b].rated
    BY <1>2, <2>1 DEF OwnChange, Carries
  <2>4. OnePushes' /\ PushesOurs'
    BY <1>4, <1>5, <2>1 DEF OnePushes, PushesOurs
  <2>5. OwnChange' /\ KnownUnchanged' /\ ReadForAccept'
    BY <1>1, <2>2, <2>3 DEF OwnChange, KnownUnchanged, ReadForAccept
  <2>6. QED
    BY <2>4, <2>5 DEF OwnKept
<1>11. QED
  BY <1>6, <1>8, <1>9, <1>10 DEF TitlesFit

\* The titles are compared; nothing is changed unless all fit.
LEMMA CompareFits ==
    ASSUME TitlesFit, NEW a \in Pusher, NEW ok \in BOOLEAN, T!Titles(a, ok)
    PROVE  TitlesFit'
<1> DEFINE p == push[a]
           bs == {b \in p.books : T!Have(a, b) # "gone"}
<1>1. /\ p.at = "titles" /\ UNCHANGED <<entries, theirs, served, book, clock, others, foreign, mixed, renamed, wrong>>
      /\ push \in [Pusher -> PushState] /\ p \in PushState /\ PushIsWhole(p) /\ mixed \in BOOLEAN
  BY TitleFacts DEF T!Titles, TitlesTyped
<1>2. push' = IF ok /\ T!Fit(a) THEN [push EXCEPT ![a] = Finds(p, bs)] ELSE [push EXCEPT ![a] = T!NoPush]
  BY <1>1 DEF T!Titles, Finds
<1>3. ASSUME NEW b \in Titled
      PROVE  ~Carries(p, b)
  BY <1>1 DEF Carries, PushIsWhole
<1>4. CASE ok /\ T!Fit(a)
  <2> DEFINE q == Finds(p, bs)
  <2>1. bs \in SUBSET Titled /\ bs \subseteq p.books
    BY <1>1, PushFields
  <2>2. /\ q \in PushState /\ q.at = "next" /\ q.server = p.server /\ q.books = p.books /\ q.want = p.want
        /\ q.left = p.left /\ q.found = bs /\ q.accept = p.accept
    <3> HIDE DEF bs, p
    <3>1. QED
      BY <1>1, <2>1, FindsFields
  <2>3. PushIsWhole(q) /\ NotOthers(q, others)
    <3> HIDE DEF bs, p, q
    <3>1. QED
      BY <1>1, <2>1, <2>2 DEF PushIsWhole, NotOthers
  <2>4. ComparedFits(q, theirs, renamed)
    <3>1. ASSUME NEW c \in bs, q.server = "other"
          PROVE  T!NormKey(theirs[c]) = T!NormKey(p.want[c])
      <4>1. T!Fits(a, c) /\ T!Have(a, c) = theirs[c] /\ theirs[c] # "gone"
        BY <1>4, <2>2, <3>1 DEF T!Fit, T!Have
      <4>2. QED
        BY <4>1 DEF T!Fits
    <3> HIDE DEF bs, p, q
    <3>2. QED
      BY <2>2, <3>1 DEF ComparedFits
  <2>5. push' = [push EXCEPT ![a] = q]
    BY <1>2, <1>4
  <2> HIDE DEF q, bs
  <2>6. QED
    BY <1>1, <1>3, <2>2, <2>3, <2>4, <2>5, PushMoves
<1>5. CASE ~(ok /\ T!Fit(a))
  <2>1. push' = [push EXCEPT ![a] = T!NoPush]
    BY <1>2, <1>5
  <2>2. PushIsWhole(T!NoPush) /\ NotOthers(T!NoPush, others) /\ ComparedFits(T!NoPush, theirs, renamed)
    BY NoPushFields DEF PushIsWhole, NotOthers, ComparedFits
  <2>3. QED
    BY <1>1, <1>3, <2>1, <2>2, NoPushFields, PushMoves
<1>6. QED
  BY <1>4, <1>5

\* The next book: whether it had changed is read before our own change.
LEMMA NextFits ==
    ASSUME TitlesFit, NEW a \in Pusher, NEW b \in Titled, T!NextBook(a, b)
    PROVE  TitlesFit'
<1> DEFINE p == push[a]
           u == T!Unchanged(b)
           v == IF b \in p.found THEN "set" ELSE "next"
           q == Takes(p, b, u, v)
<1>1. /\ p.at = "next" /\ b \in p.left /\ push' = [push EXCEPT ![a] = q]
      /\ UNCHANGED <<entries, theirs, served, book, clock, others, foreign, mixed, renamed, wrong>>
  BY DEF T!NextBook, Takes
<1>2. /\ TitlesTyped /\ TimesInOrder /\ OthersStay
      /\ ~mixed => OnePushes /\ PushesOurs /\ OwnChange /\ KnownUnchanged /\ ReadForAccept
      /\ p \in PushState /\ PushIsWhole(p) /\ NotOthers(p, others) /\ ComparedFits(p, theirs, renamed)
      /\ book[b].rated \in Nat /\ book[b].modified \in Nat /\ entries[b].at \in Nat
  BY TitleFacts
<1>3. u \in BOOLEAN /\ v \in PushStep /\ v \in {"set", "next"} /\ (u <=> ~(book[b].rated < book[b].modified))
  BY DEF PushStep, T!Unchanged, T!Changed
<1> HIDE DEF u, v
<1>4. /\ q \in PushState /\ q.at = v /\ q.server = p.server /\ q.books = p.books /\ q.want = p.want
      /\ q.left = p.left \ {b} /\ q.found = p.found /\ q.now = b /\ q.unchanged = u /\ q.accept = p.accept
  <2> HIDE DEF p
  <2>1. QED
    BY <1>2, <1>3, TakesFields
<1> HIDE DEF q
<1>5. PushIsWhole(q)
  BY <1>1, <1>2, <1>3, <1>4 DEF PushIsWhole
<1>6. NotOthers(q, others)
  BY <1>1, <1>2, <1>3, <1>4 DEF NotOthers, OthersStay
<1>7. ComparedFits(q, theirs, renamed)
  BY <1>1, <1>2, <1>3, <1>4 DEF ComparedFits
<1>8. ASSUME ~mixed, b \notin foreign
      PROVE  u
  <2>1. entries[b].at <= book[b].rated \/ \E c \in Pusher : Carries(push[c], b)
    BY <1>2, <1>8 DEF OwnChange
  <2>2. ASSUME NEW c \in Pusher, Carries(push[c], b)
        PROVE  FALSE
    <3>1. c = a
      BY <1>1, <1>2, <1>8, <2>2 DEF OnePushes, Carries
    <3>2. QED
      BY <1>1, <1>2, <2>2, <3>1 DEF Carries, PushIsWhole
  <2>3. QED
    BY <1>2, <1>3, <2>1, <2>2 DEF TimesInOrder
<1>9. \A c \in Titled \ foreign : Carries(p, c) => Carries(q, c)
  BY <1>1, <1>3, <1>4 DEF Carries
<1>10. mixed' \in BOOLEAN /\ p.at # "idle"
  BY <1>1, <1>2 DEF TitlesTyped
<1>11. ~mixed' =>
           /\ ~mixed
           /\ q.server = push[a].server \/ q.at = "idle"
           /\ q.at \notin {"accept"}
           /\ q.at \in {"set", "save"} /\ q.now \notin foreign => q.unchanged
           /\ \A c \in Titled \ foreign : Carries(push[a], c) => Carries(q, c) \/ entries[c].at <= book[c].rated
  BY <1>1, <1>3, <1>4, <1>8, <1>9
<1>12. QED
  BY <1>1, <1>4, <1>5, <1>6, <1>7, <1>10, <1>11, PushMoves

\* A push that has a book to write holds it as its own.
LEMMA SetFits ==
    ASSUME TitlesFit, NEW a \in Pusher, T!SetMetadata(a)
    PROVE  TitlesFit'
<1> DEFINE p == push[a]
           b == p.now
           q == Goes(p, "save")
           e == [title |-> p.title, at |-> clock + 1]
<1>1. /\ p.at = "set" /\ push' = [push EXCEPT ![a] = q] /\ UNCHANGED <<served, book, others, foreign, mixed>>
      /\ p.server = "same" => /\ clock < MaxChanges /\ clock' = clock + 1 /\ entries' = [entries EXCEPT ![b] = e]
                              /\ UNCHANGED <<theirs, renamed, wrong>>
      /\ p.server # "same" => /\ theirs' = [theirs EXCEPT ![b] = p.title]
                              /\ wrong' = (wrong \/ \E c \in p.found \ renamed : T!NormKey(theirs[c]) # T!NormKey(p.want[c]))
                              /\ renamed' = renamed \cup {b}
                              /\ UNCHANGED <<entries, clock>>
  BY DEF T!SetMetadata, Goes
<1>2. /\ TitlesTyped /\ PushesAreWhole /\ TimesInOrder /\ OthersStay /\ OtherStays
      /\ ~mixed => OnePushes /\ PushesOurs /\ OwnChange /\ KnownUnchanged /\ ReadForAccept
      /\ entries \in [Titled -> EntryRow] /\ push \in [Pusher -> PushState] /\ clock \in Nat /\ MaxChanges \in Nat
      /\ p \in PushState /\ PushIsWhole(p) /\ NotOthers(p, others) /\ ComparedFits(p, theirs, renamed)
      /\ \A c \in Titled : book[c].rated \in Nat /\ book[c].modified \in Nat /\ entries[c].at \in Nat
  BY TitleFacts
<1>3. b \in p.books /\ b \in Titled /\ b \notin p.left /\ p.title \in TitleSet /\ p.server \in {"same", "other"}
  BY <1>1, <1>2, PushFields DEF PushIsWhole
<1>4. /\ q \in PushState /\ q.at = "save" /\ q.server = p.server /\ q.books = p.books /\ q.want = p.want
      /\ q.left = p.left /\ q.found = p.found /\ q.now = b /\ q.unchanged = p.unchanged /\ q.accept = p.accept
  <2>1. "save" \in PushStep
    BY DEF PushStep
  <2> HIDE DEF p
  <2>2. QED
    BY <1>2, <2>1, GoesFields
<1> HIDE DEF q, b
<1>5. \A c \in Pusher : push'[c] = IF c = a THEN q ELSE push[c]
  BY <1>1, <1>2
<1>6. PushIsWhole(q) /\ NotOthers(q, others)
  BY <1>1, <1>2, <1>3, <1>4 DEF PushIsWhole, NotOthers, b
<1>7. PushesAreWhole' /\ OthersStay'
  BY <1>1, <1>2, <1>5, <1>6 DEF PushesAreWhole, OthersStay
<1>8. push' \in [Pusher -> PushState]
  BY <1>1, <1>2, <1>4
<1>9. CASE p.server = "same"
  <2>1. clock + 1 \in 0..MaxChanges /\ e \in EntryRow /\ e.at = clock + 1
    <3>1. clock + 1 \in 0..MaxChanges
      BY <1>1, <1>2, <1>9
    <3>2. QED
      BY <1>3, <3>1, RowFields
  <2> HIDE DEF e
  <2>2. \A c \in Titled : entries'[c] = IF c = b THEN e ELSE entries[c]
    BY <1>1, <1>2, <1>9
  <2>3. TitlesTyped'
    <3>1. entries' \in [Titled -> EntryRow] /\ clock' \in 0..MaxChanges
      BY <1>1, <1>2, <1>9, <2>1
    <3>2. QED
      BY <1>1, <1>2, <1>8, <1>9, <3>1 DEF TitlesTyped
  <2>4. TimesInOrder'
    BY <1>1, <1>2, <1>9, <2>1, <2>2 DEF TimesInOrder
  <2>5. OtherStays'
    <3>1. ComparedFits(q, theirs, renamed)
      BY <1>4, <1>9 DEF ComparedFits
    <3>2. QED
      BY <1>1, <1>2, <1>5, <1>9, <3>1 DEF OtherStays
  <2>6. ASSUME ~mixed
        PROVE  OwnKept'
    <3>1. OnePushes /\ PushesOurs /\ OwnChange /\ KnownUnchanged /\ ReadForAccept
      BY <1>2, <2>6
    <3>2. OnePushes' /\ PushesOurs'
      BY <1>1, <1>4, <1>5, <3>1 DEF OnePushes, PushesOurs
    <3>3. OwnChange'
      <4>1. ASSUME NEW c \in Titled \ foreign
            PROVE  entries'[c].at <= book[c].rated \/ \E d \in Pusher : Carries(push'[d], c)
        <5>1. CASE c = b
          <6>1. p.unchanged
            BY <1>1, <3>1, <4>1, <5>1 DEF KnownUnchanged, b
          <6>2. Carries(q, c)
            BY <1>4, <5>1, <6>1 DEF Carries
          <6>3. QED
            BY <1>5, <6>2
        <5>2. CASE c # b
          <6>1. entries[c].at <= book[c].rated \/ \E d \in Pusher : Carries(push[d], c)
            BY <3>1, <4>1 DEF OwnChange
          <6>2. \A d \in Pusher : Carries(push[d], c) => Carries(push'[d], c)
            BY <1>1, <1>4, <1>5 DEF Carries
          <6>3. QED
            BY <2>2, <4>1, <5>2, <6>1, <6>2
        <5>3. QED
          BY <5>1, <5>2
      <4>2. QED
        BY <1>1, <4>1 DEF OwnChange
    <3>4. KnownUnchanged'
      BY <1>1, <1>4, <1>5, <3>1 DEF KnownUnchanged, b
    <3>5. ReadForAccept'
      <4>1. \A d \in Pusher : push'[d].at # "accept"
        BY <1>1, <1>4, <1>5, <3>1 DEF OnePushes
      <4>2. QED
        BY <4>1 DEF ReadForAccept
    <3>6. QED
      BY <3>2, <3>3, <3>4, <3>5 DEF OwnKept
  <2>7. QED
    BY <1>1, <1>7, <2>3, <2>4, <2>5, <2>6 DEF TitlesFit
<1>10. CASE p.server = "other"
  <2>1. ~wrong' /\ wrong' \in BOOLEAN
    BY <1>1, <1>2, <1>10 DEF OtherStays, ComparedFits
  <2>2. /\ theirs \in [Titled -> TitleSet \cup {"gone"}] /\ theirs' = [theirs EXCEPT ![b] = p.title]
        /\ renamed' = renamed \cup {b} /\ renamed \subseteq Titled /\ UNCHANGED <<entries, clock>>
    BY <1>1, <1>2, <1>10 DEF TitlesTyped
  <2>3. theirs' \in [Titled -> TitleSet \cup {"gone"}] /\ \A c \in Titled : c # b => theirs'[c] = theirs[c]
    BY <1>3, <2>2
  <2>4. TitlesTyped'
    BY <1>1, <1>2, <1>3, <1>8, <2>1, <2>2, <2>3 DEF TitlesTyped
  <2>5. TimesInOrder'
    BY <1>1, <1>2, <2>2 DEF TimesInOrder
  <2>6. OtherStays'
    <3>1. ASSUME NEW d \in PushState, ComparedFits(d, theirs, renamed)
          PROVE  ComparedFits(d, theirs', renamed')
      BY <2>2, <2>3, <3>1, PushFields DEF ComparedFits
    <3>2. ComparedFits(q, theirs, renamed)
      BY <1>1, <1>2, <1>4 DEF ComparedFits
    <3>3. ASSUME NEW d \in Pusher
          PROVE  ComparedFits(push'[d], theirs', renamed')
      <4>1. push'[d] \in PushState /\ ComparedFits(push'[d], theirs, renamed)
        BY <1>2, <1>4, <1>5, <3>2 DEF OtherStays
      <4>2. QED
        BY <3>1, <4>1
    <3>4. QED
      BY <2>1, <3>3 DEF OtherStays
  <2>7. mixed
    BY <1>1, <1>2, <1>10 DEF PushesOurs
  <2>8. QED
    BY <1>1, <1>7, <2>4, <2>5, <2>6, <2>7 DEF TitlesFit
<1>11. QED
  BY <1>3, <1>9, <1>10

LEMMA SavedFits ==
    ASSUME TitlesFit, NEW a \in Pusher, T!SavedToCalibre(a)
    PROVE  TitlesFit'
<1> DEFINE p == push[a]
           b == p.now
           bs == IF p.unchanged THEN p.accept \cup {b} ELSE p.accept
           q == Notes(p, bs)
           r == [book[b] EXCEPT !.title = p.title, !.fix = FALSE]
<1>1. /\ p.at = "save" /\ push' = [push EXCEPT ![a] = q] /\ book' = [book EXCEPT ![b] = r]
      /\ UNCHANGED <<entries, theirs, served, clock, others, foreign, mixed, renamed, wrong>>
  BY DEF T!SavedToCalibre, Notes
<1>2. /\ TitlesTyped /\ book \in [Titled -> BookRow]
      /\ p \in PushState /\ PushIsWhole(p) /\ NotOthers(p, others) /\ ComparedFits(p, theirs, renamed)
  BY TitleFacts
<1>3. /\ b \in p.books /\ b \in Titled /\ b \notin p.left /\ p.title \in TitleSet /\ p.accept \subseteq Titled
      /\ book[b] \in BookRow
  BY <1>1, <1>2, PushFields DEF PushIsWhole
<1>4. r \in BookRow /\ r.modified = book[b].modified /\ r.rated = book[b].rated
  <2>1. FALSE \in BOOLEAN
    OBVIOUS
  <2> HIDE DEF p, b
  <2>2. QED
    BY <1>3, <2>1 DEF BookRow
<1>5. bs \in SUBSET Titled
  BY <1>3
<1>6. /\ q \in PushState /\ q.at = "next" /\ q.server = p.server /\ q.books = p.books /\ q.want = p.want
      /\ q.left = p.left /\ q.found = p.found /\ q.accept = bs
  <2> HIDE DEF p, bs
  <2>1. QED
    BY <1>2, <1>5, NotesFields
<1> HIDE DEF q, r
<1>7. /\ book' \in [Titled -> BookRow]
      /\ \A c \in Titled : book'[c].modified = book[c].modified /\ book'[c].rated = book[c].rated
  BY <1>1, <1>2, <1>3, <1>4
<1>8. PushIsWhole(q)
  BY <1>2, <1>3, <1>6 DEF PushIsWhole
<1>9. NotOthers(q, others)
  BY <1>1, <1>2, <1>6 DEF NotOthers
<1>10. ComparedFits(q, theirs, renamed)
  BY <1>1, <1>2, <1>6 DEF ComparedFits
<1>11. \A c \in Titled \ foreign : Carries(p, c) => Carries(q, c)
  BY <1>1, <1>6 DEF Carries
<1>12. mixed' \in BOOLEAN /\ p.at # "idle"
  BY <1>1, <1>2 DEF TitlesTyped
<1>13. ~mixed' =>
           /\ ~mixed
           /\ q.server = push[a].server \/ q.at = "idle"
           /\ q.at \notin {"accept"}
           /\ q.at \in {"set", "save"} /\ q.now \notin foreign => q.unchanged
           /\ \A c \in Titled \ foreign : Carries(push[a], c) => Carries(q, c) \/ entries[c].at <= book[c].rated
  BY <1>1, <1>6, <1>11
<1>14. QED
  BY <1>1, <1>6, <1>7, <1>8, <1>9, <1>10, <1>12, <1>13, PushSaves

LEMMA FailFits ==
    ASSUME TitlesFit, NEW a \in Pusher, T!Fails(a)
    PROVE  TitlesFit'
<1>1. /\ push[a].at # "idle" /\ push' = [push EXCEPT ![a] = T!NoPush] /\ mixed'
      /\ UNCHANGED <<entries, theirs, served, book, clock, others, foreign, renamed, wrong>> /\ mixed' \in BOOLEAN
  BY DEF T!Fails
<1>2. PushIsWhole(T!NoPush) /\ NotOthers(T!NoPush, others) /\ ComparedFits(T!NoPush, theirs, renamed)
  BY NoPushFields DEF PushIsWhole, NotOthers, ComparedFits
<1>3. QED
  BY <1>1, <1>2, NoPushFields, PushMoves

\* The library is read again: every row has its entry's time.
LEMMA AgainFits ==
    ASSUME TitlesFit, NEW a \in Pusher, T!ReadAgain(a)
    PROVE  TitlesFit'
<1> DEFINE p == push[a]
           q == Goes(p, "accept")
<1>1. /\ p.at = "next" /\ T!Read /\ push' = [push EXCEPT ![a] = q]
      /\ UNCHANGED <<entries, theirs, served, clock, others, foreign, mixed, renamed, wrong>>
  BY DEF T!ReadAgain, Goes
<1>2. /\ TitlesTyped /\ PushesAreWhole /\ TimesInOrder /\ OthersStay /\ OtherStays
      /\ ~mixed => OnePushes /\ PushesOurs /\ OwnChange /\ KnownUnchanged /\ ReadForAccept
      /\ push \in [Pusher -> PushState] /\ p \in PushState /\ PushIsWhole(p) /\ NotOthers(p, others)
      /\ \A c \in Titled : book[c].rated \in Nat /\ book[c].modified \in Nat /\ entries[c].at \in Nat
      /\ others \subseteq Titled
  BY TitleFacts DEF TitlesTyped
<1>3. /\ book' \in [Titled -> BookRow]
      /\ \A b \in Titled : book'[b].modified = entries[b].at /\ book'[b].rated = book[b].rated
      /\ \A b \in Titled : book[b].rated <= entries[b].at /\ book[b].modified <= entries[b].at
  BY <1>1, ReadRows
<1>4. /\ q \in PushState /\ q.at = "accept" /\ q.server = p.server /\ q.books = p.books
      /\ q.left = p.left /\ q.found = p.found /\ q.accept = p.accept
  <2>1. "accept" \in PushStep
    BY DEF PushStep
  <2> HIDE DEF p
  <2>2. QED
    BY <1>2, <2>1, GoesFields
<1> HIDE DEF q
<1>5. \A c \in Pusher : push'[c] = IF c = a THEN q ELSE push[c]
  BY <1>1, <1>2
<1>6. PushIsWhole(q) /\ NotOthers(q, others) /\ ComparedFits(q, theirs, renamed)
  BY <1>1, <1>2, <1>4 DEF PushIsWhole, NotOthers, ComparedFits
<1>7. TitlesTyped'
  <2>1. push' \in [Pusher -> PushState]
    BY <1>1, <1>2, <1>4
  <2>2. QED
    BY <1>1, <1>2, <1>3, <2>1 DEF TitlesTyped
<1>8. PushesAreWhole' /\ OtherStays'
  BY <1>1, <1>2, <1>5, <1>6 DEF PushesAreWhole, OtherStays
<1>9. TimesInOrder'
  BY <1>1, <1>2, <1>3 DEF TimesInOrder
<1>10. OthersStay'
  <2>1. ASSUME NEW b \in others
        PROVE  book'[b].rated < book'[b].modified
    BY <1>2, <1>3, <2>1 DEF OthersStay
  <2>2. QED
    BY <1>1, <1>2, <1>5, <1>6, <2>1 DEF OthersStay
<1>11. ASSUME ~mixed
       PROVE  OwnKept'
  <2>1. OnePushes /\ PushesOurs /\ OwnChange /\ KnownUnchanged /\ ReadForAccept
    BY <1>2, <1>11
  <2>2. OnePushes' /\ PushesOurs'
    BY <1>1, <1>4, <1>5, <2>1 DEF OnePushes, PushesOurs
  <2>3. OwnChange'
    <3>1. \A c \in Titled, d \in Pusher : Carries(push[d], c) => Carries(push'[d], c)
      BY <1>1, <1>4, <1>5 DEF Carries
    <3>2. QED
      BY <1>1, <1>3, <2>1, <3>1 DEF OwnChange
  <2>4. KnownUnchanged'
    BY <1>1, <1>4, <1>5, <2>1 DEF KnownUnchanged
  <2>5. ReadForAccept'
    BY <1>1, <1>3 DEF ReadForAccept
  <2>6. QED
    BY <2>2, <2>3, <2>4, <2>5 DEF OwnKept
<1>12. QED
  BY <1>1, <1>7, <1>8, <1>9, <1>10, <1>11 DEF TitlesFit

\* The ratings of the books only we changed are moved up.
LEMMA AcceptFits ==
    ASSUME TitlesFit, NEW a \in Pusher, T!AcceptModified(a)
    PROVE  TitlesFit'
<1> DEFINE p == push[a]
           r(b) == [book[b] EXCEPT !.rated = book[b].modified]
<1>1. /\ p.at = "accept" /\ push' = [push EXCEPT ![a] = T!NoPush]
      /\ book' = [b \in Titled |-> IF b \in p.accept THEN r(b) ELSE book[b]]
      /\ UNCHANGED <<entries, theirs, served, clock, others, foreign, mixed, renamed, wrong>>
  BY DEF T!AcceptModified, T!Current
<1>2. /\ TitlesTyped /\ PushesAreWhole /\ TimesInOrder /\ OthersStay /\ OtherStays
      /\ ~mixed => OnePushes /\ PushesOurs /\ OwnChange /\ KnownUnchanged /\ ReadForAccept
      /\ push \in [Pusher -> PushState] /\ p \in PushState /\ PushIsWhole(p) /\ NotOthers(p, others)
      /\ \A c \in Titled : book[c] \in BookRow /\ book[c].rated \in Nat /\ book[c].modified \in Nat /\ entries[c].at \in Nat
      /\ others \subseteq Titled
  BY TitleFacts DEF TitlesTyped
<1>3. ASSUME NEW b \in Titled
      PROVE  r(b) \in BookRow /\ r(b).modified = book[b].modified /\ r(b).rated = book[b].modified
  BY <1>2 DEF BookRow
<1> HIDE DEF r
<1>4. /\ book' \in [Titled -> BookRow]
      /\ \A b \in Titled : /\ book'[b].modified = book[b].modified
                           /\ book'[b].rated = IF b \in p.accept THEN book[b].modified ELSE book[b].rated
  BY <1>1, <1>2, <1>3
<1>5. \A c \in Pusher : push'[c] = IF c = a THEN T!NoPush ELSE push[c]
  BY <1>1, <1>2
<1>6. PushIsWhole(T!NoPush) /\ NotOthers(T!NoPush, others) /\ ComparedFits(T!NoPush, theirs, renamed)
  BY NoPushFields DEF PushIsWhole, NotOthers, ComparedFits
<1>7. TitlesTyped'
  <2>1. push' \in [Pusher -> PushState]
    BY <1>1, <1>2, NoPushFields
  <2>2. QED
    BY <1>1, <1>2, <1>4, <2>1 DEF TitlesTyped
<1>8. PushesAreWhole' /\ OtherStays'
  BY <1>1, <1>2, <1>5, <1>6 DEF PushesAreWhole, OtherStays
<1>9. TimesInOrder'
  <2>1. ASSUME NEW b \in Titled
        PROVE  book'[b].rated <= book'[b].modified
    BY <1>2, <1>4 DEF TimesInOrder
  <2>2. QED
    BY <1>1, <1>2, <1>4, <2>1 DEF TimesInOrder
<1>10. OthersStay'
  <2>1. ASSUME NEW b \in others
        PROVE  book'[b].rated < book'[b].modified
    <3>1. b \notin p.accept
      BY <1>1, <1>2 DEF NotOthers
    <3>2. QED
      BY <1>2, <1>4, <3>1 DEF OthersStay
  <2>2. QED
    BY <1>1, <1>2, <1>5, <1>6, <2>1 DEF OthersStay
<1>11. ASSUME ~mixed
       PROVE  OwnKept'
  <2>1. OnePushes /\ PushesOurs /\ OwnChange /\ KnownUnchanged /\ ReadForAccept
    BY <1>2, <1>11
  <2>2. \A d \in Pusher : push'[d].at = "idle"
    BY <1>1, <1>5, <2>1, NoPushFields DEF OnePushes
  <2>3. OnePushes' /\ PushesOurs' /\ KnownUnchanged' /\ ReadForAccept'
    BY <2>2 DEF OnePushes, PushesOurs, KnownUnchanged, ReadForAccept
  <2>4. ASSUME NEW c \in Titled \ foreign
        PROVE  entries[c].at <= book'[c].rated
    <3>1. CASE entries[c].at <= book[c].rated
      BY <1>2, <1>4, <3>1 DEF TimesInOrder
    <3>2. CASE \E d \in Pusher : Carries(push[d], c)
      <4>1. Carries(p, c)
        BY <1>1, <2>1, <3>2 DEF OnePushes, Carries
      <4>2. c \in p.accept
        BY <1>1, <4>1 DEF Carries
      <4>3. book[c].modified = entries[c].at
        BY <1>1, <2>1, <2>4, <4>2 DEF ReadForAccept
      <4>4. QED
        BY <1>2, <1>4, <4>2, <4>3
    <3>3. QED
      BY <2>1, <2>4, <3>1, <3>2 DEF OwnChange
  <2>5. OwnChange'
    BY <1>1, <2>4 DEF OwnChange
  <2>6. QED
    BY <2>3, <2>5 DEF OwnKept
<1>12. QED
  BY <1>1, <1>7, <1>8, <1>9, <1>10, <1>11 DEF TitlesFit

LEMMA TitlesBegin ==
    T!Init => TitlesFit
<1> SUFFICES ASSUME T!Init
             PROVE  TitlesFit
  OBVIOUS
<1> DEFINE e == [title |-> "numbered", at |-> 0]
           r == [title |-> "tidy", fix |-> TRUE, modified |-> 0, rated |-> 0]
<1>1. /\ entries = [b \in Titled |-> e] /\ theirs \in [Titled -> Theirs] /\ served = "same" /\ book = [b \in Titled |-> r]
      /\ push = [a \in Pusher |-> T!NoPush] /\ clock = 0 /\ others = {} /\ foreign = {} /\ mixed = FALSE /\ renamed = {}
      /\ wrong = FALSE
  BY DEF T!Init
<1>2. e \in EntryRow /\ e.at = 0 /\ r \in BookRow /\ r.modified = 0 /\ r.rated = 0 /\ 0 \in 0..MaxChanges
  <2>1. 0 \in 0..MaxChanges /\ TRUE \in BOOLEAN
    BY TitlesAssumption
  <2>2. QED
    BY <2>1 DEF EntryRow, BookRow, TitleSet
<1> HIDE DEF e, r
<1>3. theirs \in [Titled -> TitleSet \cup {"gone"}]
  BY <1>1, TitlesAssumption DEF TitleSet
<1>4. \A a \in Pusher : push[a] = T!NoPush
  BY <1>1
<1>5. TitlesTyped
  <2>1. push \in [Pusher -> PushState] /\ mixed \in BOOLEAN /\ wrong \in BOOLEAN
    BY <1>1, NoPushFields
  <2>2. entries \in [Titled -> EntryRow] /\ book \in [Titled -> BookRow]
    BY <1>1, <1>2
  <2>3. QED
    BY <1>1, <1>2, <1>3, <2>1, <2>2 DEF TitlesTyped
<1>6. PushesAreWhole
  BY <1>4, NoPushFields DEF PushesAreWhole, PushIsWhole
<1>7. TimesInOrder
  BY <1>1, <1>2 DEF TimesInOrder
<1>8. OthersStay /\ OtherStays
  BY <1>1, <1>4, NoPushFields DEF OthersStay, OtherStays, NotOthers, ComparedFits
<1>9. OwnKept
  BY <1>1, <1>2, <1>4, NoPushFields DEF OwnKept, OnePushes, PushesOurs, OwnChange, KnownUnchanged, ReadForAccept
<1>10. QED
  BY <1>5, <1>6, <1>7, <1>8, <1>9 DEF TitlesFit

LEMMA TitlesGoOn ==
    TitlesFit /\ [T!Next]_titleVars => TitlesFit'
<1> SUFFICES ASSUME TitlesFit, [T!Next]_titleVars
             PROVE  TitlesFit'
  OBVIOUS
<1>1. ASSUME NEW b \in Titled, T!Rate(b)
      PROVE  TitlesFit'
  BY <1>1, RateFits
<1>2. ASSUME NEW b \in Titled, NEW t \in Typed, T!CalibreEdit(b, t)
      PROVE  TitlesFit'
  BY <1>2, EditFits
<1>3. ASSUME T!Sync
      PROVE  TitlesFit'
  BY <1>3, SyncFits
<1>4. ASSUME UNCHANGED <<entries, theirs, book, push, clock, others, foreign, mixed, renamed, wrong>>,
             served' \in {"same", "other"}
      PROVE  TitlesFit'
  BY <1>4 DEF TitlesFit, TitlesTyped, PushesAreWhole, TimesInOrder, OthersStay, OtherStays, OwnKept, OnePushes,
              PushesOurs, OwnChange, KnownUnchanged, ReadForAccept
<1>5. ASSUME NEW l \in T!Server, T!SaveServer(l)
      PROVE  TitlesFit'
  BY <1>4, <1>5 DEF T!SaveServer, T!Server
<1>6. ASSUME NEW a \in Pusher, NEW bs \in SUBSET Titled, T!FixTitles(a, bs)
      PROVE  TitlesFit'
  <2>1. T!Begin(a, bs, "tidy") /\ "tidy" \in TitleSet
    BY <1>6 DEF T!FixTitles, TitleSet
  <2>2. QED
    BY <2>1, BeginFits
<1>7. ASSUME NEW a \in Pusher, NEW b \in Titled, NEW t \in Typed, T!SaveCalibreTitle(a, b, t)
      PROVE  TitlesFit'
  <2>1. T!Begin(a, {b}, t) /\ t \in TitleSet /\ {b} \in SUBSET Titled
    BY <1>7, TitlesAssumption DEF T!SaveCalibreTitle, TitleSet
  <2>2. QED
    BY <2>1, BeginFits
<1>8. ASSUME NEW a \in Pusher, NEW ok \in BOOLEAN, T!Titles(a, ok)
      PROVE  TitlesFit'
  BY <1>8, CompareFits
<1>9. ASSUME NEW a \in Pusher, NEW b \in Titled, T!NextBook(a, b)
      PROVE  TitlesFit'
  BY <1>9, NextFits
<1>10. ASSUME NEW a \in Pusher, \/ T!SetMetadata(a) \/ T!SavedToCalibre(a) \/ T!Fails(a)
                                \/ T!ReadAgain(a) \/ T!AcceptModified(a)
       PROVE  TitlesFit'
  BY <1>10, SetFits, SavedFits, FailFits, AgainFits, AcceptFits
<1>11. CASE UNCHANGED titleVars
  <2>1. served \in {"same", "other"}
    BY DEF TitlesFit, TitlesTyped
  <2>2. QED
    BY <1>4, <1>11, <2>1 DEF titleVars
<1>12. QED
  BY <1>1, <1>2, <1>3, <1>5, <1>6, <1>7, <1>8, <1>9, <1>10, <1>11 DEF T!Next

LEMMA TitlesHold ==
    TitlesFit => T!TypeOK /\ T!OwnEditNotOffered /\ T!OthersEditOffered /\ T!OtherLibraryUntouched
<1> SUFFICES ASSUME TitlesFit
             PROVE  T!TypeOK /\ T!OwnEditNotOffered /\ T!OthersEditOffered /\ T!OtherLibraryUntouched
  OBVIOUS
<1>1. /\ TitlesTyped /\ PushesAreWhole /\ TimesInOrder /\ OthersStay /\ OtherStays
      /\ ~mixed => OnePushes /\ PushesOurs /\ OwnChange /\ KnownUnchanged /\ ReadForAccept
      /\ \A a \in Pusher : push[a] \in PushState /\ PushIsWhole(push[a])
      /\ \A b \in Titled : /\ book[b].rated \in Nat /\ book[b].modified \in Nat /\ entries[b].at \in Nat
  BY TitleFacts
<1>2. T!TypeOK
  <2>1. \A a \in Pusher : /\ push[a].at \in {"idle", "titles", "next", "set", "save", "accept"}
                          /\ push[a].left \subseteq push[a].books /\ push[a].found \subseteq push[a].books
                          /\ push[a].accept \subseteq push[a].books
    BY <1>1, PushFields DEF PushIsWhole, PushStep
  <2>2. QED
    BY <1>1, <2>1 DEF T!TypeOK, T!Title, T!Server, TitlesTyped, EntryRow, BookRow, TitleSet
<1>3. T!OwnEditNotOffered
  <2>1. ASSUME T!Idle, ~mixed, NEW b \in Titled, b \notin foreign, T!Changed(b)
        PROVE  FALSE
    <3>1. entries[b].at <= book[b].rated
      BY <1>1, <2>1 DEF OwnChange, Carries, T!Idle
    <3>2. QED
      BY <1>1, <2>1, <3>1 DEF TimesInOrder, T!Changed
  <2>2. QED
    BY <2>1 DEF T!OwnEditNotOffered
<1>4. T!OthersEditOffered /\ T!OtherLibraryUntouched
  BY <1>1 DEF T!OthersEditOffered, T!OtherLibraryUntouched, T!Changed, OthersStay, OtherStays
<1>5. QED
  BY <1>2, <1>3, <1>4

-----------------------------------------------------------------------------

TitlesFitHere == running = "titles" => TitlesFit

\* Tidying titles (titlefix_handlers.go, store/delta.go): for any books and titles, a push alone
\* leaves no book on offer for a new rating that was not, a change by somebody else before it
\* stays on offer, and a library with other books under the chosen numbers is not written to.
THEOREM TitlesAreTidied == MCSpec => []TidyingIsNeutral
<1>1. MCInit => TitlesFitHere
  BY TitlesBegin DEF MCInit, TitlesFitHere
<1>2. TitlesFitHere /\ [MCNext]_allVars => TitlesFitHere'
  <2>1. ASSUME [MCNext]_allVars, running' = "titles"
        PROVE  running = "titles" /\ [T!Next]_titleVars
    BY <2>1 DEF MCNext, allVars
  <2>2. QED
    BY <2>1, TitlesGoOn DEF TitlesFitHere
<1>3. TitlesFitHere => TidyingIsNeutral
  BY TitlesHold DEF TitlesFitHere, TidyingIsNeutral
<1>4. QED
  BY <1>1, <1>2, <1>3, PTL DEF MCSpec

-----------------------------------------------------------------------------
(* Tunnel.                                                                 *)

LEMMA TunnelCounts == \A s : U!Cardinality(s) = Cardinality(s)
  BY DEF U!Cardinality, Cardinality

-----------------------------------------------------------------------------
(* The tunnel. While saves do not overlap, what lives is what the manager   *)
(* holds, or what the one save that is under way waits for.                *)

Supervisor == [at : {"gone", "made", "between", "run", "ended"}, cancelled : BOOLEAN,
               call : {"none", "connected", "retrying"}]
SaveState  == [at : {"idle", "apply", "wait", "off", "register", "start"}, on : BOOLEAN, stops : 0..MaxConnectors]

TunnelTyped ==
    /\ enabled \in BOOLEAN /\ token \in BOOLEAN /\ notice \in BOOLEAN /\ twoSaves \in BOOLEAN
    /\ manager \in 0..MaxConnectors
    /\ tunnel \in {"off", "starting", "connected", "retrying"}
    /\ sup \in [U!Connector -> Supervisor]
    /\ saving \in [Saver -> SaveState]

OneSaves   == \A q, r \in Saver : saving[q].at # "idle" /\ saving[r].at # "idle" => q = r
HeldLives  == manager # 0 => sup[manager].at # "gone" /\ ~sup[manager].cancelled
LiveIsHeld == \A c \in U!Connector : sup[c].at # "gone" =>
                 \/ c = manager
                 \/ \E r \in Saver : saving[r].at = "wait" /\ saving[r].stops = c
StopsFirst == \A r \in Saver : saving[r].at \in {"wait", "register"} => manager = 0
StartsMade == \A r \in Saver : saving[r].at = "start" =>
                 manager # 0 /\ saving[r].stops = manager /\ sup[manager].at = "made"
Shown      == (\A r \in Saver : saving[r].at \notin {"wait", "start"}) => (tunnel = "off" <=> manager = 0)

OneByOne == ~twoSaves => OneSaves /\ HeldLives /\ LiveIsHeld /\ StopsFirst /\ StartsMade /\ Shown

TunnelFits == TunnelTyped /\ OneByOne

LEMMA TunnelTypes ==
    TunnelTyped <=> U!TypeOK
  BY DEF TunnelTyped, U!TypeOK, Supervisor, SaveState

\* Records of a supervisor and of a save, and how one field changes.
At(p, v)        == [p EXCEPT !.at = v]
Calls(p, v)     == [p EXCEPT !.call = v]
Cancelled(p)    == [p EXCEPT !.cancelled = TRUE]
AtStop(s, v, c) == [s EXCEPT !.at = v, !.stops = c]

LEMMA SupervisorAt ==
    \A p \in Supervisor, v \in {"gone", "made", "between", "run", "ended"} :
        At(p, v) \in Supervisor /\ At(p, v).at = v /\ At(p, v).cancelled = p.cancelled
  BY DEF Supervisor, At

LEMMA SupervisorCalls ==
    \A p \in Supervisor, v \in {"none", "connected", "retrying"} :
        Calls(p, v) \in Supervisor /\ Calls(p, v).at = p.at /\ Calls(p, v).cancelled = p.cancelled
  BY DEF Supervisor, Calls

LEMMA SupervisorCancelled ==
    \A p \in Supervisor :
        Cancelled(p) \in Supervisor /\ Cancelled(p).at = p.at
  BY DEF Supervisor, Cancelled

LEMMA SupervisorFields ==
    \A p \in Supervisor : /\ p.at \in {"gone", "made", "between", "run", "ended"} /\ p.cancelled \in BOOLEAN
                          /\ p.call \in {"none", "connected", "retrying"}
  BY DEF Supervisor

LEMMA FreshSupervisors ==
    /\ U!Gone \in Supervisor /\ U!Gone.at = "gone"
    /\ U!Between \in Supervisor /\ U!Between.at = "between" /\ U!Between.cancelled = FALSE
    /\ [U!Gone EXCEPT !.at = "made"] \in Supervisor
    /\ [U!Gone EXCEPT !.at = "made"].at = "made" /\ [U!Gone EXCEPT !.at = "made"].cancelled = FALSE
  BY DEF Supervisor, U!Gone, U!Between

LEMMA SaveAt ==
    \A s \in SaveState, v \in {"idle", "apply", "wait", "off", "register", "start"} :
        At(s, v) \in SaveState /\ At(s, v).at = v /\ At(s, v).stops = s.stops
  BY DEF SaveState, At

LEMMA SaveAtStop ==
    \A s \in SaveState, v \in {"idle", "apply", "wait", "off", "register", "start"}, c \in 0..MaxConnectors :
        AtStop(s, v, c) \in SaveState /\ AtStop(s, v, c).at = v /\ AtStop(s, v, c).stops = c
  BY DEF SaveState, AtStop

LEMMA FreshSaves ==
    /\ \A on \in BOOLEAN : [at |-> "apply", on |-> on, stops |-> 0] \in SaveState
    /\ U!Idle \in SaveState /\ U!Idle.at = "idle"
<1>1. 0 \in 0..MaxConnectors
  BY TunnelAssumption
<1>2. QED
  BY <1>1 DEF SaveState, U!Idle

\* A supervisor that moves while it lives, or one that was cancelled and returns.
LEMMA OneSupervisorFits ==
    ASSUME TunnelFits, NEW c \in U!Connector, NEW p \in Supervisor,
           sup' = [sup EXCEPT ![c] = p],
           sup[c].at # "gone",
           p.cancelled = sup[c].cancelled \/ p.at = "gone",
           p.at = "gone" => sup[c].cancelled,
           sup[c].at = "made" => p.at = "made",
           tunnel' = tunnel \/ tunnel' \in {"connected", "retrying"},
           notice' \in BOOLEAN,
           UNCHANGED <<enabled, token, manager, saving, twoSaves>>
    PROVE  TunnelFits'
<1>1. TunnelTyped'
  BY DEF TunnelFits, TunnelTyped
<1>2. ASSUME ~twoSaves
      PROVE  OneSaves /\ HeldLives /\ LiveIsHeld /\ StopsFirst /\ StartsMade /\ Shown
  BY <1>2 DEF TunnelFits, OneByOne
<1>3. /\ \A d \in U!Connector : sup'[d] = IF d = c THEN p ELSE sup[d]
      /\ manager # 0 => manager \in U!Connector
      /\ c # 0
  BY DEF TunnelFits, TunnelTyped, U!Connector
<1>4. ASSUME ~twoSaves
      PROVE  (OneSaves /\ HeldLives /\ LiveIsHeld /\ StopsFirst /\ StartsMade /\ Shown)'
  <2>1. OneSaves' /\ StopsFirst'
    BY <1>2, <1>4 DEF OneSaves, StopsFirst
  <2>2. HeldLives'
    BY <1>2, <1>3, <1>4 DEF HeldLives
  <2>3. LiveIsHeld'
    BY <1>2, <1>3, <1>4 DEF LiveIsHeld
  <2>4. StartsMade'
    BY <1>2, <1>3, <1>4 DEF StartsMade
  <2>5. Shown'
    BY <1>2, <1>3, <1>4 DEF Shown, LiveIsHeld
  <2>6. QED
    BY <2>1, <2>2, <2>3, <2>4, <2>5
<1>5. QED
  BY <1>1, <1>4 DEF TunnelFits, OneByOne

LEMMA LineKeepsTunnel ==
    ASSUME TunnelFits, NEW c \in U!Connector, NEW s \in {"connected", "retrying"}, U!Line(c, s)
    PROVE  TunnelFits'
<1> DEFINE v == IF tunnel = s THEN "none" ELSE s
<1>1. sup[c] \in Supervisor /\ sup \in [U!Connector -> Supervisor] /\ notice \in BOOLEAN
  BY DEF TunnelFits, TunnelTyped
<1>2. sup' = [sup EXCEPT ![c] = Calls(sup[c], v)] /\ sup[c].at = "run"
  BY <1>1 DEF U!Line, U!Set, U!Ready, Calls
<1>3. UNCHANGED <<enabled, token, manager, saving, notice, twoSaves>> /\ tunnel' = s
  BY DEF U!Line
<1>4. Calls(sup[c], v) \in Supervisor /\ Calls(sup[c], v).at = "run"
      /\ Calls(sup[c], v).cancelled = sup[c].cancelled
  BY <1>1, <1>2, SupervisorFields, SupervisorAt, SupervisorCalls, SupervisorCancelled
<1>5. QED
  BY <1>1, <1>2, <1>3, <1>4, OneSupervisorFits

LEMMA SuperviseKeepsTunnel ==
    ASSUME TunnelFits, NEW c \in U!Connector, U!Supervise(c)
    PROVE  TunnelFits'
<1>1. sup[c] \in Supervisor /\ sup \in [U!Connector -> Supervisor] /\ notice \in BOOLEAN
  BY DEF TunnelFits, TunnelTyped
<1>2. CASE U!OnChange(c)
  <2>1. sup' = [sup EXCEPT ![c] = Calls(sup[c], "none")] /\ notice' \in BOOLEAN
        /\ UNCHANGED <<enabled, token, manager, tunnel, saving, twoSaves>> /\ sup[c].call # "none"
    BY <1>1, <1>2 DEF U!OnChange, Calls
  <2>2. CASE sup[c].at # "gone"
    <3>1. /\ Calls(sup[c], "none") \in Supervisor /\ Calls(sup[c], "none").at = sup[c].at
          /\ Calls(sup[c], "none").cancelled = sup[c].cancelled
      BY <1>1, SupervisorCalls
    <3>2. QED
      BY <2>1, <2>2, <3>1, OneSupervisorFits
  <2>3. CASE sup[c].at = "gone"
    <3>1. /\ \A d \in U!Connector : sup'[d].at = sup[d].at /\ sup'[d].cancelled = sup[d].cancelled
          /\ sup' \in [U!Connector -> Supervisor]
      BY <1>1, <2>1, SupervisorFields, SupervisorAt, SupervisorCalls, SupervisorCancelled
    <3>2. manager # 0 => manager \in U!Connector
      BY DEF TunnelFits, TunnelTyped, U!Connector
    <3>3. TunnelTyped'
      BY <2>1, <3>1 DEF TunnelFits, TunnelTyped
    <3>4. QED
      BY <2>1, <3>1, <3>2, <3>3 DEF TunnelFits, OneByOne, OneSaves, HeldLives, LiveIsHeld, StopsFirst, StartsMade, Shown
  <2>4. QED
    BY <2>2, <2>3
<1>3. CASE U!Exit(c)
  <2>1. sup' = [sup EXCEPT ![c] = At(sup[c], "ended")] /\ sup[c].at = "run"
        /\ UNCHANGED <<enabled, token, manager, tunnel, saving, notice, twoSaves>>
    BY <1>1, <1>3 DEF U!Exit, U!Ready, At
  <2>2. QED
    BY <1>1, <2>1, SupervisorFields, SupervisorAt, SupervisorCalls, SupervisorCancelled, OneSupervisorFits
<1>4. CASE U!Retry(c)
  <2> DEFINE v == IF tunnel = "retrying" THEN "none" ELSE "retrying"
  <2>1. sup' = [sup EXCEPT ![c] = At(Calls(sup[c], v), "between")] /\ sup[c].at = "ended"
        /\ UNCHANGED <<enabled, token, manager, saving, notice, twoSaves>> /\ tunnel' = "retrying"
    BY <1>1, <1>4 DEF U!Retry, U!Ready, U!Set, At, Calls
  <2>2. Calls(sup[c], v) \in Supervisor /\ Calls(sup[c], v).cancelled = sup[c].cancelled
    BY <1>1, SupervisorFields, SupervisorAt, SupervisorCalls, SupervisorCancelled
  <2>3. /\ At(Calls(sup[c], v), "between") \in Supervisor
        /\ At(Calls(sup[c], v), "between").at = "between"
        /\ At(Calls(sup[c], v), "between").cancelled = sup[c].cancelled
    BY <2>2, SupervisorFields, SupervisorAt, SupervisorCalls, SupervisorCancelled
  <2>4. QED
    BY <1>1, <2>1, <2>3, OneSupervisorFits
<1>5. CASE U!Run(c)
  <2>1. sup' = [sup EXCEPT ![c] = At(sup[c], "run")] /\ sup[c].at = "between"
        /\ UNCHANGED <<enabled, token, manager, tunnel, saving, notice, twoSaves>>
    BY <1>1, <1>5 DEF U!Run, U!Ready, At
  <2>2. QED
    BY <1>1, <2>1, SupervisorFields, SupervisorAt, SupervisorCalls, SupervisorCancelled, OneSupervisorFits
<1>6. CASE U!Return(c)
  <2>1. sup' = [sup EXCEPT ![c] = U!Gone] /\ sup[c].at \in {"between", "ended"} /\ sup[c].cancelled
        /\ UNCHANGED <<enabled, token, manager, tunnel, saving, notice, twoSaves>>
    BY <1>6 DEF U!Return
  <2>2. QED
    BY <1>1, <2>1, FreshSupervisors, OneSupervisorFits
<1>7. QED
  BY <1>2, <1>3, <1>4, <1>5, <1>6 DEF U!Supervise

\* The steps of a save.
LEMMA SavesKeepTunnel ==
    ASSUME TunnelFits, NEW r \in Saver,
           U!Apply(r) \/ \E on, tok \in BOOLEAN : U!Save(r, on, tok)
    PROVE  TunnelFits'
<1>1. /\ saving[r] \in SaveState /\ saving \in [Saver -> SaveState] /\ sup \in [U!Connector -> Supervisor]
      /\ manager \in 0..MaxConnectors /\ MaxConnectors \in Nat
      /\ enabled \in BOOLEAN /\ token \in BOOLEAN /\ notice \in BOOLEAN /\ twoSaves \in BOOLEAN
      /\ tunnel \in {"off", "starting", "connected", "retrying"}
      /\ manager # 0 => manager \in U!Connector
      /\ \A d \in U!Connector : sup[d] \in Supervisor /\ d # 0 /\ d \in 0..MaxConnectors
  BY TunnelAssumption DEF TunnelFits, TunnelTyped, U!Connector
<1>2. ~twoSaves => OneSaves /\ HeldLives /\ LiveIsHeld /\ StopsFirst /\ StartsMade /\ Shown
  BY DEF TunnelFits, OneByOne
<1>3. CASE \E on, tok \in BOOLEAN : U!Save(r, on, tok)
  <2>1. PICK on, tok \in BOOLEAN : U!Save(r, on, tok)
    BY <1>3
  <2>2. /\ enabled' = on /\ token' = (token \/ tok) /\ UNCHANGED <<manager, tunnel, sup, notice>>
        /\ twoSaves' = (twoSaves \/ \E q \in Saver : saving[q].at # "idle")
        /\ saving' = [saving EXCEPT ![r] = [at |-> "apply", on |-> on, stops |-> 0]]
    BY <2>1 DEF U!Save
  <2>3. TunnelTyped'
    <3>1. saving' \in [Saver -> SaveState]
      BY <1>1, <2>2, FreshSaves
    <3>2. token' \in BOOLEAN /\ twoSaves' \in BOOLEAN /\ enabled' \in BOOLEAN
      BY <1>1, <2>2
    <3>3. QED
      BY <1>1, <2>2, <3>1, <3>2 DEF TunnelTyped
  <2>4. ASSUME ~twoSaves'
        PROVE  (OneSaves /\ HeldLives /\ LiveIsHeld /\ StopsFirst /\ StartsMade /\ Shown)'
    <3>1. ~twoSaves /\ \A q \in Saver : saving[q].at = "idle"
      BY <2>2, <2>4
    <3>2. \A q \in Saver : saving'[q].at = IF q = r THEN "apply" ELSE "idle"
      BY <1>1, <2>2, <3>1
    <3>3. QED
      BY <1>2, <2>2, <3>1, <3>2 DEF OneSaves, HeldLives, LiveIsHeld, StopsFirst, StartsMade, Shown
  <2>5. QED
    BY <2>3, <2>4 DEF TunnelFits, OneByOne
<1>4. CASE U!Stop(r)
  <2>1. /\ saving[r].at = "apply" /\ manager' = 0 /\ UNCHANGED <<enabled, token, tunnel, notice, twoSaves>>
        /\ saving' = [saving EXCEPT ![r] = AtStop(saving[r], "wait", manager)]
        /\ sup' = [c \in U!Connector |-> IF c = manager THEN Cancelled(sup[c]) ELSE sup[c]]
    BY <1>1, <1>4 DEF U!Stop, U!Cancel, AtStop, Cancelled
  <2>2. /\ saving' \in [Saver -> SaveState] /\ saving'[r].at = "wait" /\ saving'[r].stops = manager
        /\ \A q \in Saver : q # r => saving'[q] = saving[q]
    <3>1. /\ AtStop(saving[r], "wait", manager) \in SaveState /\ AtStop(saving[r], "wait", manager).at = "wait"
          /\ AtStop(saving[r], "wait", manager).stops = manager
      BY <1>1 DEF SaveState, AtStop
    <3>2. QED
      BY <1>1, <2>1, <3>1
  <2>3. sup' \in [U!Connector -> Supervisor] /\ \A d \in U!Connector : sup'[d].at = sup[d].at
    BY <1>1, <2>1, SupervisorFields, SupervisorAt, SupervisorCalls, SupervisorCancelled
  <2>4. TunnelTyped'
    BY <1>1, <2>1, <2>2, <2>3 DEF TunnelTyped
  <2>5. ASSUME ~twoSaves
        PROVE  (OneSaves /\ HeldLives /\ LiveIsHeld /\ StopsFirst /\ StartsMade /\ Shown)'
    <3>1. \A q \in Saver : q # r => saving[q].at = "idle" /\ saving'[q].at = "idle"
      BY <1>2, <2>1, <2>2, <2>5 DEF OneSaves
    <3>2. QED
      BY <1>2, <2>1, <2>2, <2>3, <2>5, <3>1 DEF OneSaves, HeldLives, LiveIsHeld, StopsFirst, StartsMade, Shown
  <2>6. QED
    BY <2>1, <2>4, <2>5 DEF TunnelFits, OneByOne
<1>5. CASE U!Stopped(r)
  <2> DEFINE v == IF saving[r].on /\ token THEN "register" ELSE "idle"
  <2>1. /\ saving[r].at = "wait"
        /\ saving[r].stops # 0 => sup[saving[r].stops].at = "gone"
        /\ tunnel' = "off" /\ UNCHANGED <<enabled, token, manager, sup, notice, twoSaves>>
        /\ saving' = [saving EXCEPT ![r] = At(saving[r], v)]
    BY <1>1, <1>5 DEF U!Stopped, U!Live, U!Move, At
  <2>2. /\ saving' \in [Saver -> SaveState] /\ saving'[r].at \in {"register", "idle"}
        /\ \A q \in Saver : q # r => saving'[q] = saving[q]
    <3>1. v \in {"register", "idle"}
      OBVIOUS
    <3>2. At(saving[r], v) \in SaveState /\ At(saving[r], v).at = v
      BY <1>1, <3>1, SaveAt
    <3>3. QED
      BY <1>1, <2>1, <3>1, <3>2
  <2>3. TunnelTyped'
    BY <1>1, <2>1, <2>2 DEF TunnelTyped
  <2>4. ASSUME ~twoSaves
        PROVE  (OneSaves /\ HeldLives /\ LiveIsHeld /\ StopsFirst /\ StartsMade /\ Shown)'
    <3>1. \A q \in Saver : q # r => saving[q].at = "idle" /\ saving'[q].at = "idle"
      BY <1>2, <2>1, <2>2, <2>4 DEF OneSaves
    <3>2. manager = 0 /\ \A c \in U!Connector : sup[c].at = "gone"
      BY <1>1, <1>2, <2>1, <2>4, <3>1 DEF StopsFirst, LiveIsHeld
    <3>3. QED
      BY <1>2, <2>1, <2>2, <2>4, <3>1, <3>2 DEF OneSaves, HeldLives, LiveIsHeld, StopsFirst, StartsMade, Shown
  <2>5. QED
    BY <2>1, <2>3, <2>4 DEF TunnelFits, OneByOne
<1>6. CASE U!NotInstalled(r)
  <2>1. /\ saving[r].at = "register" /\ UNCHANGED <<enabled, token, manager, tunnel, sup, notice, twoSaves>>
        /\ saving' = [saving EXCEPT ![r] = At(saving[r], "idle")]
    BY <1>1, <1>6 DEF U!NotInstalled, U!Move, At
  <2>2. /\ saving' \in [Saver -> SaveState] /\ saving'[r].at = "idle"
        /\ \A q \in Saver : q # r => saving'[q] = saving[q]
    BY <1>1, <2>1, FreshSaves, SaveAt, SaveAtStop
  <2>3. TunnelTyped'
    BY <1>1, <2>1, <2>2 DEF TunnelTyped
  <2>4. ASSUME ~twoSaves
        PROVE  (OneSaves /\ HeldLives /\ LiveIsHeld /\ StopsFirst /\ StartsMade /\ Shown)'
    BY <1>2, <2>1, <2>2, <2>4 DEF OneSaves, HeldLives, LiveIsHeld, StopsFirst, StartsMade, Shown
  <2>5. QED
    BY <2>1, <2>3, <2>4 DEF TunnelFits, OneByOne
<1>7. CASE \E c \in U!Connector : U!Register(r, c)
  <2>1. PICK c \in U!Connector : U!Register(r, c)
    BY <1>7
  <2>2. /\ saving[r].at = "register" /\ sup[c].at = "gone" /\ manager' = c
        /\ UNCHANGED <<enabled, token, tunnel, notice, twoSaves>>
        /\ sup' = [sup EXCEPT ![c] = [U!Gone EXCEPT !.at = "made"]]
        /\ saving' = [saving EXCEPT ![r] = AtStop(saving[r], "start", c)]
    BY <1>1, <2>1 DEF U!Register, U!Fresh, U!Live, AtStop
  <2>3. /\ saving' \in [Saver -> SaveState] /\ saving'[r].at = "start" /\ saving'[r].stops = c
        /\ \A q \in Saver : q # r => saving'[q] = saving[q]
    <3>1. /\ AtStop(saving[r], "start", c) \in SaveState /\ AtStop(saving[r], "start", c).at = "start"
          /\ AtStop(saving[r], "start", c).stops = c
      BY <1>1 DEF SaveState, AtStop
    <3>2. QED
      BY <1>1, <2>2, <3>1
  <2>4. /\ sup' \in [U!Connector -> Supervisor] /\ sup'[c].at = "made" /\ ~sup'[c].cancelled
        /\ \A d \in U!Connector : d # c => sup'[d] = sup[d]
    BY <1>1, <2>2, FreshSupervisors
  <2>5. TunnelTyped'
    BY <1>1, <2>2, <2>3, <2>4 DEF TunnelTyped
  <2>6. ASSUME ~twoSaves
        PROVE  (OneSaves /\ HeldLives /\ LiveIsHeld /\ StopsFirst /\ StartsMade /\ Shown)'
    <3>1. \A q \in Saver : q # r => saving[q].at = "idle" /\ saving'[q].at = "idle"
      BY <1>2, <2>2, <2>3, <2>6 DEF OneSaves
    <3>2. \A d \in U!Connector : sup[d].at = "gone"
      BY <1>1, <1>2, <2>2, <2>6, <3>1 DEF StopsFirst, LiveIsHeld
    <3>3. QED
      BY <1>1, <2>2, <2>3, <2>4, <2>6, <3>1, <3>2 DEF OneSaves, HeldLives, LiveIsHeld, StopsFirst, StartsMade, Shown
  <2>7. QED
    BY <2>2, <2>5, <2>6 DEF TunnelFits, OneByOne
<1>8. CASE U!Start(r)
  <2> DEFINE m == saving[r].stops
  <2>1. /\ saving[r].at = "start" /\ tunnel' = "starting" /\ UNCHANGED <<enabled, token, manager, notice, twoSaves>>
        /\ sup' = [sup EXCEPT ![m] = At(sup[m], "between")]
        /\ saving' = [saving EXCEPT ![r] = At(saving[r], "idle")]
    BY <1>1, <1>8 DEF U!Start, U!Move, At
  <2>2. /\ saving' \in [Saver -> SaveState] /\ saving'[r].at = "idle"
        /\ \A q \in Saver : q # r => saving'[q] = saving[q]
    BY <1>1, <2>1, FreshSaves, SaveAt, SaveAtStop
  <2>3. sup' \in [U!Connector -> Supervisor] /\ \A d \in U!Connector : d # m => sup'[d] = sup[d]
    <3>1. CASE m \in U!Connector
      BY <1>1, <2>1, <3>1, SupervisorFields, SupervisorAt, SupervisorCalls, SupervisorCancelled
    <3>2. CASE m \notin U!Connector
      BY <1>1, <2>1, <3>2
    <3>3. QED
      BY <3>1, <3>2
  <2>4. TunnelTyped'
    BY <1>1, <2>1, <2>2, <2>3 DEF TunnelTyped
  <2>5. ASSUME ~twoSaves
        PROVE  (OneSaves /\ HeldLives /\ LiveIsHeld /\ StopsFirst /\ StartsMade /\ Shown)'
    <3>1. \A q \in Saver : q # r => saving[q].at = "idle" /\ saving'[q].at = "idle"
      BY <1>2, <2>1, <2>2, <2>5 DEF OneSaves
    <3>2. m = manager /\ m \in U!Connector
      BY <1>1, <1>2, <2>1, <2>5 DEF StartsMade
    <3>3. sup'[m].at = "between" /\ sup'[m].cancelled = sup[m].cancelled /\ ~sup[m].cancelled
      BY <1>1, <1>2, <2>1, <2>5, <3>2, SupervisorFields, SupervisorAt, SupervisorCalls, SupervisorCancelled DEF HeldLives
    <3>4. QED
      BY <1>1, <1>2, <2>1, <2>2, <2>3, <2>5, <3>1, <3>2, <3>3 DEF OneSaves, HeldLives, LiveIsHeld, StopsFirst, StartsMade, Shown
  <2>6. QED
    BY <2>1, <2>4, <2>5 DEF TunnelFits, OneByOne
<1>9. QED
  BY <1>3, <1>4, <1>5, <1>6, <1>7, <1>8 DEF U!Apply

LEMMA RestartKeepsTunnel ==
    ASSUME TunnelFits, U!Restart
    PROVE  TunnelFits'
<1> DEFINE on == enabled /\ token
<1>1. /\ manager' = (IF on THEN 1 ELSE 0) /\ tunnel' = (IF on THEN "starting" ELSE "off")
      /\ sup' = [c \in U!Connector |-> IF c = 1 /\ on THEN U!Between ELSE U!Gone]
      /\ saving' = [r \in Saver |-> U!Idle] /\ twoSaves' = FALSE
      /\ UNCHANGED <<enabled, token, notice>>
  BY DEF U!Restart
<1>2. 1 \in U!Connector /\ manager' \in 0..MaxConnectors
  BY <1>1, TunnelAssumption DEF U!Connector
<1>3. /\ sup' \in [U!Connector -> Supervisor] /\ saving' \in [Saver -> SaveState]
      /\ \A r \in Saver : saving'[r].at = "idle"
      /\ \A c \in U!Connector : sup'[c].at # "gone" => c = 1 /\ on
      /\ on => sup'[1].at # "gone" /\ ~sup'[1].cancelled
  BY <1>1, <1>2, FreshSupervisors, FreshSaves, SaveAt, SaveAtStop
<1>4. TunnelTyped'
  BY <1>1, <1>2, <1>3 DEF TunnelFits, TunnelTyped
<1>5. QED
  BY <1>1, <1>3, <1>4 DEF TunnelFits, OneByOne, OneSaves, HeldLives, LiveIsHeld, StopsFirst, StartsMade, Shown

LEMMA TunnelNext ==
    ASSUME TunnelFits, [U!Next]_tunnelVars
    PROVE  TunnelFits'
<1>1. CASE UNCHANGED tunnelVars
  BY <1>1 DEF tunnelVars, TunnelFits, TunnelTyped, OneByOne, OneSaves, HeldLives, LiveIsHeld, StopsFirst, StartsMade, Shown
<1>2. CASE U!Next
  BY <1>2, RestartKeepsTunnel, SuperviseKeepsTunnel, LineKeepsTunnel, SavesKeepTunnel DEF U!Next
<1>3. QED
  BY <1>1, <1>2

LEMMA TunnelInit == U!Init => TunnelFits
<1> SUFFICES ASSUME U!Init PROVE TunnelFits
  OBVIOUS
<1>1. TunnelTyped
  <2>1. 0 \in 0..MaxConnectors
    BY TunnelAssumption
  <2>2. sup \in [U!Connector -> Supervisor] /\ saving \in [Saver -> SaveState]
    BY FreshSupervisors, FreshSaves DEF U!Init
  <2>3. QED
    BY <2>1, <2>2 DEF U!Init, TunnelTyped
<1>2. QED
  BY <1>1, FreshSupervisors, FreshSaves, SaveAt, SaveAtStop DEF U!Init, TunnelFits, OneByOne, OneSaves, HeldLives, LiveIsHeld, StopsFirst, StartsMade, Shown

LEMMA TunnelShown ==
    ASSUME TunnelFits
    PROVE  U!TypeOK /\ U!OneConnector /\ U!StateIsTrue
<1> DEFINE alive == {c \in U!Connector : U!Live(c)}
<1>1. ASSUME ~twoSaves
      PROVE  Cardinality(alive) <= 1
  <2>1. \E x : alive \subseteq {x}
    <3>1. CASE \E r \in Saver : saving[r].at = "wait"
      <4>1. PICK r \in Saver : saving[r].at = "wait"
        BY <3>1
      <4>2. manager = 0 /\ \A q \in Saver : saving[q].at = "wait" => q = r
        BY <1>1, <4>1 DEF TunnelFits, OneByOne, StopsFirst, OneSaves
      <4>3. alive \subseteq {saving[r].stops}
        BY <1>1, <4>2 DEF TunnelFits, OneByOne, LiveIsHeld, U!Live, U!Connector
      <4>4. QED
        BY <4>3
    <3>2. CASE ~\E r \in Saver : saving[r].at = "wait"
      <4>1. alive \subseteq {manager}
        BY <1>1, <3>2 DEF TunnelFits, OneByOne, LiveIsHeld, U!Live
      <4>2. QED
        BY <4>1
    <3>3. QED
      BY <3>1, <3>2
  <2>2. alive = {} \/ \E x : alive = {x}
    BY <2>1
  <2>3. ASSUME NEW x, alive = {x}
        PROVE  Cardinality(alive) = 1
    BY <2>3, FS_Singleton
  <2>4. CASE alive = {}
    BY <2>4, FS_EmptySet
  <2>5. QED
    BY <2>2, <2>3, <2>4
<1>2. U!OneConnector
  BY <1>1, TunnelCounts DEF U!OneConnector
<1>3. U!StateIsTrue
  <2>1. SUFFICES ASSUME ~twoSaves, \A r \in Saver : saving[r].at = "idle"
                 PROVE  tunnel = "off" <=> \A c \in U!Connector : ~U!Live(c)
    BY DEF U!StateIsTrue
  <2>2. tunnel = "off" <=> manager = 0
    BY <2>1 DEF TunnelFits, OneByOne, Shown
  <2>3. /\ manager # 0 => manager \in U!Connector /\ U!Live(manager)
        /\ \A c \in U!Connector : U!Live(c) => c = manager /\ c # 0
    BY <2>1 DEF TunnelFits, TunnelTyped, OneByOne, HeldLives, LiveIsHeld, U!Live, U!Connector
  <2>4. QED
    BY <2>2, <2>3
<1>4. QED
  BY <1>2, <1>3, TunnelTypes DEF TunnelFits

\* The tunnel (tunnel/manager.go): for any number of admins who save its settings, one supervisor
\* at most lives and the state shown is "off" if none does, unless two saves overlap.
THEOREM TunnelIsTold == MCSpec => []TunnelIsAsShown
<1> DEFINE Fit == running = "tunnel" => TunnelFits
<1>1. MCInit => Fit
  BY TunnelInit DEF MCInit
<1>2. Fit /\ [MCNext]_allVars => Fit'
  <2> SUFFICES ASSUME Fit, [MCNext]_allVars, running' = "tunnel"
               PROVE  TunnelFits'
    OBVIOUS
  <2>1. running = "tunnel" /\ [U!Next]_tunnelVars
    BY DEF MCNext, allVars
  <2>2. QED
    BY <2>1, TunnelNext
<1>3. Fit => TunnelIsAsShown
  BY TunnelShown DEF TunnelIsAsShown
<1>4. QED
  BY <1>1, <1>2, <1>3, PTL DEF MCSpec

-----------------------------------------------------------------------------
(* Folds over sequences.                                                   *)

\* A set of numbers that has zero and with each number the next has them all.
LEMMA Climb ==
    ASSUME NEW G \in SUBSET Nat, 0 \in G, \A n \in G : n + 1 \in G
    PROVE  G = Nat
<1>1. SUFFICES ASSUME Nat \ G # {}
               PROVE  FALSE
  OBVIOUS
<1>2. PICK x \in Nat \ G : \A z \in Nat \ G : <<z, x>> \notin OpToRel(<, Nat)
  BY <1>1, NatLessThanWellFounded, WFMin
<1>3. x # 0 /\ x \in Nat
  BY <1>2
<1>4. x - 1 \in Nat /\ x - 1 < x
  BY <1>3
<1>5. x - 1 \in G
  BY <1>2, <1>4 DEF OpToRel
<1>6. (x - 1) + 1 \in G
  BY <1>5
<1>7. (x - 1) + 1 = x
  BY <1>3
<1>. QED
  BY <1>2, <1>6, <1>7

\* A function that is computed of a set by taking an element out, again and again.
Unfolds(A, V, base, step, pick, g) ==
    /\ g \in [SUBSET A -> V]
    /\ \A K \in SUBSET A : g[K] = IF K = {} THEN base ELSE step[<<pick[K], g[K \ {pick[K]}]>>]

\* What is computed of a finite set by taking an element out, again and again, exists.
LEMMA Unfolded ==
    ASSUME NEW A, IsFiniteSet(A), NEW V, NEW base \in V, NEW step \in [A \X V -> V],
           NEW pick, \A K \in SUBSET A : K # {} => pick[K] \in K
    PROVE  \E g : Unfolds(A, V, base, step, pick, g)
<1>. DEFINE Right(g, n) == \A K \in SUBSET A : Cardinality(K) <= n =>
                g[K] = IF K = {} THEN base ELSE step[<<pick[K], g[K \ {pick[K]}]>>]
            G == {n \in Nat : \E g \in [SUBSET A -> V] : Right(g, n)}
<1>0. \A K \in SUBSET A : IsFiniteSet(K) /\ Cardinality(K) \in Nat /\ Cardinality(K) <= Cardinality(A)
  BY FS_Subset, FS_CardinalityType
<1>1. 0 \in G
  <2>. DEFINE g == [K \in SUBSET A |-> base]
  <2>1. g \in [SUBSET A -> V]
    OBVIOUS
  <2>2. \A K \in SUBSET A : Cardinality(K) <= 0 => K = {}
    BY <1>0, FS_EmptySet
  <2>3. Right(g, 0)
    BY <2>2
  <2>. QED
    BY <2>1, <2>3
<1>2. ASSUME NEW n \in G
      PROVE  n + 1 \in G
  <2>1. PICK g \in [SUBSET A -> V] : Right(g, n)
    OBVIOUS
  <2>. DEFINE Of(K) == IF K = {} THEN base ELSE step[<<pick[K], g[K \ {pick[K]}]>>]
              h == [K \in SUBSET A |-> Of(K)]
  <2>2. ASSUME NEW K \in SUBSET A
        PROVE  Of(K) \in V
    <3>1. K # {} => g[K \ {pick[K]}] \in V /\ pick[K] \in A
      OBVIOUS
    <3>. QED
      BY <3>1
  <2>3. h \in [SUBSET A -> V]
    BY <2>2
  <2>4. ASSUME NEW K \in SUBSET A, K # {}, Cardinality(K) <= n + 1
        PROVE  h[K \ {pick[K]}] = g[K \ {pick[K]}]
    <3>1. pick[K] \in K /\ K \ {pick[K]} \in SUBSET A
      BY <2>4
    <3>2. Cardinality(K \ {pick[K]}) = Cardinality(K) - 1
      BY <1>0, <3>1, FS_RemoveElement
    <3>3. Cardinality(K \ {pick[K]}) <= n
      BY <1>0, <3>2, <2>4
    <3>4. g[K \ {pick[K]}] = Of(K \ {pick[K]})
      BY <2>1, <3>1, <3>3
    <3>. QED
      BY <3>4, <3>1
  <2>5. Right(h, n + 1)
    <3>1. SUFFICES ASSUME NEW K \in SUBSET A, Cardinality(K) <= n + 1
                   PROVE  h[K] = IF K = {} THEN base ELSE step[<<pick[K], h[K \ {pick[K]}]>>]
      OBVIOUS
    <3>. QED
      BY <2>4, <3>1
  <2>. HIDE DEF h, Right
  <2>6. \E k \in [SUBSET A -> V] : Right(k, n + 1)
    BY <2>3, <2>5
  <2>. QED
    BY <2>6
<1>3. Cardinality(A) \in G
  <2>. HIDE DEF G
  <2>1. G \in SUBSET Nat
    BY DEF G
  <2>2. G = Nat
    BY <1>1, <1>2, <2>1, Climb
  <2>. QED
    BY <2>2, <1>0
<1>4. PICK g \in [SUBSET A -> V] : Right(g, Cardinality(A))
  BY <1>3
<1>5. Unfolds(A, V, base, step, pick, g)
  BY <1>4, <1>0 DEF Unfolds
<1>. QED
  BY <1>5

\* The largest of some of the first numbers, which a fold takes last.
LEMMA MaxIsIn ==
    ASSUME NEW n \in Nat, NEW K \in SUBSET (1..n), K # {}
    PROVE  P!Max(K) \in K
<1>1. PICK d \in {n - k : k \in K} : \A e \in {n - k : k \in K} : <<e, d>> \notin OpToRel(<, Nat)
  <2>2. \A k \in K : n - k \in Nat
    OBVIOUS
  <2>1. {n - k : k \in K} \subseteq Nat /\ {n - k : k \in K} # {}
    BY <2>2
  <2>. QED
    BY <2>1, NatLessThanWellFounded, WFMin
<1>2. PICK m \in K : d = n - m
  BY <1>1
<1>3. ASSUME NEW k \in K
      PROVE  m >= k
  <2>1. n - k \in Nat /\ n - m \in Nat /\ k \in Int /\ m \in Int
    OBVIOUS
  <2>2. ~(n - k < n - m)
    BY <1>1, <1>2, <2>1 DEF OpToRel
  <2>. QED
    BY <2>1, <2>2
<1>. QED
  BY <1>2, <1>3 DEF P!Max

LEMMA MaxOfFirst ==
    ASSUME NEW i \in Nat, i > 0
    PROVE  P!Max(1..i) = i /\ (1..i) \ {i} = 1..(i - 1)
<1>1. P!Max(1..i) \in 1..i
  <2>1. i \in 1..i /\ 1..i \in SUBSET (1..i)
    OBVIOUS
  <2>. QED
    BY <2>1, MaxIsIn
<1>2. \E x \in 1..i : \A z \in 1..i : x >= z
  <2>1. i \in 1..i /\ \A z \in 1..i : i >= z
    OBVIOUS
  <2>. QED
    BY <2>1
<1>3. \A z \in 1..i : P!Max(1..i) >= z
  BY <1>2 DEF P!Max
<1>4. i \in 1..i
  OBVIOUS
<1>5. P!Max(1..i) >= i
  BY <1>3, <1>4
<1>. QED
  BY <1>1, <1>5

\* A function of the first numbers' subsets that a fold computes.
Folds(n, V, base, step, g) ==
    Unfolds(1..n, V, base, step, [K \in SUBSET (1..n) |-> P!Max(K)], g)

LEMMA FoldExists ==
    ASSUME NEW n \in Nat, NEW V, NEW base \in V, NEW step \in [(1..n) \X V -> V]
    PROVE  \E g : Folds(n, V, base, step, g)
<1>. DEFINE pick == [K \in SUBSET (1..n) |-> P!Max(K)]
<1>1. IsFiniteSet(1..n)
  BY FS_Interval
<1>2. \A K \in SUBSET (1..n) : K # {} => pick[K] \in K
  BY MaxIsIn
<1>. HIDE DEF pick
<1>3. \E g : Unfolds(1..n, V, base, step, pick, g)
  BY <1>1, <1>2, Unfolded
<1>. QED
  BY <1>3 DEF Folds, pick

\* Sums of the first numbers.
Runs(n, f, x) ==
    x \in [0..n -> Nat] /\ x[0] = 0 /\ \A i \in 1..n : x[i] = x[i - 1] + f[i]

RunStep(n, f, g) ==
    [K \in SUBSET (1..n) |-> IF K = {} THEN 0 ELSE g[K \ {P!Max(K)}] + f[P!Max(K)]]

LEMMA RunExists ==
    ASSUME NEW n \in Nat, NEW f \in [1..n -> Nat]
    PROVE  \E g : g = RunStep(n, f, g)
<1>. DEFINE step == [p \in (1..n) \X Nat |-> p[2] + f[p[1]]]
<1>1. step \in [(1..n) \X Nat -> Nat]
  OBVIOUS
<1>2. \A i \in 1..n, v \in Nat : step[<<i, v>>] = v + f[i]
  OBVIOUS
<1>. HIDE DEF step
<1>8. 0 \in Nat
  OBVIOUS
<1>3. PICK g : Folds(n, Nat, 0, step, g)
  BY <1>1, <1>8, FoldExists
<1>9. /\ g \in [SUBSET (1..n) -> Nat]
      /\ \A K \in SUBSET (1..n) : g[K] = IF K = {} THEN 0 ELSE step[<<P!Max(K), g[K \ {P!Max(K)}]>>]
  BY <1>3 DEF Folds, Unfolds
<1>4. ASSUME NEW K \in SUBSET (1..n), K # {}
      PROVE  g[K] = g[K \ {P!Max(K)}] + f[P!Max(K)]
  <2>1. P!Max(K) \in 1..n
    BY <1>4, MaxIsIn
  <2>2. g[K \ {P!Max(K)}] \in Nat
    BY <1>9
  <2>3. g[K] = step[<<P!Max(K), g[K \ {P!Max(K)}]>>]
    BY <1>4, <1>9
  <2>. QED
    BY <1>2, <2>1, <2>2, <2>3
<1>5. g \in [SUBSET (1..n) -> Nat] /\ g[{}] = 0
  BY <1>9
<1>6. g = RunStep(n, f, g)
  BY <1>4, <1>5 DEF RunStep
<1>. QED
  BY <1>6

LEMMA RunPrefixes ==
    ASSUME NEW n \in Nat, NEW f \in [1..n -> Nat], NEW g, g = RunStep(n, f, g)
    PROVE  \E x : Runs(n, f, x) /\ g[1..n] = x[n]
<1>. DEFINE x == [i \in 0..n |-> g[1..i]]
            G == {i \in Nat : i <= n => g[1..i] \in Nat}
<1>1. g[1..0] = 0
  <2>1. 1..0 = {} /\ {} \in SUBSET (1..n)
    OBVIOUS
  <2>. QED
    BY <2>1 DEF RunStep
<1>2. ASSUME NEW i \in 1..n
      PROVE  g[1..i] = g[1..(i - 1)] + f[i]
  <2>1. 1..i \in SUBSET (1..n) /\ 1..i # {}
    OBVIOUS
  <2>2. P!Max(1..i) = i /\ (1..i) \ {i} = 1..(i - 1)
    BY MaxOfFirst
  <2>. QED
    BY <2>1, <2>2 DEF RunStep
<1>3. 0 \in G
  BY <1>1
<1>4. ASSUME NEW i \in G
      PROVE  i + 1 \in G
  <2>1. CASE i + 1 <= n
    <3>1. g[1..i] \in Nat /\ f[i + 1] \in Nat
      BY <2>1
    <3>2. i + 1 \in 1..n /\ (i + 1) - 1 = i
      BY <2>1
    <3>3. g[1..(i + 1)] = g[1..i] + f[i + 1]
      BY <1>2, <3>2
    <3>. QED
      BY <3>1, <3>3
  <2>2. CASE ~(i + 1 <= n)
    BY <2>2
  <2>. QED
    BY <2>1, <2>2
<1>5. G = Nat
  <2>1. G \in SUBSET Nat
    OBVIOUS
  <2>. HIDE DEF G
  <2>. QED
    BY <1>3, <1>4, <2>1, Climb
<1>6. x \in [0..n -> Nat]
  BY <1>5
<1>7. x[0] = 0 /\ g[1..n] = x[n]
  BY <1>1
<1>8. \A i \in 1..n : x[i] = x[i - 1] + f[i]
  BY <1>2
<1>. HIDE DEF x
<1>. QED
  BY <1>6, <1>7, <1>8 DEF Runs

\* Two functions have the first m values in common.
SameFirst(m, f, h) == \A i \in 1..m : f[i] = h[i]

\* Such sums depend only on the numbers.
LEMMA RunsAgree ==
    ASSUME NEW n \in Nat, NEW m \in Nat, m <= n, NEW f, NEW h, SameFirst(m, f, h),
           NEW x, NEW z, Runs(n, f, x), Runs(m, h, z)
    PROVE  \A i \in 0..m : x[i] = z[i]
<1>. DEFINE G == {i \in Nat : i <= m => x[i] = z[i]}
<1>1. 0 \in G
  BY DEF Runs
<1>2. ASSUME NEW i \in G
      PROVE  i + 1 \in G
  <2>1. CASE i + 1 <= m
    <3>1. i + 1 \in 1..m /\ i + 1 \in 1..n /\ (i + 1) - 1 = i /\ x[i] = z[i]
      BY <2>1
    <3>. QED
      BY <3>1 DEF Runs, SameFirst
  <2>2. CASE ~(i + 1 <= m)
    BY <2>2
  <2>. QED
    BY <2>1, <2>2
<1>3. G = Nat
  <2>1. G \in SUBSET Nat
    OBVIOUS
  <2>. HIDE DEF G
  <2>. QED
    BY <1>1, <1>2, <2>1, Climb
<1>. QED
  BY <1>3

-----------------------------------------------------------------------------
(* Parts: the words of sections and of parts.                              *)

\* The words of a book's sections, and of a scan's parts.
WordsOf(ss)  == [i \in 1..Len(ss) |-> ss[i].words]
LengthOf(ps) == [i \in 1..Len(ps) |-> Len(ps[i].text)]

\* A fold that adds up, as the library takes it.
LEMMA TotalIsRun ==
    ASSUME NEW R, NEW ss \in Seq(R), \A s \in R : s.words \in Nat
    PROVE  \E x : Runs(Len(ss), WordsOf(ss), x) /\ P!TotalOf(ss) = x[Len(ss)]
<1>. DEFINE n == Len(ss)
            Next0(g) == [K \in SUBSET DOMAIN ss |-> IF K = {} THEN 0 ELSE g[K \ {P!Max(K)}] + ss[P!Max(K)].words]
            h == CHOOSE g : g = Next0(g)
<1>1. P!TotalOf(ss) = h[DOMAIN ss]
  BY DEF P!TotalOf, P!FoldLeft, P!MapThenFoldSet
<1>2. n \in Nat /\ DOMAIN ss = 1..n /\ WordsOf(ss) \in [1..n -> Nat]
  BY DEF WordsOf
<1>3. ASSUME NEW g
      PROVE  Next0(g) = RunStep(n, WordsOf(ss), g)
  <2>1. ASSUME NEW K \in SUBSET (1..n), K # {}
        PROVE  ss[P!Max(K)].words = WordsOf(ss)[P!Max(K)]
    <3>1. P!Max(K) \in 1..n
      BY <1>2, <2>1, MaxIsIn
    <3>. QED
      BY <3>1 DEF WordsOf
  <2>. HIDE DEF n
  <2>. QED
    BY <1>2, <2>1 DEF RunStep
<1>4. \E g : g = RunStep(n, WordsOf(ss), g)
  BY <1>2, RunExists
<1>5. h = Next0(h)
  <2>1. \E g : g = Next0(g)
    <3>. HIDE DEF Next0
    <3>. QED
      BY <1>3, <1>4
  <2>. HIDE DEF Next0
  <2>. QED
    BY <2>1
<1>. HIDE DEF h, Next0
<1>6. h = RunStep(n, WordsOf(ss), h)
  BY <1>3, <1>5
<1>7. \E x : Runs(n, WordsOf(ss), x) /\ h[1..n] = x[n]
  BY <1>2, <1>6, RunPrefixes
<1>. QED
  BY <1>1, <1>2, <1>7

LEMMA UptoIsRun ==
    ASSUME NEW R, NEW ps \in Seq(R), \A p \in R : Len(p.text) \in Nat
    PROVE  \E x : Runs(Len(ps), LengthOf(ps), x) /\ P!FoldLeft(LAMBDA m, p : m + Len(p.text), 0, ps) = x[Len(ps)]
<1>. DEFINE n == Len(ps)
            Next0(g) == [K \in SUBSET DOMAIN ps |-> IF K = {} THEN 0 ELSE g[K \ {P!Max(K)}] + Len(ps[P!Max(K)].text)]
            h == CHOOSE g : g = Next0(g)
<1>1. P!FoldLeft(LAMBDA m, p : m + Len(p.text), 0, ps) = h[DOMAIN ps]
  BY DEF P!FoldLeft, P!MapThenFoldSet
<1>2. n \in Nat /\ DOMAIN ps = 1..n /\ LengthOf(ps) \in [1..n -> Nat]
  BY DEF LengthOf
<1>3. ASSUME NEW g
      PROVE  Next0(g) = RunStep(n, LengthOf(ps), g)
  <2>1. ASSUME NEW K \in SUBSET (1..n), K # {}
        PROVE  Len(ps[P!Max(K)].text) = LengthOf(ps)[P!Max(K)]
    <3>1. P!Max(K) \in 1..n
      BY <1>2, <2>1, MaxIsIn
    <3>. QED
      BY <3>1 DEF LengthOf
  <2>. HIDE DEF n
  <2>. QED
    BY <1>2, <2>1 DEF RunStep
<1>4. \E g : g = RunStep(n, LengthOf(ps), g)
  BY <1>2, RunExists
<1>5. h = Next0(h)
  <2>1. \E g : g = Next0(g)
    <3>. HIDE DEF Next0
    <3>. QED
      BY <1>3, <1>4
  <2>. HIDE DEF Next0
  <2>. QED
    BY <2>1
<1>. HIDE DEF h, Next0
<1>6. h = RunStep(n, LengthOf(ps), h)
  BY <1>3, <1>5
<1>7. \E x : Runs(n, LengthOf(ps), x) /\ h[1..n] = x[n]
  BY <1>2, <1>6, RunPrefixes
<1>. QED
  BY <1>1, <1>2, <1>7

\* A fold's values, known as long as those before are among the values a step is taken from.
Stepwise(n, V, base, step, h) ==
    /\ base \in V /\ step \in [(1..n) \X V -> V] /\ h[{}] = base
    /\ \A K \in SUBSET (1..n) : K # {} /\ h[K \ {P!Max(K)}] \in V => h[K] = step[<<P!Max(K), h[K \ {P!Max(K)}]>>]

\* What a fold comes to, number by number.
LEMMA FoldStays ==
    ASSUME NEW n \in Nat, NEW V, NEW base, NEW step, NEW h, Stepwise(n, V, base, step, h)
    PROVE  /\ h[1..0] = base
           /\ \A i \in 0..n : h[1..i] \in V
           /\ \A i \in 1..n : h[1..i] = step[<<i, h[1..(i - 1)]>>]
<1>. DEFINE G == {i \in Nat : i <= n => h[1..i] \in V}
<1>1. h[1..0] = base
  <2>1. 1..0 = {}
    OBVIOUS
  <2>. QED
    BY <2>1 DEF Stepwise
<1>2. ASSUME NEW i \in 1..n, h[1..(i - 1)] \in V
      PROVE  h[1..i] = step[<<i, h[1..(i - 1)]>>] /\ h[1..i] \in V
  <2>1. 1..i \in SUBSET (1..n) /\ 1..i # {}
    OBVIOUS
  <2>2. P!Max(1..i) = i /\ (1..i) \ {i} = 1..(i - 1)
    BY MaxOfFirst
  <2>. QED
    BY <1>2, <2>1, <2>2 DEF Stepwise
<1>3. 0 \in G
  BY <1>1 DEF Stepwise
<1>4. ASSUME NEW i \in G
      PROVE  i + 1 \in G
  <2>1. CASE i + 1 <= n
    <3>1. i + 1 \in 1..n /\ (i + 1) - 1 = i /\ h[1..i] \in V
      BY <2>1
    <3>2. h[1..(i + 1)] \in V
      BY <1>2, <3>1
    <3>. QED
      BY <3>2
  <2>2. CASE ~(i + 1 <= n)
    BY <2>2
  <2>. QED
    BY <2>1, <2>2
<1>5. G = Nat
  <2>1. G \in SUBSET Nat
    OBVIOUS
  <2>. HIDE DEF G
  <2>. QED
    BY <1>3, <1>4, <2>1, Climb
<1>6. \A i \in 0..n : h[1..i] \in V
  BY <1>5
<1>7. \A i \in 1..n : h[1..i] = step[<<i, h[1..(i - 1)]>>]
  <2>1. \A i \in 1..n : i - 1 \in 0..n
    OBVIOUS
  <2>. QED
    BY <1>2, <1>6, <2>1
<1>. QED
  BY <1>1, <1>6, <1>7

-----------------------------------------------------------------------------
(* Parts: a split is the book in order.                                    *)

Heading    == [title : Headings, piece : Nat]
Naming     == {P!Label(q[1], q[2], q[3]) : q \in Seq(Heading) \X Int \X Nat}
FirstPart  == [label : Naming, text : Seq(Nat)]
SplitState == [parts : Seq(FirstPart), text : Seq(Nat), titles : Seq(Heading), seen : Nat]

\* Parts one after the other, each from where the last one ends.
Chain(ps, c, total) ==
    /\ c \in [0..Len(ps) -> Nat] /\ c[0] = 0 /\ c[Len(ps)] = total
    /\ \A i \in 1..Len(ps) : c[i - 1] <= c[i] /\ ps[i].text = P!Numbers(c[i - 1], c[i] - c[i - 1])

\* What a split has so far.
Cutting(size) ==
    {st \in SplitState :
        /\ Len(st.text) <= size /\ Len(st.text) <= st.seen
        /\ st.text = P!Numbers(st.seen - Len(st.text), Len(st.text))
        /\ \E c : Chain(st.parts, c, st.seen - Len(st.text))
        /\ \A i \in 1..Len(st.parts) : Len(st.parts[i].text) <= size}

LEMMA NumbersAre ==
    ASSUME NEW from \in Nat, NEW k \in Nat
    PROVE  /\ P!Numbers(from, k) \in Seq(Nat) /\ Len(P!Numbers(from, k)) = k
           /\ \A i \in 1..k : P!Numbers(from, k)[i] = from + i
  BY DEF P!Numbers

LEMMA NumbersJoin ==
    ASSUME NEW from \in Nat, NEW k \in Nat, NEW l \in Nat
    PROVE  P!Numbers(from, k) \o P!Numbers(from + k, l) = P!Numbers(from, k + l)
<1>. DEFINE a == P!Numbers(from, k)
            b == P!Numbers(from + k, l)
            j == P!Numbers(from, k + l)
<1>1. a \in Seq(Nat) /\ Len(a) = k /\ \A i \in 1..k : a[i] = from + i
  BY NumbersAre
<1>2. b \in Seq(Nat) /\ Len(b) = l /\ \A i \in 1..l : b[i] = (from + k) + i
  <2>1. from + k \in Nat
    OBVIOUS
  <2>. QED
    BY <2>1, NumbersAre
<1>3. j \in Seq(Nat) /\ Len(j) = k + l /\ \A i \in 1..(k + l) : j[i] = from + i
  <2>1. k + l \in Nat
    OBVIOUS
  <2>. QED
    BY <2>1, NumbersAre
<1>. HIDE DEF a, b, j
<1>4. a \o b \in Seq(Nat) /\ Len(a \o b) = k + l
  <2>1. a \in Seq(Nat) /\ b \in Seq(Nat) /\ Len(a) = k /\ Len(b) = l
    BY <1>1, <1>2
  <2>2. a \o b \in Seq(Nat) /\ Len(a \o b) = Len(a) + Len(b)
    BY <2>1, ConcatProperties, Zenon
  <2>. QED
    BY <2>1, <2>2
<1>5. ASSUME NEW i \in 1..(k + l)
      PROVE  (a \o b)[i] = j[i]
  <2>1. CASE i <= k
    BY <1>1, <1>2, <1>3, <2>1
  <2>2. CASE i > k
    <3>1. i - k \in 1..l
      BY <2>2
    <3>2. (a \o b)[i] = b[i - k]
      BY <1>1, <1>2, <2>2
    <3>. QED
      BY <1>2, <1>3, <3>1, <3>2
  <2>3. i <= k \/ i > k
    OBVIOUS
  <2>. QED
    BY <2>1, <2>2, <2>3
<1>6. a \o b = j
  BY <1>3, <1>4, <1>5, SeqEqual
<1>. QED
  BY <1>6 DEF a, b, j

\* A part that is finished follows on the others.
LEMMA FlushKeeps ==
    ASSUME NEW size \in Nat, NEW st \in Cutting(size), NEW total \in Nat
    PROVE  /\ P!Flush(st, total) \in Cutting(size)
           /\ P!Flush(st, total).text = <<>> /\ P!Flush(st, total).seen = st.seen
<1>1. CASE st.text = <<>>
  BY <1>1 DEF P!Flush
<1>2. CASE st.text # <<>>
  <2>. DEFINE len == Len(st.text)
              n == Len(st.parts)
              named == P!Label(st.titles, st.seen - len, total)
              row == [label |-> named, text |-> st.text]
              ps == Append(st.parts, row)
              res == P!Flush(st, total)
  <2>1. st \in SplitState /\ len \in Nat /\ n \in Nat /\ len <= size /\ len <= st.seen /\ st.seen \in Nat
    BY DEF Cutting, SplitState
  <2>2. named \in Naming
    <3>1. <<st.titles, st.seen - len, total>> \in Seq(Heading) \X Int \X Nat
      BY <2>1 DEF SplitState
    <3>. QED
      BY <3>1 DEF Naming
  <2>3. row \in FirstPart
    BY <2>1, <2>2 DEF FirstPart, SplitState
  <2>4. res = [parts |-> ps, text |-> <<>>, titles |-> <<>>, seen |-> st.seen]
    BY <1>2 DEF P!Flush
  <2>5. /\ ps \in Seq(FirstPart) /\ Len(ps) = n + 1 /\ ps[n + 1] = row
        /\ \A i \in 1..n : ps[i] = st.parts[i]
    <3>. HIDE DEF row
    <3>. QED
      BY <2>1, <2>3 DEF SplitState
  <2>6. PICK c : Chain(st.parts, c, st.seen - len)
    BY DEF Cutting
  <2>. DEFINE d == [i \in 0..(n + 1) |-> IF i <= n THEN c[i] ELSE st.seen]
  <2>7. Chain(ps, d, st.seen)
    <3>1. c \in [0..n -> Nat] /\ c[0] = 0 /\ c[n] = st.seen - len
      BY <2>6 DEF Chain
    <3>2. d \in [0..(n + 1) -> Nat] /\ d[0] = 0 /\ d[n + 1] = st.seen
      BY <2>1, <3>1
    <3>3. ASSUME NEW i \in 1..(n + 1)
          PROVE  d[i - 1] <= d[i] /\ ps[i].text = P!Numbers(d[i - 1], d[i] - d[i - 1])
      <4>1. CASE i <= n
        <5>1. d[i - 1] = c[i - 1] /\ d[i] = c[i] /\ ps[i] = st.parts[i]
          BY <2>1, <2>5, <4>1
        <5>2. c[i - 1] <= c[i] /\ st.parts[i].text = P!Numbers(c[i - 1], c[i] - c[i - 1])
          <6>1. i \in 1..Len(st.parts)
            BY <2>1, <4>1
          <6>. QED
            BY <2>6, <6>1 DEF Chain
        <5>. QED
          BY <5>1, <5>2
      <4>2. CASE i = n + 1
        <5>1. d[i - 1] = st.seen - len /\ d[i] = st.seen
          BY <2>1, <3>1, <4>2
        <5>2. ps[i].text = st.text
          BY <2>5, <4>2
        <5>3. st.text = P!Numbers(st.seen - len, len)
          BY DEF Cutting
        <5>4. st.seen - (st.seen - len) = len
          BY <2>1
        <5>. HIDE DEF d, ps
        <5>. QED
          BY <2>1, <5>1, <5>2, <5>3, <5>4
      <4>. QED
        BY <2>1, <4>1, <4>2
    <3>. HIDE DEF d, ps
    <3>. QED
      BY <2>5, <3>2, <3>3 DEF Chain
  <2>8. ASSUME NEW i \in 1..(n + 1)
        PROVE  Len(ps[i].text) <= size
    <3>1. i \in 1..n => Len(st.parts[i].text) <= size
      BY DEF Cutting
    <3>2. i = n + 1 => ps[i].text = st.text
      BY <2>5
    <3>. HIDE DEF ps
    <3>3. CASE i = n + 1
      BY <2>1, <3>2, <3>3
    <3>4. CASE i # n + 1
      <4>1. i \in 1..n
        BY <2>1, <3>4
      <4>. QED
        BY <2>5, <3>1, <4>1
    <3>. QED
      BY <3>3, <3>4
  <2>. HIDE DEF ps, res, n
  <2>9. res \in SplitState
    BY <2>1, <2>4, <2>5 DEF SplitState
  <2>10. res.text = <<>> /\ res.seen = st.seen /\ res.parts = ps /\ Len(res.text) = 0
    BY <2>4
  <2>11. P!Numbers(st.seen, 0) = <<>>
    BY DEF P!Numbers
  <2>12. res \in Cutting(size)
    <3>1. st.seen - Len(res.text) = st.seen /\ Len(res.text) <= size /\ Len(res.text) <= st.seen
      BY <2>1, <2>10
    <3>2. res.text = P!Numbers(res.seen - Len(res.text), Len(res.text))
      BY <2>10, <2>11, <3>1
    <3>3. \E e : Chain(res.parts, e, res.seen - Len(res.text))
      BY <2>7, <2>10, <3>1
    <3>4. \A i \in 1..Len(res.parts) : Len(res.parts[i].text) <= size
      BY <2>5, <2>8, <2>10
    <3>. QED
      BY <2>9, <2>10, <3>1, <3>2, <3>3, <3>4 DEF Cutting
  <2>. QED
    BY <2>10, <2>12 DEF res
<1>. QED
  BY <1>1, <1>2

\* A chapter that fits stays whole.
LEMMA ChapterKeeps ==
    ASSUME NEW size \in Nat, NEW st \in Cutting(size), NEW s \in P!Section, s.words <= size, NEW total \in Nat
    PROVE  /\ P!AddChapter(st, s, size, total) \in Cutting(size)
           /\ P!AddChapter(st, s, size, total).seen = st.seen + s.words
<1>. DEFINE open == IF Len(st.text) + s.words > size THEN P!Flush(st, total) ELSE st
            len == Len(open.text)
            w == s.words
            res == P!AddChapter(st, s, size, total)
<1>1. w \in Nat /\ s.title \in Headings
  BY PartsAssumption DEF P!Section
<1>2. open \in Cutting(size) /\ open.seen = st.seen /\ len + w <= size
  <2>1. CASE Len(st.text) + s.words > size
    <3>1. P!Flush(st, total) \in Cutting(size) /\ P!Flush(st, total).text = <<>> /\ P!Flush(st, total).seen = st.seen
      BY FlushKeeps
    <3>2. open = P!Flush(st, total)
      BY <2>1
    <3>. HIDE DEF open
    <3>. QED
      BY <1>1, <3>1, <3>2
  <2>2. CASE ~(Len(st.text) + s.words > size)
    <3>1. Len(st.text) \in Nat
      BY DEF Cutting, SplitState
    <3>. QED
      BY <1>1, <2>2, <3>1
  <2>. QED
    BY <2>1, <2>2
<1>3. res = [open EXCEPT !.text = open.text \o P!Numbers(open.seen, w), !.seen = open.seen + w,
                         !.titles = Append(open.titles, [title |-> s.title, piece |-> 0])]
  BY DEF P!AddChapter
<1>. HIDE DEF open
<1>4. open \in SplitState /\ len \in Nat /\ len <= open.seen /\ open.seen \in Nat
  BY <1>2 DEF Cutting, SplitState
<1>5. open.text = P!Numbers(open.seen - len, len) /\ open.seen - len \in Nat
  BY <1>2, <1>4 DEF Cutting
<1>6. open.text \o P!Numbers(open.seen, w) = P!Numbers(open.seen - len, len + w)
  <2>1. (open.seen - len) + len = open.seen
    BY <1>4
  <2>2. \A from, k, l \in Nat : P!Numbers(from, k) \o P!Numbers(from + k, l) = P!Numbers(from, k + l)
    BY NumbersJoin
  <2>. HIDE DEF len, w
  <2>3. P!Numbers(open.seen - len, len) \o P!Numbers((open.seen - len) + len, w) = P!Numbers(open.seen - len, len + w)
    BY <1>1, <1>4, <1>5, <2>2
  <2>. QED
    BY <1>5, <2>1, <2>3
<1>7. /\ P!Numbers(open.seen - len, len + w) \in Seq(Nat)
      /\ Len(P!Numbers(open.seen - len, len + w)) = len + w
  <2>1. len + w \in Nat
    BY <1>1, <1>4
  <2>. HIDE DEF len, w
  <2>. QED
    BY <1>5, <2>1, NumbersAre
<1>8. /\ res.text = P!Numbers(open.seen - len, len + w) /\ res.seen = open.seen + w /\ res.parts = open.parts
      /\ res.titles = Append(open.titles, [title |-> s.title, piece |-> 0])
      /\ res = [parts |-> res.parts, text |-> res.text, titles |-> res.titles, seen |-> res.seen]
  BY <1>3, <1>4, <1>6 DEF SplitState
<1>9. res \in SplitState
  <2>1. [title |-> s.title, piece |-> 0] \in Heading
    BY <1>1 DEF Heading
  <2>2. res.titles \in Seq(Heading)
    BY <1>4, <1>8, <2>1 DEF SplitState
  <2>. HIDE DEF res, len, w
  <2>3. res.parts \in Seq(FirstPart) /\ res.text \in Seq(Nat) /\ res.seen \in Nat
    BY <1>1, <1>4, <1>7, <1>8 DEF SplitState
  <2>. QED
    BY <1>8, <2>2, <2>3 DEF SplitState
<1>10. res \in Cutting(size)
  <2>. HIDE DEF res, len, w
  <2>1. Len(res.text) = len + w
    BY <1>7, <1>8
  <2>2. res.seen - Len(res.text) = open.seen - len /\ len + w <= size /\ len + w <= res.seen
    BY <1>1, <1>2, <1>4, <1>8, <2>1
  <2>3. res.text = P!Numbers(res.seen - Len(res.text), Len(res.text))
    BY <1>8, <2>1, <2>2
  <2>4. \E c : Chain(res.parts, c, res.seen - Len(res.text))
    BY <1>2, <1>8, <2>2 DEF Cutting, len
  <2>5. \A i \in 1..Len(res.parts) : Len(res.parts[i].text) <= size
    BY <1>2, <1>8 DEF Cutting
  <2>. QED
    BY <1>9, <2>1, <2>2, <2>3, <2>4, <2>5 DEF Cutting
<1>. QED
  BY <1>2, <1>8, <1>10

\* How many pieces there are of a chapter.
LEMMA PiecesFit ==
    ASSUME NEW w \in Nat, NEW size \in Nat \ {0}, w > 0
    PROVE  LET n == (w + size - 1) \div size IN n \in Nat \ {0} /\ (n - 1) * size < w /\ w <= n * size
<1>. DEFINE n == (w + size - 1) \div size
<1>1. n \in Nat /\ n * size <= w + size - 1 /\ w + size - 1 < (n + 1) * size
  OBVIOUS
<1>2. (n - 1) * size = n * size - size /\ (n + 1) * size = n * size + size
  BY <1>1
<1>. HIDE DEF n
<1>3. (n - 1) * size < w /\ w <= n * size
  <2>1. n * size \in Int /\ (n - 1) * size \in Int /\ (n + 1) * size \in Int
    BY <1>1
  <2>. QED
    BY <1>1, <1>2, <2>1
<1>4. n # 0
  <2>1. 0 * size = 0
    OBVIOUS
  <2>. QED
    BY <1>3, <2>1
<1>. QED
  BY <1>1, <1>3, <1>4 DEF n

\* A piece of a long chapter.
Piece(st, s, size, total, i) ==
    LET n   == (s.words + size - 1) \div size
        len == IF i < n THEN size ELSE s.words - (n - 1) * size
    IN  P!Flush([st EXCEPT !.text = P!Numbers(st.seen, len), !.seen = @ + len,
                           !.titles = <<[title |-> s.title, piece |-> i]>>], total)

\* What a split has so far when no part is open.
Closing(size) == {st \in Cutting(size) : st.text = <<>>}

LEMMA PieceKeeps ==
    ASSUME NEW size \in Nat \ {0}, NEW s \in P!Section, s.words > size, NEW total \in Nat,
           NEW n, n = (s.words + size - 1) \div size, NEW i \in 1..n, NEW st \in Closing(size)
    PROVE  /\ Piece(st, s, size, total, i) \in Closing(size)
           /\ Piece(st, s, size, total, i).seen = st.seen + (IF i < n THEN size ELSE s.words - (n - 1) * size)
<1>. DEFINE w == s.words
            len == IF i < n THEN size ELSE w - (n - 1) * size
            txt == P!Numbers(st.seen, len)
            ttl == <<[title |-> s.title, piece |-> i]>>
            mid == [st EXCEPT !.text = txt, !.seen = st.seen + len, !.titles = ttl]
<1>1. w \in Nat /\ s.title \in Headings /\ w > 0
  BY PartsAssumption DEF P!Section
<1>2. n \in Nat \ {0} /\ (n - 1) * size < w /\ w <= n * size
  BY <1>1, PiecesFit
<1>3. len \in Nat /\ len <= size
  <2>1. n * size = (n - 1) * size + size /\ (n - 1) * size \in Int
    BY <1>2
  <2>. QED
    BY <1>1, <1>2, <2>1
<1>. HIDE DEF len
<1>4. st \in SplitState /\ st.text = <<>> /\ st.seen \in Nat /\ st \in Cutting(size)
  BY DEF Closing, Cutting, SplitState
<1>5. txt \in Seq(Nat) /\ Len(txt) = len
  BY <1>3, <1>4, NumbersAre
<1>6. ttl \in Seq(Heading)
  <2>1. [title |-> s.title, piece |-> i] \in Heading
    BY <1>1 DEF Heading
  <2>. QED
    BY <2>1
<1>. HIDE DEF txt, ttl
<1>7. mid = [parts |-> st.parts, text |-> txt, titles |-> ttl, seen |-> st.seen + len]
  <2>1. st = [parts |-> st.parts, text |-> st.text, titles |-> st.titles, seen |-> st.seen]
    BY <1>4 DEF SplitState
  <2>2. DOMAIN mid = {"parts", "text", "titles", "seen"}
    BY <2>1
  <2>3. mid.parts = st.parts /\ mid.text = txt /\ mid.titles = ttl /\ mid.seen = st.seen + len
    BY <2>1
  <2>4. mid = [k \in DOMAIN mid |-> mid[k]]
    OBVIOUS
  <2>5. \A k \in DOMAIN mid : mid[k] = [parts |-> st.parts, text |-> txt, titles |-> ttl, seen |-> st.seen + len][k]
    <3>. HIDE DEF mid
    <3>. QED
      BY <2>2, <2>3
  <2>. HIDE DEF mid
  <2>. QED
    BY <2>2, <2>4, <2>5
<1>8. mid \in SplitState
  BY <1>3, <1>4, <1>5, <1>6, <1>7 DEF SplitState
<1>. HIDE DEF mid
<1>9. mid.text = txt /\ mid.seen = st.seen + len /\ mid.parts = st.parts
  BY <1>7
<1>10. mid.seen - Len(mid.text) = st.seen /\ Len(mid.text) <= size /\ Len(mid.text) <= mid.seen
  BY <1>3, <1>4, <1>5, <1>9
<1>11. Len(st.text) = 0 /\ st.seen - 0 = st.seen
  BY <1>4
<1>12. mid \in Cutting(size)
  <2>1. mid.text = P!Numbers(mid.seen - Len(mid.text), Len(mid.text))
    BY <1>5, <1>9, <1>10 DEF txt
  <2>2. \E e : Chain(mid.parts, e, mid.seen - Len(mid.text))
    BY <1>4, <1>9, <1>10, <1>11 DEF Cutting
  <2>3. \A k \in 1..Len(mid.parts) : Len(mid.parts[k].text) <= size
    BY <1>4, <1>9 DEF Cutting
  <2>. QED
    BY <1>8, <1>10, <2>1, <2>2, <2>3 DEF Cutting
<1>13. Piece(st, s, size, total, i) = P!Flush(mid, total)
  BY DEF Piece, mid, txt, ttl, len
<1>14. P!Flush(mid, total) \in Cutting(size) /\ P!Flush(mid, total).text = <<>> /\ P!Flush(mid, total).seen = mid.seen
  BY <1>12, FlushKeeps
<1>. QED
  BY <1>9, <1>13, <1>14 DEF Closing, len

\* A chapter longer than a part becomes parts of its own.
LEMMA LongChapterKeeps ==
    ASSUME NEW size \in Nat \ {0}, NEW s \in P!Section, s.words > size, NEW total \in Nat, NEW st \in Cutting(size)
    PROVE  /\ P!CutChapter(st, s, size, total) \in Closing(size)
           /\ P!CutChapter(st, s, size, total).seen = st.seen + s.words
<1>. DEFINE w == s.words
            n == (w + size - 1) \div size
            from == P!Flush(st, total)
            seq == P!Numbers(0, n)
            Next0(g) == [K \in SUBSET DOMAIN seq |->
                           IF K = {} THEN from ELSE Piece(g[K \ {P!Max(K)}], s, size, total, seq[P!Max(K)])]
            h == CHOOSE g : g = Next0(g)
            V == Closing(size)
            step == [p \in (1..n) \X V |-> Piece(p[2], s, size, total, p[1])]
<1>1. w \in Nat /\ w > 0
  BY PartsAssumption DEF P!Section
<1>2. n \in Nat \ {0} /\ (n - 1) * size < w /\ w <= n * size
  BY <1>1, PiecesFit
<1>3. P!CutChapter(st, s, size, total) = h[DOMAIN seq]
  BY DEF P!CutChapter, P!FoldLeft, P!MapThenFoldSet, Piece
<1>4. DOMAIN seq = 1..n /\ \A i \in 1..n : seq[i] = i
  <2>1. \A i \in 1..n : 0 + i = i
    OBVIOUS
  <2>. QED
    BY <2>1 DEF P!Numbers
<1>5. from \in V /\ from.seen = st.seen /\ st.seen \in Nat
  <2>1. st.seen \in Nat
    BY DEF Cutting, SplitState
  <2>2. size \in Nat
    OBVIOUS
  <2>. QED
    BY <2>1, <2>2, FlushKeeps DEF Closing
<1>6. \A i \in 1..n, v \in V : /\ Piece(v, s, size, total, i) \in V
                              /\ Piece(v, s, size, total, i).seen = v.seen + (IF i < n THEN size ELSE w - (n - 1) * size)
  BY PieceKeeps
<1>. HIDE DEF V, from, seq, n
<1>7. step \in [(1..n) \X V -> V] /\ \A i \in 1..n, v \in V : step[<<i, v>>] = Piece(v, s, size, total, i)
  BY <1>6
<1>. HIDE DEF step
<1>8. PICK g : Folds(n, V, from, step, g)
  BY <1>2, <1>5, <1>7, FoldExists
<1>9. g \in [SUBSET (1..n) -> V] /\ \A K \in SUBSET (1..n) : g[K] = IF K = {} THEN from ELSE step[<<P!Max(K), g[K \ {P!Max(K)}]>>]
  BY <1>8 DEF Folds, Unfolds
<1>10. g = Next0(g)
  <2>1. ASSUME NEW K \in SUBSET (1..n), K # {}
        PROVE  g[K] = Piece(g[K \ {P!Max(K)}], s, size, total, seq[P!Max(K)])
    <3>1. P!Max(K) \in 1..n
      BY <1>2, <2>1, MaxIsIn
    <3>2. g[K \ {P!Max(K)}] \in V
      BY <1>9
    <3>3. g[K] = step[<<P!Max(K), g[K \ {P!Max(K)}]>>]
      BY <1>9, <2>1
    <3>. QED
      BY <1>4, <1>7, <3>1, <3>2, <3>3
  <2>. QED
    BY <1>4, <1>9, <2>1
<1>11. h = Next0(h)
  <2>. HIDE DEF Next0
  <2>. QED
    BY <1>10
<1>. HIDE DEF h
<1>12. h[{}] = from /\ \A K \in SUBSET (1..n) : K # {} /\ h[K \ {P!Max(K)}] \in V => h[K] = step[<<P!Max(K), h[K \ {P!Max(K)}]>>]
  <2>1. ASSUME NEW K \in SUBSET (1..n)
        PROVE  h[K] = IF K = {} THEN from ELSE Piece(h[K \ {P!Max(K)}], s, size, total, seq[P!Max(K)])
    BY <1>4, <1>11
  <2>2. h[{}] = from
    BY <2>1
  <2>3. ASSUME NEW K \in SUBSET (1..n), K # {}, h[K \ {P!Max(K)}] \in V
        PROVE  h[K] = step[<<P!Max(K), h[K \ {P!Max(K)}]>>]
    <3>1. P!Max(K) \in 1..n
      BY <1>2, <2>3, MaxIsIn
    <3>2. seq[P!Max(K)] = P!Max(K)
      BY <1>4, <3>1
    <3>3. step[<<P!Max(K), h[K \ {P!Max(K)}]>>] = Piece(h[K \ {P!Max(K)}], s, size, total, P!Max(K))
      BY <1>7, <2>3, <3>1
    <3>. QED
      BY <2>1, <2>3, <3>2, <3>3
  <2>. QED
    BY <2>2, <2>3
<1>. HIDE DEF Next0
<1>13. /\ h[1..0] = from /\ \A i \in 0..n : h[1..i] \in V
       /\ \A i \in 1..n : h[1..i] = step[<<i, h[1..(i - 1)]>>]
  <2>1. n \in Nat /\ from \in V /\ step \in [(1..n) \X V -> V] /\ h[{}] = from
    BY <1>2, <1>5, <1>7, <1>12
  <2>2. Stepwise(n, V, from, step, h)
    BY <1>5, <1>7, <1>12 DEF Stepwise
  <2>. QED
    BY <2>1, <2>2, FoldStays
<1>14. ASSUME NEW i \in 1..n
       PROVE  h[1..i].seen = h[1..(i - 1)].seen + (IF i < n THEN size ELSE w - (n - 1) * size)
  <2>1. i - 1 \in 0..n
    BY <1>2
  <2>2. h[1..(i - 1)] \in V
    BY <1>13, <2>1
  <2>3. h[1..i] = Piece(h[1..(i - 1)], s, size, total, i)
    BY <1>7, <1>13, <2>2
  <2>. HIDE DEF w
  <2>. QED
    BY <1>6, <2>2, <2>3
<1>15. \A i \in Nat : i < n => h[1..i].seen = st.seen + i * size
  <2>. DEFINE G == {i \in Nat : i < n => h[1..i].seen = st.seen + i * size}
  <2>1. 0 \in G
    <3>1. 0 * size = 0 /\ st.seen + 0 = st.seen
      BY <1>5
    <3>. QED
      BY <1>5, <1>13, <3>1
  <2>2. ASSUME NEW i \in G
        PROVE  i + 1 \in G
    <3>1. SUFFICES ASSUME i + 1 < n
                   PROVE  h[1..(i + 1)].seen = st.seen + (i + 1) * size
      OBVIOUS
    <3>2. i + 1 \in 1..n /\ (i + 1) - 1 = i /\ i < n
      BY <1>2, <3>1
    <3>3. h[1..(i + 1)].seen = h[1..i].seen + size
      BY <1>14, <3>1, <3>2
    <3>4. h[1..i].seen = st.seen + i * size
      BY <3>2
    <3>5. (i + 1) * size = i * size + size /\ i * size \in Int
      OBVIOUS
    <3>. QED
      BY <1>5, <3>3, <3>4, <3>5
  <2>3. G = Nat
    <3>1. G \in SUBSET Nat
      OBVIOUS
    <3>. HIDE DEF G
    <3>. QED
      BY <2>1, <2>2, <3>1, Climb
  <2>. QED
    BY <2>3
<1>16. h[1..n].seen = st.seen + w
  <2>1. n \in 1..n /\ n - 1 \in Nat /\ n - 1 < n /\ ~(n < n)
    BY <1>2
  <2>2. h[1..n].seen = h[1..(n - 1)].seen + (w - (n - 1) * size)
    BY <1>14, <2>1
  <2>3. h[1..(n - 1)].seen = st.seen + (n - 1) * size /\ (n - 1) * size \in Int
    BY <1>2, <1>15, <2>1
  <2>. QED
    BY <1>1, <1>5, <2>2, <2>3
<1>17. h[1..n] \in V
  <2>1. n \in 0..n
    BY <1>2
  <2>. QED
    BY <1>13, <2>1
<1>. QED
  BY <1>3, <1>4, <1>16, <1>17 DEF V

\* A section more, long or short.
Cut(st, s, size, total) ==
    IF s.words > size THEN P!CutChapter(st, s, size, total) ELSE P!AddChapter(st, s, size, total)

\* A split has nothing to begin with.
Nothing == [parts |-> <<>>, text |-> <<>>, titles |-> <<>>, seen |-> 0]

LEMMA CutKeeps ==
    ASSUME NEW size \in Nat \ {0}, NEW s \in P!Section, NEW total \in Nat, NEW st \in Cutting(size)
    PROVE  /\ Cut(st, s, size, total) \in Cutting(size)
           /\ Cut(st, s, size, total).seen = st.seen + s.words
<1>1. CASE s.words > size
  <2>1. /\ P!CutChapter(st, s, size, total) \in Closing(size)
        /\ P!CutChapter(st, s, size, total).seen = st.seen + s.words
    BY <1>1, LongChapterKeeps
  <2>. QED
    BY <1>1, <2>1 DEF Cut, Closing
<1>2. CASE ~(s.words > size)
  <2>1. s.words \in Nat
    BY PartsAssumption DEF P!Section
  <2>2. s.words <= size /\ size \in Nat
    BY <1>2, <2>1
  <2>3. /\ P!AddChapter(st, s, size, total) \in Cutting(size)
        /\ P!AddChapter(st, s, size, total).seen = st.seen + s.words
    BY <2>2, ChapterKeeps
  <2>. QED
    BY <1>2, <2>3 DEF Cut
<1>. QED
  BY <1>1, <1>2

LEMMA NothingIsCutting ==
    ASSUME NEW size \in Nat \ {0}
    PROVE  Nothing \in Cutting(size)
<1>. DEFINE c == [i \in 0..0 |-> 0]
<1>1. Nothing \in SplitState
  BY DEF Nothing, SplitState
<1>2. Chain(<<>>, c, 0)
  BY DEF Chain
<1>3. P!Numbers(0, 0) = <<>>
  BY DEF P!Numbers
<1>. HIDE DEF c
<1>4. Nothing.text = <<>> /\ Nothing.seen = 0 /\ Nothing.parts = <<>> /\ Len(Nothing.text) = 0 /\ 0 - 0 = 0
  BY DEF Nothing
<1>. QED
  BY <1>1, <1>2, <1>3, <1>4 DEF Cutting

\* A split is the book in order, in parts that are as long as they may be at most.
LEMMA SplitIs ==
    ASSUME NEW ss \in Seq(P!Section), NEW size \in Nat \ {0}
    PROVE  /\ P!TotalOf(ss) \in Nat
           /\ P!Split(ss, size) \in Seq(FirstPart)
           /\ \E c : Chain(P!Split(ss, size), c, P!TotalOf(ss))
           /\ \A i \in 1..Len(P!Split(ss, size)) : Len(P!Split(ss, size)[i].text) <= size
<1>. DEFINE n == Len(ss)
            total == P!TotalOf(ss)
            Next0(g) == [K \in SUBSET DOMAIN ss |-> IF K = {} THEN Nothing ELSE Cut(g[K \ {P!Max(K)}], ss[P!Max(K)], size, total)]
            h == CHOOSE g : g = Next0(g)
            V == Cutting(size)
            step == [p \in (1..n) \X V |-> Cut(p[2], ss[p[1]], size, total)]
<1>1. n \in Nat /\ DOMAIN ss = 1..n /\ \A i \in 1..n : ss[i] \in P!Section /\ ss[i].words \in Nat
  <2>1. n \in Nat /\ DOMAIN ss = 1..n /\ \A i \in 1..n : ss[i] \in P!Section
    OBVIOUS
  <2>2. \A s \in P!Section : s.words \in Nat
    BY PartsAssumption DEF P!Section
  <2>. QED
    BY <2>1, <2>2
<1>2. PICK x : Runs(n, WordsOf(ss), x) /\ total = x[n]
  <2>1. \A s \in P!Section : s.words \in Nat
    BY PartsAssumption DEF P!Section
  <2>. QED
    BY <2>1, TotalIsRun
<1>3. /\ x \in [0..n -> Nat] /\ x[0] = 0
      /\ \A i \in 1..n : x[i] = x[i - 1] + ss[i].words
  BY <1>2 DEF Runs, WordsOf
<1>4. total \in Nat
  BY <1>1, <1>2, <1>3
<1>5. P!Split(ss, size) = P!Flush(h[DOMAIN ss], total).parts
  BY DEF P!Split, P!FoldLeft, P!MapThenFoldSet, Cut, Nothing
<1>6. \A i \in 1..n, v \in V : Cut(v, ss[i], size, total) \in V /\ Cut(v, ss[i], size, total).seen = v.seen + ss[i].words
  <2>. HIDE DEF total
  <2>. QED
    BY <1>1, <1>4, CutKeeps
<1>7. Nothing \in V /\ Nothing.seen = 0
  BY NothingIsCutting DEF Nothing
<1>. HIDE DEF V, total, n
<1>8. step \in [(1..n) \X V -> V] /\ \A i \in 1..n, v \in V : step[<<i, v>>] = Cut(v, ss[i], size, total)
  BY <1>6
<1>. HIDE DEF step
<1>9. PICK g : Folds(n, V, Nothing, step, g)
  BY <1>1, <1>7, <1>8, FoldExists
<1>10. g \in [SUBSET (1..n) -> V] /\ \A K \in SUBSET (1..n) : g[K] = IF K = {} THEN Nothing ELSE step[<<P!Max(K), g[K \ {P!Max(K)}]>>]
  BY <1>9 DEF Folds, Unfolds
<1>11. g = Next0(g)
  <2>1. ASSUME NEW K \in SUBSET (1..n), K # {}
        PROVE  g[K] = Cut(g[K \ {P!Max(K)}], ss[P!Max(K)], size, total)
    <3>1. P!Max(K) \in 1..n
      BY <1>1, <2>1, MaxIsIn
    <3>2. g[K \ {P!Max(K)}] \in V
      BY <1>10
    <3>3. g[K] = step[<<P!Max(K), g[K \ {P!Max(K)}]>>]
      BY <1>10, <2>1
    <3>. QED
      BY <1>8, <3>1, <3>2, <3>3
  <2>. QED
    BY <1>1, <1>10, <2>1
<1>12. h = Next0(h)
  <2>. HIDE DEF Next0
  <2>. QED
    BY <1>11
<1>. HIDE DEF h
<1>13. Stepwise(n, V, Nothing, step, h)
  <2>1. ASSUME NEW K \in SUBSET (1..n)
        PROVE  h[K] = IF K = {} THEN Nothing ELSE Cut(h[K \ {P!Max(K)}], ss[P!Max(K)], size, total)
    BY <1>1, <1>12
  <2>2. h[{}] = Nothing
    BY <2>1
  <2>3. ASSUME NEW K \in SUBSET (1..n), K # {}, h[K \ {P!Max(K)}] \in V
        PROVE  h[K] = step[<<P!Max(K), h[K \ {P!Max(K)}]>>]
    <3>1. P!Max(K) \in 1..n
      BY <1>1, <2>3, MaxIsIn
    <3>3. step[<<P!Max(K), h[K \ {P!Max(K)}]>>] = Cut(h[K \ {P!Max(K)}], ss[P!Max(K)], size, total)
      BY <1>8, <2>3, <3>1
    <3>. QED
      BY <2>1, <2>3, <3>3
  <2>. QED
    BY <1>7, <1>8, <2>2, <2>3 DEF Stepwise
<1>. HIDE DEF Next0
<1>14. /\ h[1..0] = Nothing
       /\ \A i \in 0..n : h[1..i] \in V
       /\ \A i \in 1..n : h[1..i] = step[<<i, h[1..(i - 1)]>>]
  BY <1>1, <1>13, FoldStays
<1>15. ASSUME NEW i \in 1..n
       PROVE  h[1..i].seen = h[1..(i - 1)].seen + ss[i].words
  <2>1. i - 1 \in 0..n
    BY <1>1
  <2>2. h[1..(i - 1)] \in V
    BY <1>14, <2>1
  <2>3. h[1..i] = Cut(h[1..(i - 1)], ss[i], size, total)
    BY <1>8, <1>14, <2>2
  <2>. QED
    BY <1>6, <2>2, <2>3
<1>16. \A i \in Nat : i <= n => h[1..i].seen = x[i]
  <2>. DEFINE G == {i \in Nat : i <= n => h[1..i].seen = x[i]}
  <2>1. 0 \in G
    BY <1>3, <1>7, <1>14
  <2>2. ASSUME NEW i \in G
        PROVE  i + 1 \in G
    <3>1. SUFFICES ASSUME i + 1 <= n
                   PROVE  h[1..(i + 1)].seen = x[i + 1]
      OBVIOUS
    <3>2. i + 1 \in 1..n /\ (i + 1) - 1 = i /\ i <= n
      BY <1>1, <3>1
    <3>3. h[1..(i + 1)].seen = h[1..i].seen + ss[i + 1].words
      BY <1>15, <3>2
    <3>4. h[1..i].seen = x[i]
      BY <3>2
    <3>5. x[i + 1] = x[i] + ss[i + 1].words
      BY <1>3, <3>2
    <3>. QED
      BY <3>3, <3>4, <3>5
  <2>3. G = Nat
    <3>1. G \in SUBSET Nat
      OBVIOUS
    <3>. HIDE DEF G
    <3>. QED
      BY <2>1, <2>2, <3>1, Climb
  <2>. QED
    BY <2>3
<1>. DEFINE all == h[1..n]
            res == P!Flush(all, total)
<1>17. all \in Cutting(size) /\ all.seen = total
  <2>1. n \in 0..n /\ n <= n
    BY <1>1
  <2>. QED
    BY <1>1, <1>2, <1>14, <1>16, <2>1 DEF V
<1>. HIDE DEF all
<1>18. res \in Cutting(size) /\ res.text = <<>> /\ res.seen = total
  <2>1. size \in Nat
    OBVIOUS
  <2>. QED
    BY <1>4, <1>17, <2>1, FlushKeeps
<1>19. P!Split(ss, size) = res.parts
  BY <1>1, <1>5 DEF all
<1>. HIDE DEF res
<1>20. Len(res.text) = 0 /\ total - 0 = total
  BY <1>4, <1>18
<1>21. res.parts \in Seq(FirstPart)
  BY <1>18 DEF Cutting, SplitState
<1>22. \E c : Chain(res.parts, c, total)
  BY <1>18, <1>20 DEF Cutting
<1>23. \A i \in 1..Len(res.parts) : Len(res.parts[i].text) <= size
  BY <1>18 DEF Cutting
<1>. QED
  BY <1>4, <1>19, <1>21, <1>22, <1>23 DEF total

\* Some of the words in order, after the first u of them.
Within(f, l, u, v) == SubSeq(P!Numbers(f, l), u + 1, v)

\* A part of the words in order is the words in order.
LEMMA NumbersWithin ==
    ASSUME NEW from \in Nat, NEW k \in Nat, NEW a \in Nat, NEW b \in Nat, a <= b, b <= k
    PROVE  Within(from, k, a, b) = P!Numbers(from + a, b - a)
<1>. DEFINE s == P!Numbers(from, k)
            r == SubSeq(s, a + 1, b)
            j == P!Numbers(from + a, b - a)
<1>1. s \in Seq(Nat) /\ Len(s) = k /\ \A i \in 1..k : s[i] = from + i
  BY NumbersAre
<1>2. j \in Seq(Nat) /\ Len(j) = b - a /\ \A i \in 1..(b - a) : j[i] = (from + a) + i
  <2>1. from + a \in Nat /\ b - a \in Nat
    OBVIOUS
  <2>. QED
    BY <2>1, NumbersAre
<1>3. a + 1 \in Int /\ b \in Int /\ \A i \in (a + 1)..b : s[i] \in Nat
  <2>. HIDE DEF s
  <2>. QED
    BY <1>1
<1>. HIDE DEF s, j
<1>4. r \in Seq(Nat) /\ Len(r) = b - a /\ \A i \in 1..(b - a) : r[i] = s[a + i]
  <2>1. /\ SubSeq(s, a + 1, b) \in Seq(Nat)
        /\ Len(SubSeq(s, a + 1, b)) = IF a + 1 <= b THEN b - (a + 1) + 1 ELSE 0
        /\ \A i \in 1..(b - (a + 1) + 1) : SubSeq(s, a + 1, b)[i] = s[(a + 1) + i - 1]
    BY <1>3, SubSeqProperties
  <2>2. (IF a + 1 <= b THEN b - (a + 1) + 1 ELSE 0) = b - a /\ b - (a + 1) + 1 = b - a
    OBVIOUS
  <2>3. \A i \in 1..(b - a) : (a + 1) + i - 1 = a + i
    OBVIOUS
  <2>. QED
    BY <2>1, <2>2, <2>3
<1>. HIDE DEF r
<1>5. \A i \in 1..(b - a) : r[i] = j[i]
  <2>1. \A i \in 1..(b - a) : a + i \in 1..k /\ from + (a + i) = (from + a) + i
    OBVIOUS
  <2>. QED
    BY <1>1, <1>2, <1>4, <2>1
<1>6. r = j
  BY <1>2, <1>4, <1>5, SeqEqual
<1>7. Within(from, k, a, b) = r
  BY Zenon DEF Within, r, s
<1>. QED
  BY <1>6, <1>7 DEF j

\* What is joined one after the other.
Joined(seqs, g) ==
    g = [i \in 1..Len(seqs) |-> IF i = 1 THEN seqs[i] ELSE g[i - 1] \o seqs[i]]

\* The places between the parts go up.
LEMMA ChainClimbs ==
    ASSUME NEW ps, NEW c, NEW total, Len(ps) \in Nat, Chain(ps, c, total)
    PROVE  \A i \in 0..Len(ps) : c[i] \in Nat /\ c[i] <= total
<1>. DEFINE n == Len(ps)
            G == {k \in Nat : k <= n => c[n - k] <= total}
<1>1. c \in [0..n -> Nat] /\ c[n] = total /\ \A i \in 1..n : c[i - 1] <= c[i]
  BY DEF Chain
<1>. HIDE DEF n
<1>2. n \in Nat
  BY DEF n
<1>3. total \in Nat
  BY <1>1, <1>2
<1>4. 0 \in G
  <2>1. n - 0 = n /\ total <= total
    BY <1>2, <1>3
  <2>. QED
    BY <1>1, <2>1
<1>5. ASSUME NEW k \in G
      PROVE  k + 1 \in G
  <2>1. SUFFICES ASSUME k + 1 <= n
                 PROVE  c[n - (k + 1)] <= total
    OBVIOUS
  <2>2. n - k \in 1..n /\ (n - k) - 1 = n - (k + 1) /\ n - (k + 1) \in 0..n /\ n - k \in 0..n /\ k <= n
    BY <1>2, <2>1
  <2>3. c[n - (k + 1)] <= c[n - k] /\ c[n - k] <= total
    BY <1>1, <2>2
  <2>4. c[n - (k + 1)] \in Nat /\ c[n - k] \in Nat
    BY <1>1, <2>2
  <2>. QED
    BY <1>3, <2>3, <2>4
<1>6. G = Nat
  <2>1. G \in SUBSET Nat
    OBVIOUS
  <2>. HIDE DEF G
  <2>. QED
    BY <1>4, <1>5, <2>1, Climb
<1>7. ASSUME NEW i \in 0..n
      PROVE  c[i] <= total
  <2>1. n - i \in Nat /\ n - i <= n /\ n - (n - i) = i
    BY <1>2
  <2>. QED
    BY <1>6, <2>1
<1>. QED
  BY <1>1, <1>7 DEF n

\* The parts joined are the book in order.
LEMMA ChainJoins ==
    ASSUME NEW R, NEW ps \in Seq(R), NEW c, NEW total, Chain(ps, c, total)
    PROVE  P!FlattenSeq([i \in DOMAIN ps |-> ps[i].text]) = P!Numbers(0, total)
<1>. DEFINE n == Len(ps)
            texts == [i \in DOMAIN ps |-> ps[i].text]
            g == [i \in 1..n |-> P!Numbers(0, c[i])]
            h == CHOOSE f : Joined(texts, f)
<1>1. n \in Nat /\ DOMAIN ps = 1..n /\ Len(texts) = n
  <2>1. n \in Nat /\ DOMAIN ps = 1..n
    OBVIOUS
  <2>2. texts \in Seq({ps[i].text : i \in 1..n})
    BY <2>1
  <2>. QED
    BY <2>1
<1>2. /\ c \in [0..n -> Nat] /\ c[0] = 0 /\ c[n] = total
      /\ \A i \in 1..n : c[i - 1] <= c[i] /\ texts[i] = P!Numbers(c[i - 1], c[i] - c[i - 1])
  BY <1>1 DEF Chain
<1>. HIDE DEF texts, n
<1>3. CASE n = 0
  <2>1. texts = <<>>
    BY <1>1, <1>3 DEF texts
  <2>2. P!Numbers(0, total) = <<>>
    BY <1>2, <1>3 DEF P!Numbers
  <2>3. P!FlattenSeq(texts) = texts
    BY <1>1, <1>3 DEF P!FlattenSeq
  <2>. QED
    BY <2>1, <2>2, <2>3 DEF texts
<1>4. CASE n # 0
  <2>1. P!FlattenSeq(texts) = h[n]
    BY <1>1, <1>4 DEF P!FlattenSeq, Joined
  <2>2. Joined(texts, g)
    <3>1. ASSUME NEW i \in 1..n
          PROVE  g[i] = IF i = 1 THEN texts[i] ELSE g[i - 1] \o texts[i]
      <4>1. CASE i = 1
        <5>1. c[i - 1] = 0 /\ c[i] - 0 = c[i]
          BY <1>2, <4>1
        <5>. QED
          BY <1>2, <4>1, <5>1
      <4>2. CASE i # 1
        <5>1. i - 1 \in 1..n /\ i - 1 \in 0..n /\ i \in 0..n
          BY <1>1, <4>2
        <5>2. c[i - 1] \in Nat /\ c[i] - c[i - 1] \in Nat /\ 0 + c[i - 1] = c[i - 1] /\ c[i - 1] + (c[i] - c[i - 1]) = c[i]
          BY <1>2, <5>1
        <5>3. \A from, k, l \in Nat : P!Numbers(from, k) \o P!Numbers(from + k, l) = P!Numbers(from, k + l)
          BY NumbersJoin
        <5>4. P!Numbers(0, c[i - 1]) \o P!Numbers(0 + c[i - 1], c[i] - c[i - 1]) = P!Numbers(0, c[i - 1] + (c[i] - c[i - 1]))
          BY <5>2, <5>3
        <5>5. P!Numbers(0, c[i - 1]) \o texts[i] = P!Numbers(0, c[i])
          BY <1>2, <5>2, <5>4
        <5>. QED
          BY <4>2, <5>1, <5>5
      <4>. QED
        BY <4>1, <4>2
    <3>. QED
      BY <1>1, <3>1 DEF Joined
  <2>. HIDE DEF g
  <2>3. Joined(texts, h)
    BY <2>2
  <2>. HIDE DEF h
  <2>. DEFINE G == {i \in Nat : i + 1 <= n => h[i + 1] = g[i + 1]}
  <2>4. \A i \in 1..n : h[i] = IF i = 1 THEN texts[i] ELSE h[i - 1] \o texts[i]
    BY <1>1, <2>3 DEF Joined
  <2>5. \A i \in 1..n : g[i] = IF i = 1 THEN texts[i] ELSE g[i - 1] \o texts[i]
    BY <1>1, <2>2 DEF Joined
  <2>6. 0 \in G
    BY <1>1, <1>4, <2>4, <2>5
  <2>7. ASSUME NEW i \in G
        PROVE  i + 1 \in G
    <3>1. SUFFICES ASSUME i + 2 <= n
                   PROVE  h[i + 2] = g[i + 2]
      OBVIOUS
    <3>2. i + 2 \in 1..n /\ (i + 2) - 1 = i + 1 /\ i + 2 # 1 /\ i + 1 <= n
      BY <1>1, <3>1
    <3>. QED
      BY <2>4, <2>5, <3>2
  <2>8. G = Nat
    <3>1. G \in SUBSET Nat
      OBVIOUS
    <3>. HIDE DEF G
    <3>. QED
      BY <2>6, <2>7, <3>1, Climb
  <2>9. h[n] = g[n]
    <3>1. n - 1 \in Nat /\ (n - 1) + 1 = n /\ (n - 1) + 1 <= n
      BY <1>1, <1>4
    <3>. QED
      BY <2>8, <3>1
  <2>10. g[n] = P!Numbers(0, total)
    BY <1>1, <1>2, <1>4 DEF g
  <2>. QED
    BY <2>1, <2>9, <2>10 DEF texts
<1>. QED
  BY <1>3, <1>4

\* Where a part begins is where the one before it ends.
LEMMA PlaceInChain ==
    ASSUME NEW R, \A p \in R : p.text \in Seq(Nat), NEW ps \in Seq(R), NEW c, NEW total, Chain(ps, c, total),
           NEW i \in 1..Len(ps)
    PROVE  /\ P!Upto(ps, i) = c[i - 1]
           /\ c[i - 1] + Len(ps[i].text) = c[i]
<1>. DEFINE n == Len(ps)
            before == SubSeq(ps, 1, i - 1)
<1>1. n \in Nat /\ i - 1 \in Nat /\ i - 1 <= n
  OBVIOUS
<1>2. before \in Seq(R) /\ Len(before) = i - 1 /\ \A k \in 1..(i - 1) : before[k] = ps[k]
  <2>1. \A k \in 1..(i - 1) : ps[k] \in R
    OBVIOUS
  <2>2. 1 \in Int /\ i - 1 \in Int
    BY <1>1
  <2>3. /\ SubSeq(ps, 1, i - 1) \in Seq(R)
        /\ Len(SubSeq(ps, 1, i - 1)) = IF 1 <= i - 1 THEN (i - 1) - 1 + 1 ELSE 0
        /\ \A k \in 1..((i - 1) - 1 + 1) : SubSeq(ps, 1, i - 1)[k] = ps[1 + k - 1]
    BY <2>1, <2>2, SubSeqProperties
  <2>4. (IF 1 <= i - 1 THEN (i - 1) - 1 + 1 ELSE 0) = i - 1 /\ (i - 1) - 1 + 1 = i - 1 /\ \A k \in 1..(i - 1) : 1 + k - 1 = k
    BY <1>1
  <2>. QED
    BY <2>3, <2>4
<1>. HIDE DEF before
<1>3. \A p \in R : Len(p.text) \in Nat
  OBVIOUS
<1>4. PICK z : Runs(i - 1, LengthOf(before), z) /\ P!FoldLeft(LAMBDA m, p : m + Len(p.text), 0, before) = z[i - 1]
  BY <1>2, <1>3, UptoIsRun
<1>5. /\ c \in [0..n -> Nat] /\ c[0] = 0
      /\ \A k \in 1..n : c[k - 1] <= c[k] /\ ps[k].text = P!Numbers(c[k - 1], c[k] - c[k - 1])
  BY DEF Chain
<1>6. \A k \in 1..n : c[k - 1] + Len(ps[k].text) = c[k]
  <2>1. SUFFICES ASSUME NEW k \in 1..n
                 PROVE  c[k - 1] + Len(ps[k].text) = c[k]
    OBVIOUS
  <2>2. k - 1 \in 0..n /\ k \in 0..n
    BY <1>1
  <2>3. c[k - 1] \in Nat /\ c[k] \in Nat /\ c[k] - c[k - 1] \in Nat
    <3>1. c \in [0..n -> Nat] /\ c[k - 1] <= c[k]
      BY <1>5
    <3>2. c[k - 1] \in Nat /\ c[k] \in Nat
      <4>. HIDE DEF n
      <4>. QED
        BY <2>2, <3>1
    <3>. QED
      BY <3>1, <3>2
  <2>4. Len(ps[k].text) = c[k] - c[k - 1]
    <3>1. \A from, l \in Nat : Len(P!Numbers(from, l)) = l
      BY NumbersAre
    <3>. QED
      BY <1>5, <2>3, <3>1
  <2>. QED
    BY <2>3, <2>4
<1>7. Runs(n, LengthOf(ps), c)
  <2>1. \A k \in 1..n : c[k] = c[k - 1] + LengthOf(ps)[k]
    BY <1>6 DEF LengthOf
  <2>. QED
    BY <1>5, <2>1 DEF Runs
<1>8. SameFirst(i - 1, LengthOf(ps), LengthOf(before))
  BY <1>1, <1>2 DEF LengthOf, SameFirst
<1>9. c[i - 1] = z[i - 1]
  <2>1. \A k \in 0..(i - 1) : c[k] = z[k]
    <3>1. Runs(i - 1, LengthOf(before), z)
      BY <1>4
    <3>. HIDE DEF n
    <3>. QED
      BY <1>1, <1>7, <1>8, <3>1, RunsAgree
  <2>. QED
    BY <1>1, <2>1
<1>. QED
  BY <1>4, <1>6, <1>9 DEF P!Upto, before

\* A part as a scan has it, whole or halved.
Names    == Naming \cup {[l EXCEPT !.half = 1] : l \in Naming} \cup {[l EXCEPT !.half = 2] : l \in Naming}
ScanPart == [label : Names, text : Seq(Nat)]

LEMMA NamingIs ==
    ASSUME NEW l \in Naming
    PROVE  l = [k \in DOMAIN l |-> l[k]] /\ "half" \in DOMAIN l /\ l.half = 0
<1>1. PICK q \in Seq(Heading) \X Int \X Nat : l = P!Label(q[1], q[2], q[3])
  BY DEF Naming
<1>. DEFINE named == P!SelectSeq(q[1], LAMBDA t : t.title # "")
            a == [pct |-> (q[2] * 100) \div (IF q[3] = 0 THEN 1 ELSE q[3]), half |-> 0]
            b == [first |-> named[1], half |-> 0]
            e == [first |-> named[1], last |-> P!Last(named), half |-> 0]
<1>2. l \in {a, b, e}
  BY <1>1 DEF P!Label
<1>3. /\ a = [k \in DOMAIN a |-> a[k]] /\ "half" \in DOMAIN a /\ a.half = 0
      /\ b = [k \in DOMAIN b |-> b[k]] /\ "half" \in DOMAIN b /\ b.half = 0
      /\ e = [k \in DOMAIN e |-> e[k]] /\ "half" \in DOMAIN e /\ e.half = 0
  OBVIOUS
<1>. HIDE DEF a, b, e
<1>. QED
  BY <1>2, <1>3

\* Halves are named after what was halved, whole or a half itself.
LEMMA NamesIs ==
    ASSUME NEW l \in Names
    PROVE  /\ "half" \in DOMAIN l
           /\ \A k \in {1, 2} : [l EXCEPT !.half = k] \in Names /\ [l EXCEPT !.half = k].half = k
<1>1. CASE l \in Naming
  <2>1. l = [k \in DOMAIN l |-> l[k]] /\ "half" \in DOMAIN l
    BY <1>1, NamingIs
  <2>2. ASSUME NEW k \in {1, 2}
        PROVE  [l EXCEPT !.half = k] \in Names /\ [l EXCEPT !.half = k].half = k
    <3>1. k = 1 \/ k = 2
      OBVIOUS
    <3>2. [l EXCEPT !.half = k].half = k
      BY <2>1
    <3>3. [l EXCEPT !.half = 1] \in Names /\ [l EXCEPT !.half = 2] \in Names
      BY <1>1 DEF Names
    <3>. QED
      BY <3>1, <3>2, <3>3
  <2>. QED
    BY <2>1, <2>2
<1>2. CASE l \notin Naming
  <2>1. \E o \in Naming : l = [o EXCEPT !.half = 1] \/ l = [o EXCEPT !.half = 2]
    BY <1>2 DEF Names
  <2>2. PICK o \in Naming, j \in {1, 2} : l = [o EXCEPT !.half = j]
    BY <2>1
  <2>3. o = [k \in DOMAIN o |-> o[k]] /\ "half" \in DOMAIN o
    BY NamingIs
  <2>4. \A k \in {1, 2} : [[o EXCEPT !.half = j] EXCEPT !.half = k] = [o EXCEPT !.half = k]
    BY <2>3
  <2>5. "half" \in DOMAIN [o EXCEPT !.half = j] /\ \A k \in {1, 2} : [o EXCEPT !.half = k].half = k
    BY <2>3
  <2>6. ASSUME NEW k \in {1, 2}
        PROVE  [o EXCEPT !.half = k] \in Names
    <3>1. k = 1 \/ k = 2
      OBVIOUS
    <3>2. [o EXCEPT !.half = 1] \in Names /\ [o EXCEPT !.half = 2] \in Names
      BY DEF Names
    <3>. QED
      BY <3>1, <3>2
  <2>. QED
    BY <2>4, <2>5, <2>6, <2>2
<1>. QED
  BY <1>1, <1>2

LEMMA NumbersInside ==
    \A f, l, u, v \in Nat : u <= v /\ v <= l => Within(f, l, u, v) = P!Numbers(f + u, v - u)
  BY NumbersWithin

LEMMA HalvesOfNumbers ==
    \A f, k, m \in Nat : m <= k => SubSeq(P!Numbers(f, k), 1, m) = P!Numbers(f, m) /\ SubSeq(P!Numbers(f, k), m + 1, k) = P!Numbers(f + m, k - m)
<1>1. SUFFICES ASSUME NEW f \in Nat, NEW k \in Nat, NEW m \in Nat, m <= k
               PROVE  SubSeq(P!Numbers(f, k), 1, m) = P!Numbers(f, m) /\ SubSeq(P!Numbers(f, k), m + 1, k) = P!Numbers(f + m, k - m)
  BY Zenon
<1>2. 0 \in Nat /\ 0 <= m /\ k <= k /\ 0 + 1 = 1 /\ f + 0 = f /\ m - 0 = m
  OBVIOUS
<1>3. Within(f, k, 0, m) = P!Numbers(f + 0, m - 0)
  BY <1>1, <1>2, NumbersInside
<1>4. Within(f, k, m, k) = P!Numbers(f + m, k - m)
  BY <1>1, <1>2, NumbersInside
<1>5. Within(f, k, 0, m) = SubSeq(P!Numbers(f, k), 1, m) /\ Within(f, k, m, k) = SubSeq(P!Numbers(f, k), m + 1, k)
  BY <1>2, Zenon DEF Within
<1>. QED
  BY <1>2, <1>3, <1>4, <1>5, Zenon

\* The parts after one of them is halved.
HalvedAt(ps, r) == SubSeq(ps, 1, r) \o P!Halves(ps[r + 1]) \o SubSeq(ps, r + 2, Len(ps))

\* A part that is halved makes room for its halves among the others.
LEMMA HalvedParts ==
    ASSUME NEW ps \in Seq(ScanPart), NEW r \in Nat, r < Len(ps), NEW total, NEW size \in Nat,
           \E c : Chain(ps, c, total), \A i \in 1..Len(ps) : Len(ps[i].text) <= size,
           NEW qs, qs = HalvedAt(ps, r)
    PROVE  /\ qs \in Seq(ScanPart) /\ Len(qs) = Len(ps) + 1
           /\ \E c : Chain(qs, c, total)
           /\ \A i \in 1..Len(qs) : Len(qs[i].text) <= size
           /\ qs[r + 1].label.half = 1
<1>. DEFINE n == Len(ps)
            p == ps[r + 1]
            k == Len(p.text)
            mid == k \div 2
            one == [label |-> [p.label EXCEPT !.half = 1], text |-> SubSeq(p.text, 1, mid)]
            two == [label |-> [p.label EXCEPT !.half = 2], text |-> SubSeq(p.text, mid + 1, k)]
            a == SubSeq(ps, 1, r)
            b == SubSeq(ps, r + 2, n)
<1>1. n \in Nat /\ r + 1 \in 1..n /\ p \in ScanPart /\ k \in Nat /\ mid \in Nat /\ mid <= k
  <2>1. n \in Nat /\ r + 1 \in 1..n /\ p \in ScanPart
    OBVIOUS
  <2>. HIDE DEF p
  <2>2. k \in Nat
    BY <2>1 DEF ScanPart
  <2>. HIDE DEF k
  <2>. QED
    BY <2>1, <2>2
<1>2. PICK c : Chain(ps, c, total)
  OBVIOUS
<1>3. /\ c \in [0..n -> Nat] /\ c[0] = 0 /\ c[n] = total
      /\ \A i \in 1..n : c[i - 1] <= c[i] /\ ps[i].text = P!Numbers(c[i - 1], c[i] - c[i - 1])
  BY <1>2 DEF Chain
<1>4. c[r] \in Nat /\ c[r + 1] \in Nat /\ c[r] + k = c[r + 1] /\ p.text = P!Numbers(c[r], k)
  <2>1. (r + 1) - 1 = r /\ r \in 0..n /\ r + 1 \in 0..n
    BY <1>1
  <2>2. c[r] \in Nat /\ c[r + 1] \in Nat /\ c[r] <= c[r + 1] /\ p.text = P!Numbers(c[r], c[r + 1] - c[r])
    BY <1>1, <1>3, <2>1
  <2>3. k = c[r + 1] - c[r]
    <3>1. \A from, l \in Nat : Len(P!Numbers(from, l)) = l
      BY NumbersAre
    <3>. QED
      BY <2>2, <3>1
  <2>. HIDE DEF k, p
  <2>. QED
    BY <2>2, <2>3
<1>5. one.text = P!Numbers(c[r], mid) /\ two.text = P!Numbers(c[r] + mid, k - mid)
  <2>. HIDE DEF p, k, mid
  <2>1. c[r] \in Nat /\ k \in Nat /\ mid \in Nat /\ mid <= k
    BY <1>1, <1>4
  <2>2. SubSeq(P!Numbers(c[r], k), 1, mid) = P!Numbers(c[r], mid) /\ SubSeq(P!Numbers(c[r], k), mid + 1, k) = P!Numbers(c[r] + mid, k - mid)
    BY <2>1, HalvesOfNumbers, ZenonT(60)
  <2>3. one.text = SubSeq(p.text, 1, mid) /\ two.text = SubSeq(p.text, mid + 1, k)
    BY DEF one, two
  <2>. HIDE DEF one, two
  <2>. QED
    BY <1>4, <2>2, <2>3
<1>6. /\ one \in ScanPart /\ Len(one.text) = mid /\ one.label.half = 1
      /\ two \in ScanPart /\ Len(two.text) = k - mid
  <2>1. p.label \in Names
    BY <1>1 DEF ScanPart
  <2>. HIDE DEF p, k, mid
  <2>2. [p.label EXCEPT !.half = 1] \in Names /\ [p.label EXCEPT !.half = 2] \in Names /\ [p.label EXCEPT !.half = 1].half = 1
    BY <2>1, NamesIs
  <2>3. c[r] + mid \in Nat /\ k - mid \in Nat
    BY <1>1, <1>4
  <2>4. \A from, l \in Nat : P!Numbers(from, l) \in Seq(Nat) /\ Len(P!Numbers(from, l)) = l
    BY NumbersAre
  <2>5. /\ one.text \in Seq(Nat) /\ Len(one.text) = mid
        /\ two.text \in Seq(Nat) /\ Len(two.text) = k - mid
    <3>. HIDE DEF one, two
    <3>1. P!Numbers(c[r], mid) \in Seq(Nat) /\ Len(P!Numbers(c[r], mid)) = mid
      BY <1>1, <1>4, <2>4
    <3>2. P!Numbers(c[r] + mid, k - mid) \in Seq(Nat) /\ Len(P!Numbers(c[r] + mid, k - mid)) = k - mid
      BY <2>3, <2>4
    <3>. QED
      BY <1>5, <3>1, <3>2
  <2>. QED
    BY <2>2, <2>5 DEF ScanPart
<1>7. P!Halves(p) = <<one, two>>
  BY DEF P!Halves
<1>8. a \in Seq(ScanPart) /\ Len(a) = r /\ \A i \in 1..r : a[i] = ps[i]
  <2>1. \A i \in 1..r : ps[i] \in ScanPart
    OBVIOUS
  <2>2. /\ SubSeq(ps, 1, r) \in Seq(ScanPart)
        /\ Len(SubSeq(ps, 1, r)) = IF 1 <= r THEN r - 1 + 1 ELSE 0
        /\ \A i \in 1..(r - 1 + 1) : SubSeq(ps, 1, r)[i] = ps[1 + i - 1]
    BY <2>1, SubSeqProperties
  <2>3. (IF 1 <= r THEN r - 1 + 1 ELSE 0) = r /\ r - 1 + 1 = r /\ \A i \in 1..r : 1 + i - 1 = i
    OBVIOUS
  <2>. QED
    BY <2>2, <2>3
<1>9. b \in Seq(ScanPart) /\ Len(b) = n - r - 1 /\ \A i \in 1..(n - r - 1) : b[i] = ps[(r + 1) + i]
  <2>1. \A i \in (r + 2)..n : ps[i] \in ScanPart
    BY <1>1
  <2>. HIDE DEF n
  <2>5. r + 2 \in Int /\ n \in Int
    BY <1>1
  <2>2. /\ SubSeq(ps, r + 2, n) \in Seq(ScanPart)
        /\ Len(SubSeq(ps, r + 2, n)) = IF r + 2 <= n THEN n - (r + 2) + 1 ELSE 0
        /\ \A i \in 1..(n - (r + 2) + 1) : SubSeq(ps, r + 2, n)[i] = ps[(r + 2) + i - 1]
    BY <2>1, <2>5, SubSeqProperties
  <2>3. (IF r + 2 <= n THEN n - (r + 2) + 1 ELSE 0) = n - r - 1 /\ n - (r + 2) + 1 = n - r - 1
    BY <1>1
  <2>4. \A i \in 1..(n - r - 1) : (r + 2) + i - 1 = (r + 1) + i
    BY <1>1
  <2>. QED
    BY <2>2, <2>3, <2>4
<1>. HIDE DEF a, b, one, two, p
<1>10. qs = a \o <<one, two>> \o b
  <2>1. \A x : x = <<one, two>> => a \o x \o b = a \o <<one, two>> \o b
    OBVIOUS
  <2>. QED
    BY <1>7, <2>1 DEF a, b, p, HalvedAt
<1>. HIDE DEF n, k, mid
<1>11. /\ <<one, two>> \in Seq(ScanPart) /\ Len(<<one, two>>) = 2
       /\ <<one, two>>[1] = one /\ <<one, two>>[2] = two
  BY <1>6
<1>12. /\ a \o <<one, two>> \in Seq(ScanPart) /\ Len(a \o <<one, two>>) = r + 2
       /\ \A i \in 1..r : (a \o <<one, two>>)[i] = ps[i]
       /\ (a \o <<one, two>>)[r + 1] = one /\ (a \o <<one, two>>)[r + 2] = two
  BY <1>8, <1>11
<1>13. /\ qs \in Seq(ScanPart) /\ Len(qs) = n + 1
       /\ \A i \in 1..r : qs[i] = ps[i]
       /\ qs[r + 1] = one /\ qs[r + 2] = two
       /\ \A i \in (r + 3)..(n + 1) : qs[i] = ps[i - 1]
  <2>1. DEFINE u == a \o <<one, two>>
  <2>2. u \in Seq(ScanPart) /\ Len(u) = r + 2 /\ qs = u \o b
    BY <1>10, <1>12
  <2>3. (\A i \in 1..r : u[i] = ps[i]) /\ u[r + 1] = one /\ u[r + 2] = two
    BY <1>12
  <2>. HIDE DEF u
  <2>4. /\ qs \in Seq(ScanPart) /\ Len(qs) = (r + 2) + (n - r - 1)
        /\ \A i \in 1..((r + 2) + (n - r - 1)) : qs[i] = IF i <= r + 2 THEN u[i] ELSE b[i - (r + 2)]
    <3>1. u \o b \in Seq(ScanPart)
      BY <1>9, <2>2
    <3>2. Len(u) = r + 2 /\ Len(b) = n - r - 1
      BY <1>9, <2>2
    <3>4. Len(u \o b) = Len(u) + Len(b)
      BY <1>9, <2>2, ConcatProperties, Zenon
    <3>3. \A i \in 1..(Len(u) + Len(b)) : (u \o b)[i] = IF i <= Len(u) THEN u[i] ELSE b[i - Len(u)]
      BY <1>9, <2>2, ConcatProperties, Zenon
    <3>. QED
      BY <2>2, <3>1, <3>2, <3>3, <3>4
  <2>5. (r + 2) + (n - r - 1) = n + 1 /\ r + 1 \in 1..(n + 1) /\ r + 2 \in 1..(n + 1) /\ r + 1 <= r + 2 /\ r + 2 <= r + 2
    BY <1>1
  <2>6. \A i \in 1..r : qs[i] = ps[i]
    <3>1. \A i \in 1..r : i \in 1..(n + 1) /\ i <= r + 2
      BY <1>1
    <3>. QED
      BY <2>3, <2>4, <2>5, <3>1
  <2>7. ASSUME NEW i \in (r + 3)..(n + 1)
        PROVE  qs[i] = ps[i - 1]
    <3>1. i \in 1..(n + 1) /\ ~(i <= r + 2) /\ i - (r + 2) \in 1..(n - r - 1) /\ (r + 1) + (i - (r + 2)) = i - 1
      BY <1>1
    <3>2. qs[i] = b[i - (r + 2)]
      BY <2>4, <2>5, <3>1
    <3>. QED
      BY <1>9, <3>1, <3>2
  <2>. QED
    BY <2>3, <2>4, <2>5, <2>6, <2>7
<1>. DEFINE d == [i \in 0..(n + 1) |-> IF i <= r THEN c[i] ELSE IF i = r + 1 THEN c[r] + mid ELSE c[i - 1]]
<1>14. Chain(qs, d, total)
  <2>1. d \in [0..(n + 1) -> Nat]
    <3>1. ASSUME NEW i \in 0..(n + 1)
          PROVE  (IF i <= r THEN c[i] ELSE IF i = r + 1 THEN c[r] + mid ELSE c[i - 1]) \in Nat
      <4>1. i <= r => i \in 0..n
        BY <1>1
      <4>2. ~(i <= r) => i - 1 \in 0..n
        BY <1>1
      <4>3. \A x \in 0..n : c[x] \in Nat
        BY <1>3
      <4>4. c[r] + mid \in Nat
        BY <1>1, <1>4
      <4>. QED
        BY <4>1, <4>2, <4>3, <4>4
    <3>. QED
      BY <3>1
  <2>2. d[0] = 0 /\ d[n + 1] = total
    <3>1. 0 \in 0..(n + 1) /\ n + 1 \in 0..(n + 1) /\ ~(n + 1 <= r) /\ n + 1 # r + 1 /\ (n + 1) - 1 = n
      BY <1>1
    <3>2. 0 <= r
      OBVIOUS
    <3>. QED
      BY <1>3, <3>1, <3>2
  <2>3. ASSUME NEW i \in 1..(n + 1)
        PROVE  d[i - 1] <= d[i] /\ qs[i].text = P!Numbers(d[i - 1], d[i] - d[i - 1])
    <3>1. CASE i <= r
      <4>1. i \in 1..n /\ i \in 1..r /\ d[i - 1] = c[i - 1] /\ d[i] = c[i]
        BY <1>1, <3>1
      <4>. HIDE DEF d
      <4>. QED
        BY <1>3, <1>13, <4>1
    <3>2. CASE i = r + 1
      <4>1. i - 1 = r /\ i - 1 \in 0..(n + 1) /\ i \in 0..(n + 1) /\ r <= r /\ ~(r + 1 <= r)
        BY <1>1, <3>2
      <4>2. d[i - 1] = c[r] /\ d[i] = c[r] + mid
        BY <3>2, <4>1
      <4>. HIDE DEF d
      <4>3. d[i] - d[i - 1] = mid /\ d[i - 1] <= d[i]
        BY <1>1, <1>4, <4>2
      <4>. QED
        BY <1>5, <1>13, <3>2, <4>2, <4>3
    <3>3. CASE i = r + 2
      <4>1. i - 1 = r + 1 /\ i - 1 \in 0..(n + 1) /\ i \in 0..(n + 1) /\ ~(r + 1 <= r) /\ ~(r + 2 <= r) /\ r + 2 # r + 1
        BY <1>1, <3>3
      <4>2. d[i - 1] = c[r] + mid /\ d[i] = c[r + 1]
        BY <3>3, <4>1
      <4>. HIDE DEF d
      <4>3. d[i] - d[i - 1] = k - mid /\ d[i - 1] <= d[i]
        BY <1>1, <1>4, <4>2
      <4>. QED
        BY <1>5, <1>13, <3>3, <4>2, <4>3
    <3>4. CASE i > r + 2
      <4>1. /\ i \in (r + 3)..(n + 1) /\ i - 1 \in 1..n /\ i - 1 \in 0..(n + 1) /\ i \in 0..(n + 1)
            /\ ~(i - 1 <= r) /\ i - 1 # r + 1 /\ ~(i <= r) /\ i # r + 1
        BY <1>1, <3>4
      <4>2. d[i - 1] = c[(i - 1) - 1] /\ d[i] = c[i - 1]
        BY <4>1
      <4>. HIDE DEF d
      <4>. QED
        BY <1>3, <1>13, <4>1, <4>2
    <3>5. i <= r \/ i = r + 1 \/ i = r + 2 \/ i > r + 2
      BY <1>1
    <3>. QED
      BY <3>1, <3>2, <3>3, <3>4, <3>5
  <2>. HIDE DEF d
  <2>. QED
    BY <1>13, <2>1, <2>2, <2>3 DEF Chain
<1>15. ASSUME NEW i \in 1..(n + 1)
       PROVE  Len(qs[i].text) <= size
  <2>1. \A j \in 1..n : Len(ps[j].text) <= size
    BY DEF n
  <2>2. k <= size
    BY <1>1, <2>1 DEF k, p
  <2>3. CASE i <= r
    <3>1. i \in 1..n /\ i \in 1..r
      BY <1>1, <2>3
    <3>. QED
      BY <1>13, <2>1, <3>1
  <2>4. CASE i = r + 1
    <3>1. Len(qs[i].text) = mid
      BY <1>6, <1>13, <2>4
    <3>2. mid <= size
      BY <1>1, <2>2
    <3>. QED
      BY <3>1, <3>2
  <2>5. CASE i = r + 2
    <3>1. k - mid <= size
      BY <1>1, <2>2
    <3>. QED
      BY <1>6, <1>13, <2>5, <3>1
  <2>6. CASE i > r + 2
    <3>1. i \in (r + 3)..(n + 1) /\ i - 1 \in 1..n
      BY <1>1, <2>6
    <3>. QED
      BY <1>13, <2>1, <3>1
  <2>7. i <= r \/ i = r + 1 \/ i = r + 2 \/ i > r + 2
    BY <1>1
  <2>. QED
    BY <2>3, <2>4, <2>5, <2>6, <2>7
<1>16. qs[r + 1].label.half = 1
  BY <1>6, <1>13
<1>17. \E e : Chain(qs, e, total)
  BY <1>14
<1>. QED
  BY <1>13, <1>15, <1>16, <1>17 DEF n

\* While a book is read, its parts are the book in order, each fits, they are the split it
\* began with if none was halved, and a part that was too long and only that cannot be halved.
PartsAre ==
    scan # "idle" =>
        /\ parts \in Seq(ScanPart)
        /\ \E c : Chain(parts, c, P!TotalOf(sections))
        /\ \A i \in 1..Len(parts) : Len(parts[i].text) <= P!partSize(context)
        /\ (\A i \in 1..Len(parts) : parts[i].label.half = 0) => parts = P!Split(sections, P!partSize(context))

NothingYet == scan = "idle" => parts = <<>> /\ results = <<>> /\ try = 1

TriesAreFailures == scan = "reading" /\ onlyLong /\ try > 1 => ~P!MayHalve(parts[Len(results) + 1])

PartsRead == P!TypeOK /\ PartsAre /\ NothingYet /\ TriesAreFailures /\ P!SplitsAreNoTries

LEMMA SizeFits ==
    ASSUME NEW t \in Contexts
    PROVE  /\ P!partSize(t) \in Nat \ {0}
           /\ \A k \in Nat : k <= P!partSize(t) =>
                \/ t = 0 /\ k <= CloudWordsPerPart
                \/ k <= minWordsPerPart
                \/ k * 14 <= (t - SystemTokens - answerRoom - marginTokens) * 10
<1>1. /\ t \in Nat /\ SystemTokens \in Nat /\ answerRoom \in Nat /\ marginTokens \in Nat
      /\ LocalWordsPerPart \in Nat \ {0} /\ CloudWordsPerPart \in Nat \ {0} /\ minWordsPerPart \in Nat \ {0}
  BY PartsAssumption
<1>. DEFINE x == (t - SystemTokens - answerRoom - marginTokens) * 10
            q == x \div 14
<1>2. x \in Int
  BY <1>1
<1>. HIDE DEF x
<1>3. q \in Int /\ q * 14 <= x
  BY <1>2
<1>. HIDE DEF q
<1>4. P!partSize(t) = IF t = 0 THEN CloudWordsPerPart
                      ELSE IF q < minWordsPerPart THEN minWordsPerPart ELSE IF q > LocalWordsPerPart THEN LocalWordsPerPart ELSE q
  BY DEF P!partSize, P!WordsToFit, P!Clamp, q, x
<1>5. P!partSize(t) \in Nat \ {0}
  BY <1>1, <1>3, <1>4
<1>6. ASSUME NEW k \in Nat, k <= P!partSize(t)
      PROVE  (t = 0 /\ k <= CloudWordsPerPart) \/ k <= minWordsPerPart \/ k * 14 <= x
  <2>1. CASE t = 0
    BY <1>4, <1>6, <2>1
  <2>2. CASE t # 0
    <3>1. k <= minWordsPerPart \/ k <= q
      BY <1>1, <1>3, <1>4, <1>6, <2>2
    <3>2. k <= q => k * 14 <= x
      BY <1>2, <1>3
    <3>. QED
      BY <3>1, <3>2
  <2>. QED
    BY <2>1, <2>2
<1>. QED
  BY <1>5, <1>6 DEF x

LEMMA SectionsAre ==
    ASSUME sections \in P!BoundedSeq(P!Section, MaxSections)
    PROVE  sections \in Seq(P!Section)
  BY PartsAssumption DEF P!BoundedSeq, P!SeqOf

LEMMA PartsBegin == P!Init => PartsRead
<1>. SUFFICES ASSUME P!Init PROVE PartsRead
  OBVIOUS
<1>1. results \in Seq(BOOLEAN) /\ Len(results) = 0 /\ Len(parts) = 0
  BY DEF P!Init
<1>2. 1 \in 1..partTries
  BY PartsAssumption
<1>3. P!TypeOK
  BY <1>1, <1>2 DEF P!Init, P!TypeOK, P!read
<1>. QED
  BY <1>3 DEF P!Init, PartsRead, PartsAre, NothingYet, TriesAreFailures, P!SplitsAreNoTries

LEMMA PrepareReads ==
    ASSUME PartsRead, P!Prepare
    PROVE  PartsRead'
<1>. DEFINE size == P!partSize(context)
            ps == P!Split(sections, size)
<1>1. /\ sections \in P!BoundedSeq(P!Section, MaxSections) /\ context \in Contexts
      /\ results \in Seq(BOOLEAN) /\ try \in 1..partTries /\ onlyLong \in BOOLEAN /\ results = <<>> /\ try = 1
      /\ parts' = ps /\ scan' = "reading"
      /\ sections' = sections /\ context' = context /\ results' = results /\ try' = try /\ onlyLong' = onlyLong
  BY DEF PartsRead, P!TypeOK, NothingYet, P!Prepare
<1>2. size \in Nat \ {0} /\ sections \in Seq(P!Section)
  BY <1>1, SizeFits, SectionsAre
<1>. HIDE DEF size
<1>3. /\ ps \in Seq(FirstPart)
      /\ \E c : Chain(ps, c, P!TotalOf(sections))
      /\ \A i \in 1..Len(ps) : Len(ps[i].text) <= size
  BY <1>2, SplitIs
<1>. HIDE DEF ps
<1>4. ps \in Seq(ScanPart)
  <2>1. FirstPart \subseteq ScanPart
    BY DEF FirstPart, ScanPart, Names
  <2>2. ps \in [1..Len(ps) -> FirstPart] /\ Len(ps) \in Nat
    BY <1>3
  <2>3. ps \in [1..Len(ps) -> ScanPart]
    BY <2>1, <2>2
  <2>. QED
    BY <2>2, <2>3
<1>5. Len(results) = 0 /\ Len(ps) \in Nat
  BY <1>1, <1>3
<1>6. P!TypeOK'
  BY <1>1, <1>5 DEF P!TypeOK, P!read
<1>7. PartsAre'
  <2>1. P!partSize(context') = size /\ P!TotalOf(sections') = P!TotalOf(sections) /\ P!Split(sections', size) = ps
    BY <1>1 DEF size, ps
  <2>. QED
    BY <1>1, <1>3, <1>4, <2>1 DEF PartsAre
<1>8. NothingYet' /\ TriesAreFailures' /\ P!SplitsAreNoTries'
  BY <1>1 DEF NothingYet, TriesAreFailures, P!SplitsAreNoTries
<1>. QED
  BY <1>6, <1>7, <1>8 DEF PartsRead

\* A part that fails is tried again, or the scan fails with it.
LEMMA NextTryReads ==
    ASSUME PartsRead, scan = "reading", Len(results) < Len(parts), NEW long \in BOOLEAN, P!NextTry(long),
           long => try = partTries \/ ~P!MayHalve(parts[Len(results) + 1])
    PROVE  PartsRead'
<1>1. /\ sections' = sections /\ context' = context /\ results' = results /\ parts' = parts
      /\ onlyLong' = (onlyLong /\ long)
  BY DEF P!NextTry
<1>2. try \in 1..partTries /\ partTries \in Nat /\ partTries > 1
  BY PartsAssumption DEF PartsRead, P!TypeOK
<1>3. /\ scan' \in {"reading", "failed"} /\ try' \in 1..partTries
  BY <1>2 DEF P!NextTry
<1>4. P!TypeOK'
  BY <1>1, <1>3 DEF PartsRead, P!TypeOK, P!read
<1>5. PartsAre'
  <2>1. P!partSize(context') = P!partSize(context) /\ P!TotalOf(sections') = P!TotalOf(sections)
        /\ P!Split(sections', P!partSize(context')) = P!Split(sections, P!partSize(context))
    BY <1>1
  <2>. QED
    BY <1>1, <2>1 DEF PartsRead, PartsAre
<1>6. onlyLong' => ~P!MayHalve(parts[Len(results) + 1])
  <2>1. SUFFICES ASSUME onlyLong', try = partTries
                 PROVE  ~P!MayHalve(parts[Len(results) + 1])
    BY <1>1
  <2>2. onlyLong
    BY <1>1, <2>1
  <2>. QED
    BY <1>2, <2>1, <2>2 DEF PartsRead, TriesAreFailures
<1>7. TriesAreFailures' /\ P!SplitsAreNoTries'
  <2>1. (~P!MayHalve(parts[Len(results) + 1]))' <=> ~P!MayHalve(parts[Len(results) + 1])
    BY <1>1 DEF P!MayHalve
  <2>. QED
    BY <1>6, <2>1 DEF TriesAreFailures, P!SplitsAreNoTries, P!read
<1>8. NothingYet'
  BY <1>3 DEF NothingYet
<1>. QED
  BY <1>4, <1>5, <1>7, <1>8 DEF PartsRead

\* A part that is too long is halved while there is a try left and it is not too small.
LEMMA TooLongReads ==
    ASSUME PartsRead, P!TooLong
    PROVE  PartsRead'
<1>. DEFINE r == Len(results)
            p == parts[r + 1]
<1>1. scan = "reading" /\ r < Len(parts)
  BY DEF P!TooLong, P!read
<1>2. CASE try < partTries /\ P!MayHalve(p)
  <2>1. /\ parts' = HalvedAt(parts, r) /\ try' = try /\ sections' = sections /\ context' = context /\ results' = results
        /\ scan' = scan /\ onlyLong' = onlyLong
    BY <1>2 DEF P!TooLong, P!read, P!SplitTry, HalvedAt
  <2>2. /\ context \in Contexts /\ results \in Seq(BOOLEAN) /\ r \in Nat
        /\ parts \in Seq(ScanPart) /\ \E c : Chain(parts, c, P!TotalOf(sections))
        /\ \A i \in 1..Len(parts) : Len(parts[i].text) <= P!partSize(context)
    BY <1>1 DEF PartsRead, P!TypeOK, PartsAre
  <2>3. P!partSize(context) \in Nat
    BY <2>2, SizeFits
  <2>. HIDE DEF r
  <2>4. /\ parts' \in Seq(ScanPart) /\ Len(parts') = Len(parts) + 1
        /\ \E c : Chain(parts', c, P!TotalOf(sections))
        /\ \A i \in 1..Len(parts') : Len(parts'[i].text) <= P!partSize(context)
        /\ parts'[r + 1].label.half = 1
    BY <1>1, <2>1, <2>2, <2>3, HalvedParts, ZenonT(60)
  <2>5. r + 1 \in 1..Len(parts') /\ Len(parts) \in Nat
    BY <1>1, <2>2, <2>4
  <2>6. P!TypeOK'
    <3>1. Len(results') <= Len(parts')
      BY <1>1, <2>1, <2>2, <2>4, <2>5 DEF r
    <3>. QED
      BY <2>1, <3>1 DEF PartsRead, P!TypeOK, P!read
  <2>7. PartsAre'
    <3>1. P!partSize(context') = P!partSize(context) /\ P!TotalOf(sections') = P!TotalOf(sections)
      BY <2>1
    <3>2. ~\A i \in 1..Len(parts') : parts'[i].label.half = 0
      BY <2>4, <2>5
    <3>. QED
      BY <2>4, <3>1, <3>2 DEF PartsAre
  <2>8. NothingYet' /\ P!SplitsAreNoTries'
    BY <1>1, <2>1 DEF NothingYet, P!SplitsAreNoTries
  <2>9. TriesAreFailures'
    BY <1>1, <1>2, <2>1 DEF TriesAreFailures, PartsRead, r
  <2>. QED
    BY <2>6, <2>7, <2>8, <2>9 DEF PartsRead
<1>3. CASE ~(try < partTries /\ P!MayHalve(p))
  <2>1. P!NextTry(TRUE)
    BY <1>3 DEF P!TooLong, P!read
  <2>2. try = partTries \/ ~P!MayHalve(p)
    BY <1>3, PartsAssumption DEF PartsRead, P!TypeOK
  <2>. QED
    BY <1>1, <2>1, <2>2, NextTryReads
<1>. QED
  BY <1>2, <1>3

LEMMA AnsweredReads ==
    ASSUME PartsRead, NEW noted \in BOOLEAN, P!Answered(noted)
    PROVE  PartsRead'
<1>1. /\ scan = "reading" /\ Len(results) < Len(parts) /\ results' = Append(results, noted) /\ try' = 1 /\ onlyLong' = TRUE
      /\ sections' = sections /\ context' = context /\ parts' = parts /\ scan' = scan
  BY DEF P!Answered, P!read
<1>2. results \in Seq(BOOLEAN) /\ Len(parts) \in Nat /\ 1 \in 1..partTries
  BY <1>1, PartsAssumption DEF PartsRead, P!TypeOK, PartsAre
<1>3. results' \in Seq(BOOLEAN) /\ Len(results') <= Len(parts')
  BY <1>1, <1>2
<1>4. P!TypeOK'
  BY <1>1, <1>2, <1>3 DEF PartsRead, P!TypeOK, P!read
<1>5. PartsAre'
  <2>1. P!partSize(context') = P!partSize(context) /\ P!TotalOf(sections') = P!TotalOf(sections)
        /\ P!Split(sections', P!partSize(context')) = P!Split(sections, P!partSize(context))
    BY <1>1
  <2>. QED
    BY <1>1, <2>1 DEF PartsRead, PartsAre
<1>6. NothingYet' /\ TriesAreFailures' /\ P!SplitsAreNoTries'
  BY <1>1 DEF NothingYet, TriesAreFailures, P!SplitsAreNoTries
<1>. QED
  BY <1>4, <1>5, <1>6 DEF PartsRead

LEMMA CombineReads ==
    ASSUME PartsRead, P!Combine \/ UNCHANGED partVars
    PROVE  PartsRead'
<1>1. /\ sections' = sections /\ context' = context /\ parts' = parts /\ results' = results /\ try' = try
      /\ onlyLong' = onlyLong /\ (scan' = scan \/ (scan = "reading" /\ scan' = "done"))
  <2>1. CASE P!Combine
    BY <2>1 DEF P!Combine
  <2>2. CASE UNCHANGED partVars
    BY <2>2 DEF partVars
  <2>. QED
    BY <2>1, <2>2
<1>2. P!TypeOK'
  BY <1>1 DEF PartsRead, P!TypeOK, P!read
<1>3. PartsAre'
  <2>1. P!partSize(context') = P!partSize(context) /\ P!TotalOf(sections') = P!TotalOf(sections)
        /\ P!Split(sections', P!partSize(context')) = P!Split(sections, P!partSize(context))
    BY <1>1
  <2>. QED
    BY <1>1, <2>1 DEF PartsRead, PartsAre
<1>4. NothingYet'
  BY <1>1 DEF PartsRead, NothingYet
<1>5. TriesAreFailures' /\ P!SplitsAreNoTries'
  <2>1. (~P!MayHalve(parts[Len(results) + 1]))' <=> ~P!MayHalve(parts[Len(results) + 1])
    BY <1>1 DEF P!MayHalve
  <2>2. TriesAreFailures'
    BY <1>1, <2>1 DEF PartsRead, TriesAreFailures
  <2>3. P!SplitsAreNoTries'
    BY <1>1, <2>1 DEF PartsRead, P!SplitsAreNoTries, P!read
  <2>. QED
    BY <2>2, <2>3
<1>. QED
  BY <1>2, <1>3, <1>4, <1>5 DEF PartsRead

LEMMA PartsNext ==
    ASSUME PartsRead, [P!Next]_partVars
    PROVE  PartsRead'
<1>1. CASE P!OtherError
  <2>1. scan = "reading" /\ Len(results) < Len(parts) /\ P!NextTry(FALSE)
    BY <1>1 DEF P!OtherError, P!read
  <2>. QED
    BY <2>1, NextTryReads
<1>2. CASE \E noted \in BOOLEAN : P!Answered(noted)
  BY <1>2, AnsweredReads
<1>. QED
  BY <1>1, <1>2, PrepareReads, TooLongReads, CombineReads DEF P!Next

LEMMA PlacesAre ==
    ASSUME PartsRead, scan # "idle", NEW c, Chain(parts, c, P!TotalOf(sections)), NEW i \in 1..Len(parts)
    PROVE  /\ P!Note(i) = [part |-> i, from |-> c[i - 1], to |-> c[i]]
           /\ c[i - 1] \in Nat /\ c[i] \in Nat /\ c[i - 1] <= c[i] /\ c[i] <= P!TotalOf(sections) /\ P!TotalOf(sections) \in Nat
           /\ parts[i].text = P!Numbers(c[i - 1], c[i] - c[i - 1])
<1>. DEFINE total == P!TotalOf(sections)
<1>1. parts \in Seq(ScanPart) /\ Len(parts) \in Nat
  BY DEF PartsRead, PartsAre
<1>2. \A p \in ScanPart : p.text \in Seq(Nat)
  BY DEF ScanPart
<1>3. P!Upto(parts, i) = c[i - 1] /\ c[i - 1] + Len(parts[i].text) = c[i]
  BY <1>1, <1>2, PlaceInChain
<1>4. P!Note(i) = [part |-> i, from |-> c[i - 1], to |-> c[i]]
  <2>1. P!Note(i) = [part |-> i, from |-> P!Upto(parts, i), to |-> P!Upto(parts, i) + Len(parts[i].text)]
    BY DEF P!Note, P!Upto
  <2>. QED
    BY <1>3, <2>1
<1>5. i - 1 \in 0..Len(parts) /\ i \in 0..Len(parts) /\ Len(parts) \in 0..Len(parts)
  BY <1>1
<1>6. c[i - 1] \in Nat /\ c[i] \in Nat /\ c[i] <= total /\ c[Len(parts)] \in Nat
  BY <1>1, <1>5, ChainClimbs
<1>7. c[i - 1] <= c[i] /\ parts[i].text = P!Numbers(c[i - 1], c[i] - c[i - 1]) /\ c[Len(parts)] = total
  BY DEF Chain
<1>. QED
  BY <1>4, <1>6, <1>7

\* The reader opens a part where its note says it is.
LEMMA PassageIs ==
    ASSUME PartsRead
    PROVE  P!PassageIsPart
<1>. DEFINE total == P!TotalOf(sections)
<1>1. SUFFICES ASSUME scan = "done", NEW i \in 1..Len(results)
               PROVE  P!cut(P!Note(i).from, P!Note(i).to, total).text = parts[P!Note(i).part].text
  BY DEF P!PassageIsPart, P!notes, P!Place, P!read
<1>2. PICK c : Chain(parts, c, total)
  BY <1>1 DEF PartsRead, PartsAre
<1>3. i \in 1..Len(parts)
  BY <1>1 DEF PartsRead, PartsAre, P!TypeOK, P!read
<1>. DEFINE from == c[i - 1]
            to == c[i]
<1>4. /\ P!Note(i) = [part |-> i, from |-> from, to |-> to]
      /\ from \in Nat /\ to \in Nat /\ from <= to /\ to <= total /\ total \in Nat
      /\ parts[i].text = P!Numbers(from, to - from)
  <2>1. scan # "idle"
    BY <1>1
  <2>. QED
    BY <1>2, <1>3, <2>1, PlacesAre
<1>. HIDE DEF from, to, total
<1>5. P!Clamp(1, total + 1, from + 1) = from + 1 /\ P!Clamp(0, total, to) = to
  BY <1>4 DEF P!Clamp
<1>6. P!cut(from, to, total).text = SubSeq(P!Numbers(0, total), P!Clamp(1, total + 1, from + 1), P!Clamp(0, total, to))
  BY DEF P!cut
<1>7. Within(0, total, from, to) = P!Numbers(0 + from, to - from) /\ 0 + from = from
  BY <1>4, NumbersInside
<1>8. P!cut(from, to, total).text = Within(0, total, from, to)
  BY <1>5, <1>6, Zenon DEF Within
<1>9. P!cut(from, to, total).text = parts[i].text
  BY <1>4, <1>7, <1>8
<1>10. P!Note(i).from = from /\ P!Note(i).to = to /\ P!Note(i).part = i
  BY <1>4
<1>. QED
  BY <1>9, <1>10

\* A label that one part has leads to that part in the same split.
LEMMA LabelLeads ==
    ASSUME PartsRead
    PROVE  P!LabelFindsPart
<1>. DEFINE labels == [i \in DOMAIN parts |-> parts[i].label]
            size == P!partSize(context)
<1>1. SUFFICES ASSUME scan = "done", NEW i \in DOMAIN parts,
                      \A j \in DOMAIN parts : (j = i \/ labels[j] # labels[i]) /\ labels[j].half = 0
               PROVE  P!locate(sections, labels[i], size) = <<P!Note(i).from, P!Note(i).to>>
  BY DEF P!LabelFindsPart
<1>2. parts \in Seq(ScanPart) /\ DOMAIN parts = 1..Len(parts) /\ Len(parts) \in Nat
  BY <1>1 DEF PartsRead, PartsAre
<1>3. parts = P!Split(sections, size)
  <2>1. \A j \in 1..Len(parts) : parts[j].label.half = 0
    BY <1>1, <1>2
  <2>. QED
    BY <1>1, <2>1 DEF PartsRead, PartsAre
<1>. DEFINE hits == {k \in DOMAIN parts : parts[k].label = labels[i]}
            first(ks) == CHOOSE k \in ks : \A j \in ks : k <= j
<1>4. hits = {i} /\ hits # {}
  BY <1>1
<1>5. first(hits) = i
  <2>1. i \in Nat
    BY <1>2
  <2>2. first({i}) = i
    BY <2>1
  <2>. HIDE DEF first, hits
  <2>. QED
    BY <1>4, <2>2
<1>6. P!locate(sections, labels[i], size) =
        <<P!Upto(parts, first(hits)), P!Upto(parts, first(hits)) + Len(parts[first(hits)].text)>>
  <2>. HIDE DEF size
  <2>. QED
    BY <1>3, <1>4 DEF P!locate
<1>7. P!Note(i).from = P!Upto(parts, i) /\ P!Note(i).to = P!Upto(parts, i) + Len(parts[i].text)
  BY DEF P!Note, P!Upto
<1>. HIDE DEF first, hits
<1>. QED
  BY <1>5, <1>6, <1>7

LEMMA BookIsRead ==
    ASSUME PartsRead
    PROVE  P!TypeOK /\ P!NothingLost /\ P!PartsFit /\ P!SplitsAreNoTries /\ P!PassageIsPart /\ P!LabelFindsPart
<1>1. P!NothingLost
  <2>1. SUFFICES ASSUME scan # "idle"
                 PROVE  P!FlattenSeq([i \in DOMAIN parts |-> parts[i].text]) = P!Numbers(0, P!TotalOf(sections))
    BY DEF P!NothingLost
  <2>2. parts \in Seq(ScanPart) /\ \E c : Chain(parts, c, P!TotalOf(sections))
    BY <2>1 DEF PartsRead, PartsAre
  <2>. QED
    BY <2>2, ChainJoins
<1>2. P!PartsFit
  <2>1. SUFFICES ASSUME scan # "idle", NEW i \in DOMAIN parts
                 PROVE  \/ context = 0 /\ Len(parts[i].text) <= CloudWordsPerPart
                        \/ Len(parts[i].text) <= minWordsPerPart
                        \/ Len(parts[i].text) * 14 <= (context - SystemTokens - answerRoom - marginTokens) * 10
    BY DEF P!PartsFit
  <2>2. parts \in Seq(ScanPart) /\ context \in Contexts /\ \A k \in 1..Len(parts) : Len(parts[k].text) <= P!partSize(context)
    BY <2>1 DEF PartsRead, PartsAre, P!TypeOK
  <2>3. Len(parts[i].text) \in Nat /\ Len(parts[i].text) <= P!partSize(context)
    <3>1. i \in 1..Len(parts) /\ parts[i] \in ScanPart
      BY <2>2
    <3>2. parts[i].text \in Seq(Nat)
      BY <3>1 DEF ScanPart
    <3>. QED
      BY <2>2, <3>1, <3>2
  <2>. QED
    BY <2>2, <2>3, SizeFits
<1>. QED
  BY <1>1, <1>2, PassageIs, LabelLeads DEF PartsRead

\* Parts (deepread/chunk.go, passage.go, checks.go): for any book, any model's context and any number
\* of tries, the parts are the whole book in order however often they are halved, each fits the context,
\* halving a part does not use up its tries, and Review opens the part that a finding is from.
THEOREM BookIsReadInOrder == MCSpec => []BookIsReadWhole
<1> DEFINE Fit == running = "parts" => PartsRead
<1>1. MCInit => Fit
  BY PartsBegin DEF MCInit
<1>2. Fit /\ [MCNext]_allVars => Fit'
  <2> SUFFICES ASSUME Fit, [MCNext]_allVars, running' = "parts"
               PROVE  PartsRead'
    OBVIOUS
  <2>1. running = "parts" /\ [P!Next]_partVars
    BY DEF MCNext, allVars
  <2>2. QED
    BY <2>1, PartsNext
<1>3. Fit => BookIsReadWhole
  BY BookIsRead DEF BookIsReadWhole
<1>4. QED
  BY <1>1, <1>2, <1>3, PTL DEF MCSpec

-----------------------------------------------------------------------------
(* Event pages: the books of a page.                                       *)

OneBook == [asin : STRING, title : STRING, author : STRING]

LEMMA SameMax == \A K : E!Max(K) = P!Max(K)
  BY DEF E!Max, P!Max

\* A title is a link's words or a heading on the page.
LEMMA TitleIs ==
    ASSUME NEW page \in Seq(OneCard), NEW i \in 1..Len(page)
    PROVE  E!Title(page, i) # E!Blank =>
               E!Title(page, i) \in STRING /\ \E j \in 1..Len(page) : E!Title(page, i) \in {page[j].heading, page[j].words}
<1>. DEFINE before == {j \in 1..i : page[j].heading # E!Blank /\ i <= j + Reach}
<1>1. \A j \in 1..Len(page) : page[j].heading \in STRING /\ page[j].words \in STRING
  <2>1. \A j \in 1..Len(page) : page[j] \in OneCard
    OBVIOUS
  <2>2. \A x \in OneCard : x.heading \in STRING /\ x.words \in STRING
    BY DEF OneCard
  <2>. QED
    BY <2>1, <2>2
<1>2. before # {} => E!Max(before) \in 1..Len(page)
  <2>1. i \in Nat /\ before \in SUBSET (1..i) /\ 1..i \subseteq 1..Len(page)
    OBVIOUS
  <2>. HIDE DEF before
  <2>2. before # {} => P!Max(before) \in before
    BY <2>1, MaxIsIn
  <2>. QED
    BY <2>1, <2>2, SameMax
<1>3. E!Title(page, i) = IF ~page[i].amazon THEN E!Blank
                         ELSE IF page[i].words # E!Blank THEN page[i].words
                         ELSE IF before = {} THEN E!Blank ELSE page[E!Max(before)].heading
  BY DEF E!Title
<1>. HIDE DEF before
<1>4. i \in 1..Len(page)
  OBVIOUS
<1>. QED
  BY <1>1, <1>2, <1>3, <1>4

\* It depends on what comes before the link only.
LEMMA TitleAgrees ==
    ASSUME NEW page \in Seq(OneCard), NEW more \in Seq(OneCard), NEW i \in 1..Len(page), i <= Len(more),
           \A j \in 1..i : more[j] = page[j]
    PROVE  E!Entry(more, i) = E!Entry(page, i) /\ E!Title(more, i) = E!Title(page, i)
<1>. DEFINE before == {j \in 1..i : page[j].heading # E!Blank /\ i <= j + Reach}
            those == {j \in 1..i : more[j].heading # E!Blank /\ i <= j + Reach}
<1>1. before = those
  OBVIOUS
<1>2. i \in Nat /\ i \in 1..i /\ more[i] = page[i] /\ before \in SUBSET (1..i)
  OBVIOUS
<1>3. E!Title(page, i) = IF ~page[i].amazon THEN E!Blank
                         ELSE IF page[i].words # E!Blank THEN page[i].words
                         ELSE IF before = {} THEN E!Blank ELSE page[E!Max(before)].heading
  BY DEF E!Title
<1>4. E!Title(more, i) = IF ~more[i].amazon THEN E!Blank
                         ELSE IF more[i].words # E!Blank THEN more[i].words
                         ELSE IF those = {} THEN E!Blank ELSE more[E!Max(those)].heading
  BY DEF E!Title
<1>. HIDE DEF before, those
<1>5. before # {} => more[E!Max(before)] = page[E!Max(before)]
  <2>1. before # {} => P!Max(before) \in before
    BY <1>2, MaxIsIn
  <2>2. before # {} => E!Max(before) \in 1..i
    BY <1>2, <2>1, SameMax
  <2>. QED
    BY <2>2
<1>6. E!Title(more, i) = E!Title(page, i)
  BY <1>1, <1>2, <1>3, <1>4, <1>5
<1>. QED
  BY <1>2, <1>6 DEF E!Entry

\* What is read of a page: a book for each link that has a title.
BooksOf(page) ==
    {es \in Seq(OneBook) : \A k \in 1..Len(es) : \E i \in 1..Len(page) : es[k] = E!Entry(page, i) /\ E!Title(page, i) # E!Blank}

NextBook(page, es, i) == IF E!Title(page, i) = E!Blank THEN es ELSE Append(es, E!Entry(page, i))

LEMMA NextBookIs ==
    ASSUME NEW page \in Seq(OneCard), NEW es \in BooksOf(page), NEW i \in 1..Len(page)
    PROVE  /\ NextBook(page, es, i) \in BooksOf(page)
           /\ Len(es) <= Len(NextBook(page, es, i)) /\ Len(es) \in Nat
           /\ \A k \in 1..Len(es) : NextBook(page, es, i)[k] = es[k]
           /\ E!Title(page, i) # E!Blank => \E k \in 1..Len(NextBook(page, es, i)) : NextBook(page, es, i)[k] = E!Entry(page, i)
<1>1. es \in Seq(OneBook) /\ Len(es) \in Nat /\ \A k \in 1..Len(es) : \E j \in 1..Len(page) : es[k] = E!Entry(page, j) /\ E!Title(page, j) # E!Blank
  BY DEF BooksOf
<1>2. CASE E!Title(page, i) = E!Blank
  BY <1>1, <1>2 DEF NextBook
<1>3. CASE E!Title(page, i) # E!Blank
  <2>. DEFINE e == E!Entry(page, i)
              fs == Append(es, e)
  <2>1. e \in OneBook
    <3>1. page[i] \in OneCard
      OBVIOUS
    <3>2. page[i].asin \in STRING /\ page[i].author \in STRING
      BY <3>1 DEF OneCard
    <3>3. E!Title(page, i) \in STRING
      BY <1>3, TitleIs
    <3>. QED
      BY <3>2, <3>3 DEF E!Entry, OneBook
  <2>. HIDE DEF e
  <2>2. fs \in Seq(OneBook) /\ Len(fs) = Len(es) + 1 /\ fs[Len(es) + 1] = e /\ \A k \in 1..Len(es) : fs[k] = es[k]
    BY <1>1, <2>1
  <2>3. NextBook(page, es, i) = fs
    BY <1>3 DEF NextBook, e
  <2>. HIDE DEF fs
  <2>4. fs \in BooksOf(page)
    <3>1. ASSUME NEW k \in 1..Len(fs)
          PROVE  \E j \in 1..Len(page) : fs[k] = E!Entry(page, j) /\ E!Title(page, j) # E!Blank
      <4>1. CASE k \in 1..Len(es)
        BY <1>1, <2>2, <4>1
      <4>2. CASE k \notin 1..Len(es)
        <5>1. k = Len(es) + 1
          BY <1>1, <2>2, <4>2
        <5>. QED
          BY <1>3, <2>2, <5>1 DEF e
      <4>. QED
        BY <4>1, <4>2
    <3>. QED
      BY <2>2, <3>1 DEF BooksOf
  <2>5. Len(es) + 1 \in 1..Len(fs) /\ Len(es) <= Len(fs)
    BY <1>1, <2>2
  <2>. QED
    BY <1>1, <2>2, <2>3, <2>4, <2>5 DEF e
<1>. QED
  BY <1>2, <1>3

LEMMA FromHTML ==
    ASSUME NEW page \in Seq(OneCard)
    PROVE  /\ E!fromHTML(page) \in BooksOf(page)
           /\ \A j \in 1..Len(page) : E!Title(page, j) # E!Blank =>
                \E k \in 1..Len(E!fromHTML(page)) : E!fromHTML(page)[k] = E!Entry(page, j)
<1>. DEFINE n == Len(page)
            ids == [i \in DOMAIN page |-> i]
            Next0(g) == [K \in SUBSET DOMAIN ids |-> IF K = {} THEN <<>> ELSE NextBook(page, g[K \ {E!Max(K)}], ids[E!Max(K)])]
            h == CHOOSE g : g = Next0(g)
            V == BooksOf(page)
            step == [p \in (1..n) \X V |-> NextBook(page, p[2], p[1])]
<1>1. n \in Nat /\ DOMAIN page = 1..n /\ DOMAIN ids = 1..n /\ \A i \in 1..n : ids[i] = i
  OBVIOUS
<1>2. E!fromHTML(page) = h[DOMAIN ids]
  BY DEF E!fromHTML, E!FoldLeft, E!MapThenFoldSet, NextBook
<1>3. \A i \in 1..n, v \in V : NextBook(page, v, i) \in V
  BY NextBookIs
<1>4. <<>> \in V
  BY DEF BooksOf
<1>. HIDE DEF V, n, ids
<1>5. step \in [(1..n) \X V -> V] /\ \A i \in 1..n, v \in V : step[<<i, v>>] = NextBook(page, v, i)
  BY <1>3
<1>. HIDE DEF step
<1>6. PICK g : Folds(n, V, <<>>, step, g)
  BY <1>1, <1>4, <1>5, FoldExists
<1>7. g \in [SUBSET (1..n) -> V] /\ \A K \in SUBSET (1..n) : g[K] = IF K = {} THEN <<>> ELSE step[<<P!Max(K), g[K \ {P!Max(K)}]>>]
  BY <1>6 DEF Folds, Unfolds
<1>8. g = Next0(g)
  <2>1. ASSUME NEW K \in SUBSET (1..n), K # {}
        PROVE  g[K] = NextBook(page, g[K \ {E!Max(K)}], ids[E!Max(K)])
    <3>1. P!Max(K) \in 1..n
      BY <1>1, <2>1, MaxIsIn
    <3>2. g[K \ {P!Max(K)}] \in V
      BY <1>7
    <3>3. g[K] = step[<<P!Max(K), g[K \ {P!Max(K)}]>>]
      BY <1>7, <2>1
    <3>4. g[K] = NextBook(page, g[K \ {P!Max(K)}], ids[P!Max(K)])
      BY <1>1, <1>5, <3>1, <3>2, <3>3
    <3>. QED
      BY <3>4, SameMax
  <2>. QED
    BY <1>1, <1>7, <2>1
<1>9. h = Next0(h)
  <2>. HIDE DEF Next0
  <2>. QED
    BY <1>8
<1>. HIDE DEF h
<1>10. Stepwise(n, V, <<>>, step, h)
  <2>1. ASSUME NEW K \in SUBSET (1..n)
        PROVE  h[K] = IF K = {} THEN <<>> ELSE NextBook(page, h[K \ {P!Max(K)}], ids[P!Max(K)])
    <3>1. h[K] = IF K = {} THEN <<>> ELSE NextBook(page, h[K \ {E!Max(K)}], ids[E!Max(K)])
      BY <1>1, <1>9
    <3>. QED
      BY <3>1, SameMax
  <2>2. h[{}] = <<>>
    BY <2>1
  <2>3. ASSUME NEW K \in SUBSET (1..n), K # {}, h[K \ {P!Max(K)}] \in V
        PROVE  h[K] = step[<<P!Max(K), h[K \ {P!Max(K)}]>>]
    <3>1. P!Max(K) \in 1..n
      BY <1>1, <2>3, MaxIsIn
    <3>2. step[<<P!Max(K), h[K \ {P!Max(K)}]>>] = NextBook(page, h[K \ {P!Max(K)}], P!Max(K))
      BY <1>5, <2>3, <3>1
    <3>. QED
      BY <1>1, <2>1, <2>3, <3>1, <3>2
  <2>. QED
    BY <1>4, <1>5, <2>2, <2>3 DEF Stepwise
<1>. HIDE DEF Next0
<1>11. /\ h[1..0] = <<>>
       /\ \A i \in 0..n : h[1..i] \in V
       /\ \A i \in 1..n : h[1..i] = step[<<i, h[1..(i - 1)]>>]
  BY <1>1, <1>10, FoldStays
<1>. DEFINE Has(i, j) == E!Title(page, j) # E!Blank => \E k \in 1..Len(h[1..i]) : h[1..i][k] = E!Entry(page, j)
            G == {i \in Nat : i <= n => \A j \in 1..i : Has(i, j)}
<1>12. 0 \in G
  OBVIOUS
<1>13. ASSUME NEW i \in G
       PROVE  i + 1 \in G
  <2>1. SUFFICES ASSUME i + 1 <= n, NEW j \in 1..(i + 1)
                 PROVE  Has(i + 1, j)
    OBVIOUS
  <2>. DEFINE es == h[1..i]
              fs == h[1..(i + 1)]
  <2>2. i + 1 \in 1..n /\ (i + 1) - 1 = i /\ i \in 0..n /\ i <= n
    BY <1>1, <2>1
  <2>3. es \in V /\ fs = NextBook(page, es, i + 1)
    BY <1>5, <1>11, <2>2
  <2>. HIDE DEF es, fs
  <2>4. /\ Len(es) <= Len(fs) /\ Len(es) \in Nat /\ fs \in V
        /\ \A k \in 1..Len(es) : fs[k] = es[k]
        /\ E!Title(page, i + 1) # E!Blank => \E k \in 1..Len(fs) : fs[k] = E!Entry(page, i + 1)
    BY <2>2, <2>3, NextBookIs DEF V, n
  <2>5. Len(fs) \in Nat
    BY <2>4 DEF V, BooksOf
  <2>6. CASE j = i + 1
    BY <2>4, <2>6 DEF fs
  <2>7. CASE j # i + 1
    <3>1. j \in 1..i
      BY <2>1, <2>7
    <3>2. Has(i, j)
      BY <2>2, <3>1
    <3>3. E!Title(page, j) # E!Blank => \E k \in 1..Len(es) : es[k] = E!Entry(page, j)
      BY <3>2 DEF es
    <3>4. \A k \in 1..Len(es) : k \in 1..Len(fs)
      BY <2>4, <2>5
    <3>5. E!Title(page, j) # E!Blank => \E k \in 1..Len(fs) : fs[k] = E!Entry(page, j)
      BY <2>4, <3>3, <3>4
    <3>. QED
      BY <3>5 DEF fs
  <2>. QED
    BY <2>6, <2>7
<1>14. G = Nat
  <2>1. G \in SUBSET Nat
    OBVIOUS
  <2>. HIDE DEF G
  <2>. QED
    BY <1>12, <1>13, <2>1, Climb
<1>15. \A j \in 1..n : Has(n, j)
  BY <1>1, <1>14
<1>16. h[1..n] \in V
  <2>1. n \in 0..n
    BY <1>1
  <2>. QED
    BY <1>11, <2>1
<1>. QED
  BY <1>1, <1>2, <1>15, <1>16 DEF V, n

\* A list of books as it grows, of given ASINs and titles: no two books have an ASIN or a title in common.
Row(A, B) == [asin : A, title : B, author : STRING]

Listings(A, B) ==
    {st \in [books : Seq(Row(A, B)), seen : Seq(SUBSET (A \cup B))] :
        /\ Len(st.books) = Len(st.seen) /\ Len(st.books) <= MaxBooks
        /\ \A i \in 1..Len(st.books) : st.seen[i] = {E!Key(st.books[i]), st.books[i].title}
        /\ \A i, j \in 1..Len(st.books) : i # j => st.seen[i] \cap st.seen[j] = {}}

\* A book is in a list, or is not to be.
Found(books, e) ==
    \/ E!Short(e.title) \/ Len(books) = MaxBooks
    \/ \E j \in 1..Len(books) : e.title = books[j].title \/ (e.asin = books[j].asin /\ e.asin # E!Blank)

\* What a list keeps of another.
Grown(books, more) ==
    /\ Len(books) <= Len(more)
    /\ \A k \in 1..Len(books) : more[k].title = books[k].title /\ more[k].asin = books[k].asin

LEMMA RowsAre ==
    ASSUME NEW A, NEW B, NEW e \in Row(A, B)
    PROVE  e.asin \in A /\ e.title \in B /\ e.author \in STRING /\ E!Key(e) \in A \cup B
  BY DEF Row, E!Key

\* A book that is listed already tells its author at most.
LEMMA RepeatIs ==
    ASSUME NEW A, NEW B, NEW st \in Listings(A, B), NEW e \in Row(A, B), E!Known(st.seen, e) # {}
    PROVE  /\ E!Add(st, e) \in Listings(A, B)
           /\ Grown(st.books, E!Add(st, e).books)
           /\ (A \ {E!Blank}) \cap B = {} => Found(st.books, e)
<1>. DEFINE known == E!Known(st.seen, e)
            i == CHOOSE j \in known : TRUE
            n == Len(st.books)
            b == st.books[i]
            author == IF b.author = E!Blank THEN e.author ELSE b.author
            row == [asin |-> b.asin, title |-> b.title, author |-> author]
            rows == [st.books EXCEPT ![i] = row]
            res == E!Add(st, e)
<1>1. /\ st \in [books : Seq(Row(A, B)), seen : Seq(SUBSET (A \cup B))]
      /\ st.books \in Seq(Row(A, B)) /\ st.seen \in Seq(SUBSET (A \cup B)) /\ n \in Nat /\ Len(st.seen) = n /\ n <= MaxBooks
      /\ \A k \in 1..n : st.seen[k] = {E!Key(st.books[k]), st.books[k].title}
      /\ \A k, j \in 1..n : k # j => st.seen[k] \cap st.seen[j] = {}
      /\ st = [books |-> st.books, seen |-> st.seen]
  BY DEF Listings
<1>2. i \in known /\ known \subseteq 1..n
  <2>1. known \subseteq 1..n
    BY <1>1 DEF E!Known
  <2>. QED
    BY <2>1
<1>3. b \in Row(A, B) /\ i \in 1..n
  BY <1>1, <1>2
<1>. HIDE DEF i
<1>4. b = [asin |-> b.asin, title |-> b.title, author |-> b.author]
  <2>. HIDE DEF b
  <2>. QED
    BY <1>3 DEF Row
<1>5. row \in Row(A, B) /\ row.title = b.title /\ row.asin = b.asin /\ E!Key(row) = E!Key(b)
  <2>1. b.asin \in A /\ b.title \in B /\ b.author \in STRING /\ e.author \in STRING
    BY <1>3, RowsAre
  <2>. HIDE DEF b
  <2>. QED
    BY <2>1 DEF Row, E!Key
<1>6. res = [books |-> rows, seen |-> st.seen]
  <2>1. res = [st EXCEPT !.books[i].author = IF @ = E!Blank THEN e.author ELSE @]
    BY DEF E!Add, i
  <2>2. [b EXCEPT !.author = author] = row
    <3>. HIDE DEF b
    <3>. QED
      BY <1>4
  <2>3. res = [st EXCEPT !.books = [st.books EXCEPT ![i] = [b EXCEPT !.author = author]]]
    BY <1>1, <2>1
  <2>. HIDE DEF b, row, author, res
  <2>. QED
    BY <1>1, <2>2, <2>3
<1>7. rows \in Seq(Row(A, B)) /\ Len(rows) = n /\ rows[i] = row /\ \A k \in 1..n : k # i => rows[k] = st.books[k]
  <2>. HIDE DEF b, row
  <2>. QED
    BY <1>1, <1>3, <1>5
<1>. HIDE DEF b, row, rows
<1>8. \A k \in 1..n : rows[k].title = st.books[k].title /\ rows[k].asin = st.books[k].asin /\ E!Key(rows[k]) = E!Key(st.books[k])
  BY <1>3, <1>5, <1>7 DEF b
<1>9. res \in Listings(A, B)
  <2>. HIDE DEF n, res
  <2>1. res.books = rows /\ res.seen = st.seen
    BY <1>6
  <2>2. res \in [books : Seq(Row(A, B)), seen : Seq(SUBSET (A \cup B))]
    BY <1>1, <1>6, <1>7
  <2>. QED
    BY <1>1, <1>7, <1>8, <2>1, <2>2 DEF Listings
<1>10. Grown(st.books, res.books)
  <2>. HIDE DEF res
  <2>. QED
    BY <1>1, <1>6, <1>7, <1>8 DEF Grown
<1>11. ASSUME (A \ {E!Blank}) \cap B = {}
       PROVE  Found(st.books, e)
  <2>1. E!Key(e) \in st.seen[i] \/ e.title \in st.seen[i]
    BY <1>1, <1>2 DEF E!Known
  <2>2. E!Key(e) \in {E!Key(b), b.title} \/ e.title \in {E!Key(b), b.title}
    BY <1>1, <1>3, <2>1 DEF b
  <2>3. e.asin \in A /\ e.title \in B /\ b.asin \in A /\ b.title \in B
    BY <1>3, RowsAre
  <2>4. e.title = b.title \/ (e.asin = b.asin /\ e.asin # E!Blank)
    BY <1>11, <2>2, <2>3 DEF E!Key
  <2>. QED
    BY <1>3, <2>4 DEF Found, b
<1>. QED
  BY <1>9, <1>10, <1>11

\* A book that is new is listed, unless the list is full or the title too short.
LEMMA NewBookIs ==
    ASSUME NEW A, NEW B, NEW st \in Listings(A, B), NEW e \in Row(A, B), E!Known(st.seen, e) = {}
    PROVE  /\ E!Add(st, e) \in Listings(A, B)
           /\ Grown(st.books, E!Add(st, e).books)
           /\ Found(E!Add(st, e).books, e)
           /\ Len(st.books) = MaxBooks => E!Add(st, e).books = st.books
<1>. DEFINE n == Len(st.books)
            res == E!Add(st, e)
            keys == {E!Key(e), e.title}
            rows == Append(st.books, e)
            seen == Append(st.seen, keys)
<1>1. /\ st.books \in Seq(Row(A, B)) /\ st.seen \in Seq(SUBSET (A \cup B)) /\ n \in Nat /\ Len(st.seen) = n /\ n <= MaxBooks
      /\ \A k \in 1..n : st.seen[k] = {E!Key(st.books[k]), st.books[k].title}
      /\ \A k, j \in 1..n : k # j => st.seen[k] \cap st.seen[j] = {}
  BY DEF Listings
<1>2. MaxBooks \in Nat
  BY PagesAssumption
<1>3. CASE E!Short(e.title) \/ n >= MaxBooks
  <2>1. res = st
    BY <1>3 DEF E!Add
  <2>2. Grown(st.books, st.books)
    BY <1>1 DEF Grown
  <2>3. Found(st.books, e)
    BY <1>1, <1>2, <1>3 DEF Found
  <2>. QED
    BY <2>1, <2>2, <2>3
<1>4. CASE ~(E!Short(e.title) \/ n >= MaxBooks)
  <2>1. res = [books |-> rows, seen |-> seen]
    BY <1>4 DEF E!Add
  <2>2. keys \in SUBSET (A \cup B)
    BY RowsAre
  <2>3. /\ rows \in Seq(Row(A, B)) /\ Len(rows) = n + 1 /\ rows[n + 1] = e /\ \A k \in 1..n : rows[k] = st.books[k]
    BY <1>1
  <2>. HIDE DEF keys
  <2>4. /\ seen \in Seq(SUBSET (A \cup B)) /\ Len(seen) = n + 1 /\ seen[n + 1] = keys /\ \A k \in 1..n : seen[k] = st.seen[k]
    BY <1>1, <2>2
  <2>. HIDE DEF rows, seen
  <2>5. \A k \in 1..n : st.seen[k] \cap keys = {}
    <3>1. DOMAIN st.seen = 1..n
      BY <1>1
    <3>2. \A k \in 1..n : E!Key(e) \notin st.seen[k] /\ e.title \notin st.seen[k]
      <4>1. {k \in DOMAIN st.seen : E!Key(e) \in st.seen[k]} = {} /\ {k \in DOMAIN st.seen : e.title \in st.seen[k]} = {}
        BY DEF E!Known
      <4>. HIDE DEF n
      <4>. QED
        BY <3>1, <4>1
    <3>. QED
      BY <3>2 DEF keys
  <2>6. n < MaxBooks
    BY <1>1, <1>2, <1>4
  <2>7. res \in Listings(A, B)
    <3>1. \A k \in 1..(n + 1) : seen[k] = {E!Key(rows[k]), rows[k].title}
      <4>1. ASSUME NEW k \in 1..(n + 1)
            PROVE  seen[k] = {E!Key(rows[k]), rows[k].title}
        <5>1. CASE k = n + 1
          BY <2>3, <2>4, <5>1 DEF keys
        <5>2. CASE k # n + 1
          <6>1. k \in 1..n
            BY <1>1, <5>2
          <6>. QED
            BY <1>1, <2>3, <2>4, <6>1
        <5>. QED
          BY <5>1, <5>2
      <4>. QED
        BY <4>1
    <3>2. \A k, j \in 1..(n + 1) : k # j => seen[k] \cap seen[j] = {}
      <4>1. ASSUME NEW k \in 1..(n + 1), NEW j \in 1..(n + 1), k # j
            PROVE  seen[k] \cap seen[j] = {}
        <5>1. CASE k = n + 1
          <6>1. j \in 1..n
            BY <1>1, <4>1, <5>1
          <6>. QED
            BY <2>4, <2>5, <5>1, <6>1
        <5>2. CASE j = n + 1
          <6>1. k \in 1..n
            BY <1>1, <4>1, <5>2
          <6>. QED
            BY <2>4, <2>5, <5>2, <6>1
        <5>3. CASE k # n + 1 /\ j # n + 1
          <6>1. k \in 1..n /\ j \in 1..n
            BY <1>1, <5>3
          <6>. QED
            BY <1>1, <2>4, <4>1, <6>1
        <5>. QED
          BY <5>1, <5>2, <5>3
      <4>. QED
        BY <4>1
    <3>3. n + 1 <= MaxBooks
      BY <1>1, <1>2, <2>6
    <3>. HIDE DEF n, res
    <3>4. res.books = rows /\ res.seen = seen /\ res \in [books : Seq(Row(A, B)), seen : Seq(SUBSET (A \cup B))]
      BY <2>1, <2>3, <2>4
    <3>. QED
      BY <2>3, <2>4, <3>1, <3>2, <3>3, <3>4 DEF Listings
  <2>. HIDE DEF res
  <2>8. res.books = rows
    BY <2>1
  <2>9. Grown(st.books, res.books)
    BY <1>1, <2>3, <2>8 DEF Grown
  <2>10. Found(res.books, e)
    <3>1. n + 1 \in 1..Len(rows)
      BY <1>1, <2>3
    <3>. QED
      BY <2>3, <2>8, <3>1 DEF Found
  <2>. QED
    BY <2>6, <2>7, <2>9, <2>10, <1>1 DEF res
<1>. QED
  BY <1>3, <1>4

\* What a list has stays in it.
LEMMA FoundStays ==
    ASSUME NEW books, NEW more, NEW e, Grown(books, more), Found(books, e), Len(books) \in Nat, Len(more) \in Nat,
           Len(more) <= MaxBooks
    PROVE  Found(more, e)
<1>1. CASE Len(books) = MaxBooks
  BY <1>1, PagesAssumption DEF Grown, Found
<1>2. CASE E!Short(e.title)
  BY <1>2 DEF Found
<1>3. CASE \E j \in 1..Len(books) : e.title = books[j].title \/ (e.asin = books[j].asin /\ e.asin # E!Blank)
  <2>1. PICK j \in 1..Len(books) : e.title = books[j].title \/ (e.asin = books[j].asin /\ e.asin # E!Blank)
    BY <1>3
  <2>2. j \in 1..Len(more) /\ more[j].title = books[j].title /\ more[j].asin = books[j].asin
    BY DEF Grown
  <2>. QED
    BY <2>1, <2>2 DEF Found
<1>. QED
  BY <1>1, <1>2, <1>3 DEF Found

LEMMA AddIs ==
    ASSUME NEW A, NEW B, NEW st \in Listings(A, B), NEW e \in Row(A, B)
    PROVE  /\ E!Add(st, e) \in Listings(A, B)
           /\ Grown(st.books, E!Add(st, e).books)
           /\ (A \ {E!Blank}) \cap B = {} => Found(E!Add(st, e).books, e)
<1>1. CASE E!Known(st.seen, e) = {}
  BY <1>1, NewBookIs
<1>2. CASE E!Known(st.seen, e) # {}
  <2>. DEFINE more == E!Add(st, e).books
  <2>1. /\ E!Add(st, e) \in Listings(A, B)
        /\ Grown(st.books, more)
        /\ (A \ {E!Blank}) \cap B = {} => Found(st.books, e)
    BY <1>2, RepeatIs
  <2>2. Len(st.books) \in Nat /\ Len(more) \in Nat /\ Len(more) <= MaxBooks
    BY <2>1 DEF Listings
  <2>. HIDE DEF more
  <2>3. (A \ {E!Blank}) \cap B = {} => Found(more, e)
    BY <2>1, <2>2, FoundStays
  <2>. QED
    BY <2>1, <2>3 DEF more
<1>. QED
  BY <1>1, <1>2

\* The list of a page's books.
LEMMA ParseIs ==
    ASSUME NEW A, NEW B, NEW page, NEW es, es = E!fromHTML(page), es \in Seq(Row(A, B))
    PROVE  \E st \in Listings(A, B) :
               /\ E!Parse(page) = st.books
               /\ (A \ {E!Blank}) \cap B = {} => \A k \in 1..Len(es) : Found(st.books, es[k])
<1>. DEFINE n == Len(es)
            none == [books |-> <<>>, seen |-> <<>>]
            Next0(g) == [K \in SUBSET DOMAIN es |-> IF K = {} THEN none ELSE E!Add(g[K \ {E!Max(K)}], es[E!Max(K)])]
            h == CHOOSE g : g = Next0(g)
            V == Listings(A, B)
            step == [p \in (1..n) \X V |-> E!Add(p[2], es[p[1]])]
<1>1. n \in Nat /\ DOMAIN es = 1..n /\ \A i \in 1..n : es[i] \in Row(A, B)
  OBVIOUS
<1>2. E!Parse(page) = h[DOMAIN es].books
  BY DEF E!Parse, E!FoldLeft, E!MapThenFoldSet
<1>3. \A i \in 1..n, v \in V : /\ E!Add(v, es[i]) \in V
                               /\ Grown(v.books, E!Add(v, es[i]).books)
                               /\ (A \ {E!Blank}) \cap B = {} => Found(E!Add(v, es[i]).books, es[i])
  BY <1>1, AddIs
<1>4. none \in V
  <2>1. Len(<<>>) = 0 /\ 0 <= MaxBooks
    BY PagesAssumption
  <2>2. none.books = <<>> /\ none.seen = <<>>
    OBVIOUS
  <2>3. none \in [books : Seq(Row(A, B)), seen : Seq(SUBSET (A \cup B))]
    OBVIOUS
  <2>. HIDE DEF none
  <2>. QED
    BY <2>1, <2>2, <2>3 DEF Listings
<1>. HIDE DEF V, n, none
<1>5. step \in [(1..n) \X V -> V] /\ \A i \in 1..n, v \in V : step[<<i, v>>] = E!Add(v, es[i])
  BY <1>3
<1>. HIDE DEF step
<1>6. PICK g : Folds(n, V, none, step, g)
  BY <1>1, <1>4, <1>5, FoldExists
<1>7. g \in [SUBSET (1..n) -> V] /\ \A K \in SUBSET (1..n) : g[K] = IF K = {} THEN none ELSE step[<<P!Max(K), g[K \ {P!Max(K)}]>>]
  BY <1>6 DEF Folds, Unfolds
<1>8. g = Next0(g)
  <2>1. ASSUME NEW K \in SUBSET (1..n), K # {}
        PROVE  g[K] = E!Add(g[K \ {E!Max(K)}], es[E!Max(K)])
    <3>1. P!Max(K) \in 1..n
      BY <1>1, <2>1, MaxIsIn
    <3>2. g[K \ {P!Max(K)}] \in V
      BY <1>7
    <3>3. g[K] = step[<<P!Max(K), g[K \ {P!Max(K)}]>>]
      BY <1>7, <2>1
    <3>4. g[K] = E!Add(g[K \ {P!Max(K)}], es[P!Max(K)])
      BY <1>5, <3>1, <3>2, <3>3
    <3>. QED
      BY <3>4, SameMax
  <2>. QED
    BY <1>1, <1>7, <2>1
<1>9. h = Next0(h)
  <2>. HIDE DEF Next0
  <2>. QED
    BY <1>8
<1>. HIDE DEF h
<1>10. Stepwise(n, V, none, step, h)
  <2>1. ASSUME NEW K \in SUBSET (1..n)
        PROVE  h[K] = IF K = {} THEN none ELSE E!Add(h[K \ {P!Max(K)}], es[P!Max(K)])
    <3>1. h[K] = IF K = {} THEN none ELSE E!Add(h[K \ {E!Max(K)}], es[E!Max(K)])
      BY <1>1, <1>9
    <3>. QED
      BY <3>1, SameMax
  <2>2. h[{}] = none
    BY <2>1
  <2>3. ASSUME NEW K \in SUBSET (1..n), K # {}, h[K \ {P!Max(K)}] \in V
        PROVE  h[K] = step[<<P!Max(K), h[K \ {P!Max(K)}]>>]
    <3>1. P!Max(K) \in 1..n
      BY <1>1, <2>3, MaxIsIn
    <3>2. step[<<P!Max(K), h[K \ {P!Max(K)}]>>] = E!Add(h[K \ {P!Max(K)}], es[P!Max(K)])
      BY <1>5, <2>3, <3>1
    <3>. QED
      BY <2>1, <2>3, <3>2
  <2>. QED
    BY <1>4, <1>5, <2>2, <2>3 DEF Stepwise
<1>. HIDE DEF Next0
<1>11. /\ h[1..0] = none
       /\ \A i \in 0..n : h[1..i] \in V
       /\ \A i \in 1..n : h[1..i] = step[<<i, h[1..(i - 1)]>>]
  BY <1>1, <1>10, FoldStays
<1>. DEFINE G == {i \in Nat : i <= n => \A k \in 1..i : Found(h[1..i].books, es[k])}
<1>12. ASSUME (A \ {E!Blank}) \cap B = {}
       PROVE  \A k \in 1..n : Found(h[1..n].books, es[k])
  <2>1. 0 \in G
    OBVIOUS
  <2>2. ASSUME NEW i \in G
        PROVE  i + 1 \in G
    <3>1. SUFFICES ASSUME i + 1 <= n, NEW k \in 1..(i + 1)
                   PROVE  Found(h[1..(i + 1)].books, es[k])
      OBVIOUS
    <3>. DEFINE old == h[1..i]
                new == h[1..(i + 1)]
    <3>2. i + 1 \in 1..n /\ (i + 1) - 1 = i /\ i \in 0..n /\ i <= n
      BY <1>1, <3>1
    <3>3. old \in V /\ new = E!Add(old, es[i + 1])
      BY <1>5, <1>11, <3>2
    <3>4. \A j \in 1..i : Found(old.books, es[j])
      BY <3>2
    <3>. HIDE DEF old, new
    <3>5. new \in V /\ Grown(old.books, new.books) /\ Found(new.books, es[i + 1])
      BY <1>3, <1>12, <3>2, <3>3
    <3>6. Len(old.books) \in Nat /\ Len(new.books) \in Nat /\ Len(new.books) <= MaxBooks
      BY <3>3, <3>5 DEF V, Listings
    <3>7. CASE k = i + 1
      BY <3>5, <3>7 DEF new
    <3>8. CASE k # i + 1
      <4>1. k \in 1..i
        BY <3>1, <3>8
      <4>2. Found(old.books, es[k])
        BY <3>4, <4>1
      <4>3. Found(new.books, es[k])
        BY <3>5, <3>6, <4>2, FoundStays
      <4>. QED
        BY <4>3 DEF new
    <3>. QED
      BY <3>7, <3>8
  <2>3. G = Nat
    <3>1. G \in SUBSET Nat
      OBVIOUS
    <3>. HIDE DEF G
    <3>. QED
      BY <2>1, <2>2, <3>1, Climb
  <2>. QED
    BY <1>1, <2>3
<1>13. h[1..n] \in V
  <2>1. n \in 0..n
    BY <1>1
  <2>. QED
    BY <1>11, <2>1
<1>. QED
  BY <1>1, <1>2, <1>12, <1>13 DEF V, n

\* No list of books repeats one.
LEMMA ListsRepeatNone ==
    ASSUME NEW page \in Seq(OneCard)
    PROVE  LET books == E!Parse(page) IN
           \A i, j \in DOMAIN books :
               i # j => books[i].title # books[j].title /\ (books[i].asin = books[j].asin => books[i].asin = E!Blank)
<1>. DEFINE es == E!fromHTML(page)
<1>1. es \in Seq(Row(STRING, STRING))
  <2>1. es \in BooksOf(page)
    BY FromHTML
  <2>2. OneBook = Row(STRING, STRING)
    BY DEF OneBook, Row
  <2>. QED
    BY <2>1, <2>2 DEF BooksOf
<1>2. PICK st \in Listings(STRING, STRING) : E!Parse(page) = st.books
  <2>. HIDE DEF es
  <2>1. es = E!fromHTML(page)
    BY DEF es
  <2>. QED
    BY <1>1, <2>1, ParseIs
<1>. DEFINE books == st.books
            n == Len(books)
<1>3. /\ books \in Seq(Row(STRING, STRING)) /\ DOMAIN books = 1..n
      /\ \A i \in 1..n : st.seen[i] = {E!Key(books[i]), books[i].title}
      /\ \A i, j \in 1..n : i # j => st.seen[i] \cap st.seen[j] = {}
  BY DEF Listings
<1>. HIDE DEF books, n
<1>4. ASSUME NEW i \in 1..n, NEW j \in 1..n, i # j
      PROVE  books[i].title # books[j].title /\ (books[i].asin = books[j].asin => books[i].asin = E!Blank)
  <2>1. {E!Key(books[i]), books[i].title} \cap {E!Key(books[j]), books[j].title} = {}
    BY <1>3, <1>4
  <2>2. books[i].title # books[j].title /\ E!Key(books[i]) # E!Key(books[j])
    BY <2>1
  <2>. QED
    BY <2>2 DEF E!Key
<1>. QED
  BY <1>2, <1>3, <1>4 DEF books

\* The first k cards of a list: once all are there, a site may begin again.
Begins(cards, g, k) ==
    /\ \A i \in 1..Len(cards) : i <= k => i <= Len(g) /\ g[i] = cards[i]
    /\ k < Len(cards) => Len(g) = k

\* How many cards come before what is asked for next.
From(s, k) == IF s.kind = "offset" THEN k ELSE s.first + (k - 2) * s.chunk

Dealt(cards) == {cards[i] : i \in 1..Len(cards)}

Covered == E!Regular /\ ~cutShort

PagesRead ==
    /\ E!TypeOK
    /\ got \in Seq(Dealt(list))
    /\ fetch \in {"page", "count", "links"} => requests < maxMore
    /\ fetch \in {"count", "links"} => site.kind = "offset" \/ next >= 2
    /\ fetch = "count" => site.kind \in {"offset", "page"}
    /\ fetch = "links" => site.kind \in {"links", "none"} /\ 1 \in pages /\ pages \subseteq 0..(next - 1)
    /\ Covered /\ fetch \in {"count", "links"} => Begins(list, got, From(site, next))
    /\ Covered /\ fetch = "done" /\ requests < maxMore /\ brought < maxTotal => Begins(list, got, Len(list))

LEMMA ListIs ==
    ASSUME E!TypeOK
    PROVE  /\ list \in Seq(OneCard) /\ Len(list) \in Nat /\ Dealt(list) \subseteq OneCard
           /\ site.kind \in {"none", "offset", "page", "links"} /\ site.first \in Nat /\ site.chunk \in Nat \ {0}
<1>1. list \in Seq(OneCard) /\ site \in OneSite
  BY PagesAssumption DEF E!TypeOK
<1>2. site.kind \in {"none", "offset", "page", "links"} /\ site.first \in Nat /\ site.chunk \in Nat \ {0}
  BY <1>1 DEF OneSite
<1>. QED
  BY <1>1, <1>2 DEF Dealt

LEMMA CardsAre ==
    ASSUME E!TypeOK, NEW low \in Nat \ {0}, NEW high \in Nat
    PROVE  /\ E!Cards(low, high) \in Seq(Dealt(list))
           /\ Len(E!Cards(low, high)) = (IF low > high \/ low > Len(list) THEN 0
                                         ELSE IF high < Len(list) THEN high - low + 1 ELSE Len(list) - low + 1)
           /\ \A i \in 1..Len(E!Cards(low, high)) : E!Cards(low, high)[i] = list[low + i - 1]
<1>. DEFINE top == IF high < Len(list) THEN high ELSE Len(list)
            cards == SubSeq(list, low, top)
<1>1. list \in Seq(OneCard) /\ Len(list) \in Nat
  BY ListIs
<1>2. top \in Nat /\ top <= Len(list) /\ (top = high \/ top = Len(list)) /\ top <= high
  BY <1>1
<1>3. E!Cards(low, high) = cards
  BY DEF E!Cards
<1>4. Len(cards) = (IF low <= top THEN top - low + 1 ELSE 0)
  BY <1>1, <1>2
<1>5. \A i \in 1..Len(cards) : cards[i] = list[low + i - 1] /\ low + i - 1 \in 1..Len(list)
  BY <1>1, <1>2, <1>4
<1>6. cards \in Seq(Dealt(list))
  <2>1. cards \in Seq(OneCard)
    BY <1>1, <1>2
  <2>2. \A i \in 1..Len(cards) : cards[i] \in Dealt(list)
    BY <1>5 DEF Dealt
  <2>. HIDE DEF cards
  <2>. QED
    BY <2>1, <2>2
<1>7. Len(cards) = (IF low > high \/ low > Len(list) THEN 0
                    ELSE IF high < Len(list) THEN high - low + 1 ELSE Len(list) - low + 1)
  <2>. HIDE DEF cards
  <2>. QED
    BY <1>1, <1>2, <1>4
<1>. HIDE DEF cards
<1>. QED
  BY <1>3, <1>5, <1>6, <1>7

\* The next cards go to the end.
LEMMA GoesOn ==
    ASSUME E!TypeOK, NEW g \in Seq(Dealt(list)), NEW k \in Nat, Begins(list, g, k), k < Len(list)
    PROVE  /\ g \o E!Cards(k + 1, k + site.chunk) \in Seq(Dealt(list))
           /\ Begins(list, g \o E!Cards(k + 1, k + site.chunk), k + site.chunk)
<1>. DEFINE low == k + 1
            high == k + site.chunk
            c == E!Cards(low, high)
            h == g \o c
<1>1. Len(list) \in Nat /\ site.chunk \in Nat \ {0} /\ low \in Nat \ {0} /\ high \in Nat /\ high >= low
  BY ListIs
<1>2. low = k + 1 /\ high = k + site.chunk
  OBVIOUS
<1>. HIDE DEF low, high
<1>3. /\ c \in Seq(Dealt(list))
      /\ Len(c) = (IF low > high \/ low > Len(list) THEN 0
                   ELSE IF high < Len(list) THEN high - low + 1 ELSE Len(list) - low + 1)
      /\ \A i \in 1..Len(c) : c[i] = list[low + i - 1]
  BY <1>1, CardsAre
<1>. HIDE DEF c
<1>4. Len(c) = (IF high < Len(list) THEN site.chunk ELSE Len(list) - k) /\ Len(c) \in Nat
  <2>1. ~(low > high) /\ ~(low > Len(list))
    BY <1>1, <1>2
  <2>2. high - low + 1 = site.chunk /\ Len(list) - low + 1 = Len(list) - k
    <3>1. \A x, y \in Nat : (k + x) - (k + 1) + 1 = x /\ y - (k + 1) + 1 = y - k
      OBVIOUS
    <3>. QED
      BY <1>1, <1>2, <3>1
  <2>3. Len(c) = (IF low > high \/ low > Len(list) THEN 0
                  ELSE IF high < Len(list) THEN high - low + 1 ELSE Len(list) - low + 1)
    BY <1>3
  <2>4. Len(c) = (IF high < Len(list) THEN site.chunk ELSE Len(list) - k)
    BY <2>1, <2>3, <2>2
  <2>5. Len(list) - k \in Nat
    BY <1>1
  <2>. QED
    BY <1>1, <2>4, <2>5
<1>5. h \in Seq(Dealt(list)) /\ Len(h) = Len(g) + Len(c)
  <2>. DEFINE S == Dealt(list)
  <2>1. c \in Seq(S) /\ g \in Seq(S)
    BY <1>3
  <2>. HIDE DEF S
  <2>2. h \in Seq(S)
    BY <2>1
  <2>3. Len(h) = Len(g) + Len(c)
    BY <2>1
  <2>. QED
    BY <2>2, <2>3 DEF S
<1>6. Len(g) = k /\ \A i \in 1..k : g[i] = list[i]
  BY <1>1 DEF Begins
<1>7. \A i \in 1..Len(h) : h[i] = IF i <= k THEN g[i] ELSE c[i - k]
  BY <1>3, <1>6
<1>8. \A i \in 1..Len(h) : h[i] = list[i]
  <2>1. SUFFICES ASSUME NEW i \in 1..Len(h) PROVE h[i] = list[i]
    OBVIOUS
  <2>. HIDE DEF h
  <2>2. CASE i <= k
    BY <1>6, <1>7, <2>2
  <2>3. CASE i > k
    <3>1. i - k \in 1..Len(c) /\ low + (i - k) - 1 = i
      BY <1>2, <1>4, <1>5, <1>6, <2>3
    <3>. QED
      BY <1>3, <1>7, <2>3, <3>1
  <2>. QED
    BY <2>2, <2>3, <1>4, <1>5, <1>6
<1>. HIDE DEF h
<1>9. Len(h) = IF high < Len(list) THEN high ELSE Len(list)
  BY <1>1, <1>2, <1>4, <1>5, <1>6
<1>10. Begins(list, h, high)
  BY <1>1, <1>8, <1>9 DEF Begins
<1>11. h \in Seq(Dealt(list)) /\ Begins(list, h, high)
  BY <1>5, <1>10
<1>12. E!Cards(k + 1, k + site.chunk) = c
  BY <1>2 DEF c
<1>. QED
  BY <1>2, <1>11, <1>12 DEF h

\* What a site sends again does not matter.
LEMMA GoesAgain ==
    ASSUME NEW cards, Len(cards) \in Nat, NEW S, NEW g \in Seq(S), NEW c \in Seq(S), NEW k \in Nat, NEW m \in Nat,
           Begins(cards, g, k), k >= Len(cards), m >= Len(cards)
    PROVE  Begins(cards, g \o c, m)
<1>1. \A i \in 1..Len(g) : i <= Len(g \o c) /\ (g \o c)[i] = g[i]
  OBVIOUS
<1>2. \A i \in 1..Len(cards) : i <= Len(g) /\ g[i] = cards[i]
  BY DEF Begins
<1>3. \A i \in 1..Len(cards) : i <= Len(g \o c) /\ (g \o c)[i] = cards[i]
  <2>. DEFINE h == g \o c
  <2>1. Len(g) \in Nat /\ \A i \in 1..Len(g) : i <= Len(h) /\ h[i] = g[i]
    BY <1>1
  <2>. HIDE DEF h
  <2>2. \A i \in 1..Len(cards) : i <= Len(h) /\ h[i] = cards[i]
    BY <1>2, <2>1
  <2>. QED
    BY <2>2 DEF h
<1>. QED
  BY <1>3 DEF Begins

LEMMA PagesBegin ==
    ASSUME E!Init
    PROVE  PagesRead
<1>1. maxMore \in Nat \ {0}
  BY PagesAssumption
<1>2. E!TypeOK
  <2>1. list \in Lists /\ site \in Sites /\ fetch = "page" /\ next = 0 /\ requests = 0 /\ pages = {} /\ cutShort = FALSE
        /\ brought = 0
    BY DEF E!Init
  <2>2. cutShort \in BOOLEAN
    BY <2>1, Zenon
  <2>3. requests \in 0..maxMore /\ next \in Nat /\ pages \subseteq Nat /\ brought \in Nat
    BY <1>1, <2>1
  <2>. QED
    BY <2>1, <2>2, <2>3 DEF E!TypeOK
<1>3. got \in Seq(Dealt(list))
  BY DEF E!Init
<1>4. requests = 0 /\ fetch = "page"
  BY DEF E!Init
<1>. QED
  BY <1>1, <1>2, <1>3, <1>4 DEF PagesRead

\* Pages after the first come one chunk after the other.
LEMMA PlaceOf ==
    ASSUME E!TypeOK, NEW k \in Nat, site.kind = "offset" \/ k >= 2
    PROVE  /\ E!FirstOf(k) = From(site, k) /\ From(site, k) \in Nat
           /\ site.kind # "offset" => From(site, k + 1) = From(site, k) + site.chunk /\ From(site, 2) = site.first
           /\ site.kind = "offset" => \A n \in Nat : From(site, k + n) = From(site, k) + n
<1>1. site.first \in Nat /\ site.chunk \in Nat
  BY ListIs
<1>2. E!FirstOf(k) = From(site, k)
  BY DEF E!FirstOf, From
<1>3. CASE site.kind = "offset"
  BY <1>2, <1>3 DEF From
<1>4. CASE site.kind # "offset"
  <2>. DEFINE n == site.chunk
  <2>1. k - 2 \in Nat /\ k + 1 - 2 = (k - 2) + 1
    BY <1>4
  <2>2. (k - 2) * n \in Nat /\ ((k - 2) + 1) * n = (k - 2) * n + n /\ (2 - 2) * n = 0
    BY <1>1, <2>1
  <2>3. From(site, k) = site.first + (k - 2) * n /\ From(site, k + 1) = site.first + (k + 1 - 2) * n /\ From(site, 2) = site.first + (2 - 2) * n
    BY <1>4 DEF From
  <2>. QED
    BY <1>1, <1>2, <1>4, <2>1, <2>2, <2>3
<1>. QED
  BY <1>3, <1>4

\* What is read of an answer is its beginning, and all of it when it is not too long.
LEMMA GetIs ==
    ASSUME NEW S, NEW page \in Seq(S)
    PROVE  /\ E!get(page) \in Seq(S) /\ Len(E!get(page)) \in Nat
           /\ Len(page) <= maxPage => E!Whole(page) /\ E!get(page) = page
<1>1. maxPage \in Nat
  BY PagesAssumption
<1>2. SubSeq(page, 1, maxPage) \in Seq(S) \/ Len(page) <= maxPage
  BY <1>1
<1>3. E!get(page) = (IF Len(page) <= maxPage THEN page ELSE SubSeq(page, 1, maxPage))
  BY DEF E!get, E!Whole
<1>. DEFINE part == SubSeq(page, 1, maxPage)
            res == E!get(page)
<1>4. (part \in Seq(S) \/ Len(page) <= maxPage) /\ res = (IF Len(page) <= maxPage THEN page ELSE part)
  BY <1>2, <1>3
<1>. HIDE DEF part, res
<1>5. res \in Seq(S)
  BY <1>1, <1>4
<1>6. Len(res) \in Nat
  BY <1>5
<1>7. Len(page) <= maxPage => res = page
  BY <1>4
<1>. QED
  BY <1>5, <1>6, <1>7 DEF res, E!Whole

\* What is served is cards of the list, and is read whole where answers are short.
LEMMA ServedIs ==
    ASSUME E!TypeOK, NEW k \in Nat, site.kind = "offset" \/ k >= 2
    PROVE  /\ E!Served(k) \in Seq(Dealt(list))
           /\ From(site, k) < Len(list) => E!Served(k) = E!Cards(From(site, k) + 1, From(site, k) + site.chunk)
           /\ E!Regular => E!Whole(E!Served(k)) /\ E!get(E!Served(k)) = E!Served(k)
<1>. DEFINE m == From(site, k)
            c == E!Served(k)
            low == m + 1
            high == m + site.chunk
            one == 1
            shown == site.first
<1>1. E!FirstOf(k) = m /\ m \in Nat
  BY PlaceOf
<1>2. Len(list) \in Nat /\ shown \in Nat /\ site.chunk \in Nat \ {0}
  BY ListIs
<1>3. c = (IF m >= Len(list) /\ site.round THEN E!Cards(one, shown) ELSE E!Cards(low, high))
  BY <1>1 DEF E!Served
<1>4. one \in Nat \ {0} /\ low \in Nat \ {0} /\ high \in Nat
      /\ shown - one + 1 = shown /\ high - low + 1 = site.chunk
      /\ one = 1
  <2>1. \A x, y \in Nat : (x + y) - (x + 1) + 1 = y
    OBVIOUS
  <2>. QED
    BY <1>1, <1>2, <2>1
<1>5. E!Regular => shown <= maxPage /\ site.chunk <= maxPage
  BY DEF E!Regular
<1>. HIDE DEF m, low, high, one, shown
<1>. DEFINE x == E!Cards(one, shown)
            y == E!Cards(low, high)
<1>6. /\ x \in Seq(Dealt(list))
      /\ Len(x) = (IF one > shown \/ one > Len(list) THEN 0
                   ELSE IF shown < Len(list) THEN shown - one + 1 ELSE Len(list) - one + 1)
  BY <1>2, <1>4, CardsAre
<1>7. /\ y \in Seq(Dealt(list))
      /\ Len(y) = (IF low > high \/ low > Len(list) THEN 0
                   ELSE IF high < Len(list) THEN high - low + 1 ELSE Len(list) - low + 1)
  BY <1>2, <1>4, CardsAre
<1>8. c = (IF m >= Len(list) /\ site.round THEN x ELSE y)
  BY <1>3
<1>. HIDE DEF x, y, c
<1>9. Len(x) <= shown
  BY <1>2, <1>4, <1>6
<1>10. Len(y) <= site.chunk
  BY <1>2, <1>4, <1>7
<1>11. c \in Seq(Dealt(list))
  BY <1>6, <1>7, <1>8
<1>12. c = x \/ c = y
  BY <1>8
<1>13. E!Regular => Len(c) <= maxPage
  <2>1. maxPage \in Nat /\ Len(x) \in Nat /\ Len(y) \in Nat
    BY <1>6, <1>7, PagesAssumption
  <2>. QED
    BY <1>2, <1>5, <1>9, <1>10, <1>12, <2>1
<1>14. E!Regular => E!Whole(c) /\ E!get(c) = c
  BY <1>11, <1>13, GetIs
<1>15. m < Len(list) => c = y
  BY <1>1, <1>2, <1>8
<1>. QED
  BY <1>11, <1>14, <1>15 DEF c, y, low, high, m

\* An answer goes on where the last one ended, and is not empty before the list's end.
LEMMA AnswerIs ==
    ASSUME E!TypeOK, NEW k \in Nat, site.kind = "offset" \/ k >= 2, NEW g \in Seq(Dealt(list))
    PROVE  /\ g \o E!get(E!Served(k)) \in Seq(Dealt(list)) /\ Len(E!get(E!Served(k))) \in Nat
           /\ E!Regular => E!Whole(E!Served(k))
           /\ E!Regular /\ Begins(list, g, From(site, k)) => Begins(list, g \o E!get(E!Served(k)), From(site, k) + site.chunk)
           /\ E!Regular /\ From(site, k) < Len(list) => E!fromHTML(E!get(E!Served(k))) # <<>>
<1>. DEFINE m == From(site, k)
            c == E!Served(k)
            h == E!get(E!Served(k))
<1>1. m \in Nat
  BY PlaceOf
<1>2. Len(list) \in Nat /\ site.chunk \in Nat \ {0}
  BY ListIs
<1>3. c \in Seq(Dealt(list)) /\ (m < Len(list) => c = E!Cards(m + 1, m + site.chunk))
      /\ (E!Regular => E!Whole(c) /\ h = c)
  BY ServedIs
<1>4. h \in Seq(Dealt(list)) /\ Len(h) \in Nat
  BY <1>3, GetIs
<1>. HIDE DEF m, c, h
<1>5. g \o h \in Seq(Dealt(list))
  <2>. DEFINE S == Dealt(list)
  <2>1. h \in Seq(S) /\ g \in Seq(S)
    BY <1>4
  <2>. HIDE DEF S
  <2>2. g \o h \in Seq(S)
    BY <2>1
  <2>. QED
    BY <2>2 DEF S
<1>6. ASSUME E!Regular, Begins(list, g, m) PROVE Begins(list, g \o h, m + site.chunk)
  <2>1. CASE m < Len(list)
    BY <1>1, <1>3, <1>6, <2>1, GoesOn
  <2>2. CASE m >= Len(list)
    <3>1. m + site.chunk \in Nat /\ m + site.chunk >= Len(list)
      BY <1>1, <1>2, <2>2
    <3>. QED
      BY <1>1, <1>2, <1>4, <1>6, <2>2, <3>1, GoesAgain
  <2>. QED
    BY <1>1, <1>2, <2>1, <2>2
<1>7. ASSUME E!Regular, m < Len(list) PROVE E!fromHTML(h) # <<>>
  <2>1. m + 1 \in DOMAIN list /\ (m + 1) + site.chunk - 1 = m + site.chunk
    <3>1. DOMAIN list = 1..Len(list)
      <4>1. list \in Seq(OneCard)
        BY ListIs
      <4>. QED
        BY <4>1
    <3>2. m + 1 \in 1..Len(list) /\ (m + 1) + site.chunk - 1 = m + site.chunk
      BY <1>1, <1>2, <1>7
    <3>. QED
      BY <3>1, <3>2
  <2>2. \A i \in DOMAIN list : E!fromHTML(E!Cards(i, i + site.chunk - 1)) # <<>>
    BY <1>7 DEF E!Regular
  <2>3. E!fromHTML(E!Cards(m + 1, (m + 1) + site.chunk - 1)) # <<>>
    BY <2>1, <2>2
  <2>. QED
    BY <1>3, <1>7, <2>1, <2>3
<1>. QED
  BY <1>3, <1>4, <1>5, <1>6, <1>7 DEF m, c, h

LEMMA SameRegular ==
    ASSUME list' = list, site' = site
    PROVE  E!Regular' => E!Regular
  BY DEF E!Regular, E!Cards

\* Nothing that the list's first cards say is lost when nothing is left.
LEMMA AllThere ==
    ASSUME NEW cards, Len(cards) \in Nat, NEW g, NEW k \in Nat, Begins(cards, g, k), k >= Len(cards)
    PROVE  Begins(cards, g, Len(cards))
  BY DEF Begins

LEMMA FetchKeeps ==
    ASSUME PagesRead, NEW ok \in BOOLEAN, E!Fetch(ok)
    PROVE  PagesRead'
<1>1. /\ fetch = "page" /\ list' = list /\ site' = site /\ requests' = requests /\ cutShort' = cutShort /\ pages' = {1} /\ brought' = brought
      /\ ok => got' = E!get(E!Cards(1, site.first)) /\ next' = E!Start /\ fetch' = E!loadMore
      /\ ~ok => fetch' = "refused" /\ got' = got /\ next' = next
  BY DEF E!Fetch
<1>2. E!TypeOK /\ got \in Seq(Dealt(list)) /\ requests < maxMore /\ requests \in 0..maxMore /\ next \in Nat /\ cutShort \in BOOLEAN /\ brought \in Nat
  BY <1>1 DEF PagesRead, E!TypeOK
<1>3. /\ Len(list) \in Nat /\ site.first \in Nat
      /\ site.kind \in {"none", "offset", "page", "links"}
  BY <1>2, ListIs
<1>4. list' \in Lists /\ site' \in Sites /\ requests' \in 0..maxMore /\ pages' \subseteq Nat /\ brought' \in Nat
  BY <1>1, <1>2 DEF E!TypeOK
<1>5. cutShort' \in BOOLEAN
  BY <1>1, <1>2, Zenon
<1>6. CASE ~ok
  <2>1. E!TypeOK'
    BY <1>1, <1>2, <1>4, <1>5, <1>6 DEF E!TypeOK
  <2>. QED
    BY <1>1, <1>2, <1>6, <2>1 DEF PagesRead
<1>7. CASE ok
  <2>1. next' = (IF site.kind = "offset" THEN site.first ELSE 2) /\ next' \in Nat
    BY <1>1, <1>3, <1>7 DEF E!Start
  <2>2. /\ fetch' \in {"count", "links", "done"}
        /\ fetch' = "count" => site.kind \in {"offset", "page"}
        /\ fetch' = "links" => site.kind \in {"links", "none"}
    BY <1>1, <1>3, <1>7 DEF E!loadMore
  <2>3. E!TypeOK'
    BY <1>4, <1>5, <2>1, <2>2 DEF E!TypeOK
  <2>4. From(site, next') = site.first
    <3>1. site.kind # "offset" => From(site, 2) = site.first
      <4>1. 2 \in Nat /\ 2 >= 2
        OBVIOUS
      <4>. QED
        BY <1>2, <4>1, PlaceOf
    <3>2. site.kind = "offset" => From(site, next') = next'
      BY DEF From
    <3>. QED
      BY <2>1, <3>1, <3>2
  <2>5. 1 \in Nat \ {0}
    OBVIOUS
  <2>6. /\ got' \in Seq(Dealt(list))
        /\ E!Regular => /\ Len(got') = (IF 1 > site.first \/ 1 > Len(list) THEN 0
                                        ELSE IF site.first < Len(list) THEN site.first - 1 + 1 ELSE Len(list) - 1 + 1)
                        /\ \A i \in 1..Len(got') : got'[i] = list[1 + i - 1]
    <3>. DEFINE low == 1
                high == site.first
                all == E!Cards(low, high)
    <3>1. low \in Nat \ {0} /\ high \in Nat /\ got' = E!get(all) /\ low = 1
      BY <1>1, <1>3, <1>7, <2>5
    <3>2. E!Regular => high <= maxPage
      BY DEF E!Regular
    <3>. HIDE DEF low, high
    <3>3. /\ all \in Seq(Dealt(list))
          /\ Len(all) = (IF low > high \/ low > Len(list) THEN 0
                         ELSE IF high < Len(list) THEN high - low + 1 ELSE Len(list) - low + 1)
          /\ \A i \in 1..Len(all) : all[i] = list[low + i - 1]
      BY <1>2, <3>1, CardsAre
    <3>. HIDE DEF all
    <3>4. Len(all) <= high
      BY <1>3, <3>1, <3>3
    <3>5. maxPage \in Nat /\ Len(all) \in Nat
      BY <3>3, PagesAssumption
    <3>6. got' \in Seq(Dealt(list)) /\ (E!Regular => got' = all)
      BY <3>1, <3>2, <3>3, <3>4, <3>5, GetIs
    <3>. QED
      BY <3>3, <3>6 DEF low, high
  <2>7. E!Regular => Len(got') = IF site.first < Len(list) THEN site.first ELSE Len(list)
    BY <1>3, <2>6
  <2>8. E!Regular => Begins(list, got', site.first)
    <3>. SUFFICES ASSUME E!Regular PROVE Begins(list, got', site.first)
      OBVIOUS
    <3>1. \A i \in 1..Len(list) : i <= site.first => i \in 1..Len(got') /\ i <= Len(got') /\ 1 + i - 1 = i
      BY <1>3, <2>7
    <3>2. \A i \in 1..Len(list) : i <= site.first => i <= Len(got') /\ got'[i] = list[i]
      BY <2>6, <3>1
    <3>. QED
      BY <1>3, <2>7, <3>2 DEF Begins
  <2>9. E!Regular => fetch' # "done"
    <3>1. SUFFICES ASSUME E!Regular PROVE fetch' # "done"
      OBVIOUS
    <3>2. site.home /\ (site.kind = "offset" => site.first > 0)
      BY <3>1 DEF E!Regular
    <3>3. E!Start > 0 /\ E!sameSite({E!Start}) # {}
      BY <1>3, <3>2 DEF E!Start, E!sameSite
    <3>. QED
      BY <1>1, <1>7, <3>3 DEF E!loadMore
  <2>10. Covered' => fetch' # "done" /\ E!Regular
    BY <1>1, <2>9, SameRegular DEF Covered
  <2>11. 1 \in pages' /\ (fetch' = "links" => pages' \subseteq 0..(next' - 1))
    BY <1>1, <2>1, <2>2
  <2>12. fetch' \in {"count", "links"} => site.kind = "offset" \/ next' >= 2
    BY <2>1
  <2>. QED
    BY <1>1, <1>2, <2>2, <2>3, <2>4, <2>6, <2>8, <2>10, <2>11, <2>12 DEF PagesRead
<1>. QED
  BY <1>6, <1>7

LEMMA CountKeeps ==
    ASSUME PagesRead, NEW ok \in BOOLEAN, E!byCount(ok)
    PROVE  PagesRead'
<1>. DEFINE c == E!readChunk(next)
            m == From(site, next)
            all == got \o E!get(E!Served(next))
            size == Len(E!get(E!Served(next)))
<1>1. /\ fetch = "count" /\ list' = list /\ site' = site /\ requests' = requests + 1 /\ pages' = pages
      /\ cutShort' = (cutShort \/ ~ok)
      /\ E!Stops(ok, c) => fetch' = "done" /\ got' = got /\ next' = next /\ brought' = brought
      /\ ~E!Stops(ok, c) => /\ got' = got \o c.html /\ brought' = brought + Len(c.html)
                            /\ next' = IF c.next > next THEN c.next ELSE next + E!Step
                            /\ fetch' = IF E!Enough(requests + 1, brought + Len(c.html)) \/ ~c.more THEN "done" ELSE "count"
  BY DEF E!byCount
<1>2. E!TypeOK /\ got \in Seq(Dealt(list)) /\ requests < maxMore /\ requests \in 0..maxMore /\ next \in Nat /\ maxMore \in Nat
      /\ maxTotal \in Nat /\ brought \in Nat
  BY <1>1, PagesAssumption DEF PagesRead, E!TypeOK
<1>3. site.kind \in {"offset", "page"} /\ (site.kind = "offset" \/ next >= 2)
  BY <1>1 DEF PagesRead
<1>4. Len(list) \in Nat /\ site.first \in Nat /\ site.chunk \in Nat \ {0}
  BY <1>2, ListIs
<1>5. cutShort \in BOOLEAN
  BY DEF PagesRead, E!TypeOK
<1>6. cutShort' \in BOOLEAN /\ (~cutShort' => ~cutShort /\ ok)
  BY <1>1, <1>5, Zenon
<1>7. list' \in Lists /\ site' \in Sites /\ requests' \in 0..maxMore /\ pages' \subseteq Nat
  BY <1>1, <1>2 DEF E!TypeOK
<1>8. m \in Nat /\ E!FirstOf(next) = m
  BY <1>2, <1>3, PlaceOf
<1>9. /\ all \in Seq(Dealt(list)) /\ size \in Nat
      /\ E!Regular => E!Whole(E!Served(next))
      /\ E!Regular /\ Begins(list, got, m) => Begins(list, all, m + site.chunk)
      /\ E!Regular /\ m < Len(list) => E!fromHTML(E!get(E!Served(next))) # <<>>
  BY <1>2, <1>3, AnswerIs
<1>10. Covered' => Covered /\ E!Regular /\ ok
  BY <1>1, <1>6, SameRegular DEF Covered
<1>11. Covered => Begins(list, got, m)
  BY <1>1 DEF PagesRead
<1>12. /\ c.html = E!get(E!Served(next)) /\ Len(c.html) = size
       /\ c.more = ~(site.tells /\ E!IsLast(next) /\ E!Whole(E!Served(next)))
       /\ c.next = (IF ~site.gives \/ ~E!Whole(E!Served(next)) THEN 0
                    ELSE IF site.kind = "offset" THEN next + site.chunk ELSE next + 1)
  BY DEF E!readChunk
<1>. HIDE DEF size
<1>. HIDE DEF c, m, all
<1>13. CASE E!Stops(ok, c)
  <2>1. fetch' = "done" /\ got' = got /\ next' = next /\ brought' = brought
    BY <1>1, <1>13
  <2>2. E!TypeOK'
    BY <1>2, <1>6, <1>7, <2>1 DEF E!TypeOK
  <2>3. ASSUME Covered' PROVE Begins(list, got, Len(list))
    <3>1. E!fromHTML(E!get(E!Served(next))) = <<>>
      BY <1>10, <1>12, <1>13, <2>3 DEF E!Stops
    <3>2. m >= Len(list)
      BY <1>4, <1>8, <1>9, <1>10, <2>3, <3>1
    <3>. QED
      BY <1>4, <1>8, <1>10, <1>11, <2>3, <3>2, AllThere
  <2>. QED
    BY <1>1, <1>2, <2>1, <2>2, <2>3 DEF PagesRead
<1>14. CASE ~E!Stops(ok, c)
  <2>1. /\ got' = all /\ brought' = brought + size
        /\ next' = IF c.next > next THEN c.next ELSE next + E!Step
        /\ fetch' = IF E!Enough(requests + 1, brought + size) \/ ~c.more THEN "done" ELSE "count"
    BY <1>1, <1>12, <1>14 DEF all
  <2>2. E!Step = (IF site.kind = "offset" THEN site.first ELSE 1) /\ E!Step \in Nat
    BY <1>4 DEF E!Step, E!Start
  <2>3. next' \in Nat /\ (site.kind = "page" => next' = next + 1) /\ brought' \in Nat
    BY <1>2, <1>4, <1>9, <1>12, <2>1, <2>2
  <2>4. fetch' \in {"done", "count"}
    BY <2>1
  <2>5. E!TypeOK'
    BY <1>6, <1>7, <2>3, <2>4 DEF E!TypeOK
  <2>6. E!Regular => From(site, next') = m + site.chunk
    <3>1. SUFFICES ASSUME E!Regular PROVE From(site, next') = m + site.chunk
      OBVIOUS
    <3>2. CASE site.kind = "offset"
      <4>1. site.chunk = site.first \/ site.gives
        BY <3>1, <3>2 DEF E!Regular
      <4>2. next' = next + site.chunk
        BY <1>2, <1>4, <1>9, <1>12, <2>1, <2>2, <3>1, <3>2, <4>1
      <4>3. \A n \in Nat : From(site, next + n) = m + n
        BY <1>2, <1>3, <3>2, PlaceOf DEF m
      <4>. QED
        BY <1>4, <4>2, <4>3
    <3>3. CASE site.kind = "page"
      <4>1. From(site, next + 1) = m + site.chunk
        BY <1>2, <1>3, <3>3, PlaceOf DEF m
      <4>. QED
        BY <2>3, <3>3, <4>1
    <3>. QED
      BY <1>3, <3>2, <3>3
  <2>7. Covered' => Begins(list, got', m + site.chunk)
    BY <1>9, <1>10, <1>11, <2>1
  <2>8. ASSUME Covered', fetch' = "done", requests' < maxMore, brought' < maxTotal PROVE Begins(list, got', Len(list))
    <3>1. ~c.more
      <4>1. ~E!Enough(requests + 1, brought + size)
        BY <1>1, <1>2, <1>9, <2>1, <2>8 DEF E!Enough
      <4>. QED
        BY <2>1, <2>8, <4>1
    <3>2. E!IsLast(next)
      BY <1>12, <3>1
    <3>3. m + site.chunk >= Len(list) /\ m + site.chunk \in Nat
      BY <1>4, <1>8, <3>2 DEF E!IsLast
    <3>. QED
      BY <1>4, <2>7, <2>8, <3>3, AllThere
  <2>9. fetch' = "count" => requests' < maxMore
    BY <1>1, <1>2, <2>1 DEF E!Enough
  <2>10. fetch' = "count" => site.kind = "offset" \/ next' >= 2
    BY <1>2, <1>3, <2>3
  <2>11. Covered' => Begins(list, got', From(site, next'))
    BY <1>10, <2>6, <2>7
  <2>. QED
    BY <1>1, <1>3, <1>9, <2>1, <2>4, <2>5, <2>8, <2>9, <2>10, <2>11 DEF PagesRead
<1>. QED
  BY <1>13, <1>14

LEMMA LinksKeep ==
    ASSUME PagesRead, NEW ok \in BOOLEAN, E!followLinks(ok)
    PROVE  PagesRead'
<1>. DEFINE c == E!readChunk(next)
            m == From(site, next)
            all == got \o E!get(E!Served(next))
            size == Len(E!get(E!Served(next)))
            link == E!nextLink(next - 1)
<1>1. /\ fetch = "links" /\ list' = list /\ site' = site
      /\ link \subseteq pages => /\ fetch' = "done" /\ got' = got /\ next' = next
                                 /\ requests' = requests /\ pages' = pages /\ cutShort' = cutShort /\ brought' = brought
      /\ ~(link \subseteq pages) => 
            /\ requests' = requests + 1 /\ pages' = pages \cup link /\ cutShort' = (cutShort \/ ~ok)
            /\ E!Stops(ok, c) => fetch' = "done" /\ got' = got /\ next' = next /\ brought' = brought
            /\ ~E!Stops(ok, c) => /\ got' = got \o c.html /\ next' = next + 1 /\ brought' = brought + Len(c.html)
                                  /\ fetch' = IF E!Enough(requests + 1, brought + Len(c.html)) THEN "done" ELSE "links"
  BY DEF E!followLinks
<1>2. E!TypeOK /\ got \in Seq(Dealt(list)) /\ requests < maxMore /\ requests \in 0..maxMore /\ next \in Nat /\ maxMore \in Nat
      /\ maxTotal \in Nat /\ brought \in Nat
  BY <1>1, PagesAssumption DEF PagesRead, E!TypeOK
<1>3. /\ site.kind \in {"links", "none"} /\ next >= 2 /\ site.kind # "offset"
      /\ 1 \in pages /\ pages \subseteq 0..(next - 1) /\ pages \subseteq Nat
  BY <1>1, <1>2 DEF PagesRead, E!TypeOK
<1>4. Len(list) \in Nat /\ site.first \in Nat /\ site.chunk \in Nat \ {0}
  BY <1>2, ListIs
<1>5. cutShort \in BOOLEAN
  BY DEF PagesRead, E!TypeOK
<1>6. list' \in Lists /\ site' \in Sites
  BY <1>1, <1>2 DEF E!TypeOK
<1>7. m \in Nat /\ E!FirstOf(next) = m /\ From(site, next + 1) = m + site.chunk
  BY <1>2, <1>3, PlaceOf
<1>8. /\ all \in Seq(Dealt(list)) /\ size \in Nat
      /\ E!Regular /\ Begins(list, got, m) => Begins(list, all, m + site.chunk)
      /\ E!Regular /\ m < Len(list) => E!fromHTML(E!get(E!Served(next))) # <<>>
  BY <1>2, <1>3, AnswerIs
<1>9. Covered => Begins(list, got, m)
  BY <1>1 DEF PagesRead
<1>10. c.html = E!get(E!Served(next)) /\ Len(c.html) = size
  BY DEF E!readChunk
<1>. HIDE DEF size
<1>11. /\ next - 1 + 1 = next
       /\ link = E!sameSite(IF E!MoreAfter(next - 1) THEN {next - 1 + 1}
                            ELSE IF site.kind = "links" /\ site.round THEN {1} ELSE {})
  BY <1>2 DEF E!nextLink
<1>12. E!MoreAfter(next - 1) <=> site.kind = "links" /\ m < Len(list)
  <2>1. CASE next = 2
    <3>1. m = site.first
      <4>1. From(site, 2) = site.first
        BY <1>2, <1>3, PlaceOf
      <4>. QED
        BY <2>1, <4>1
    <3>2. next - 1 = 1
      BY <2>1
    <3>. QED
      BY <3>1, <3>2 DEF E!MoreAfter
  <2>2. CASE next # 2
    <3>. DEFINE k == next - 1
    <3>1. k \in Nat /\ k >= 2 /\ k # 1 /\ k + 1 = next
      BY <1>2, <1>3, <2>2
    <3>. HIDE DEF k
    <3>2. E!FirstOf(k) = From(site, k) /\ From(site, k + 1) = From(site, k) + site.chunk
      BY <1>2, <1>3, <3>1, PlaceOf
    <3>3. E!IsLast(k) <=> m >= Len(list)
      BY <3>1, <3>2 DEF E!IsLast
    <3>4. E!MoreAfter(k) <=> site.kind = "links" /\ m < Len(list)
      BY <1>4, <1>7, <3>1, <3>3 DEF E!MoreAfter
    <3>. QED
      BY <3>4 DEF k
  <2>. QED
    BY <2>1, <2>2
<1>. HIDE DEF c, m, all, link
<1>13. CASE link \subseteq pages
  <2>1. /\ fetch' = "done" /\ got' = got /\ next' = next
        /\ requests' = requests /\ pages' = pages /\ cutShort' = cutShort /\ brought' = brought
    BY <1>1, <1>13
  <2>2. cutShort' \in BOOLEAN
    BY <1>5, <2>1, Zenon
  <2>3. E!TypeOK'
    BY <1>2, <1>3, <1>6, <2>1, <2>2 DEF E!TypeOK
  <2>4. ASSUME E!Regular PROVE m >= Len(list)
    <3>1. site.home /\ site.kind = "links"
      BY <1>3, <2>4 DEF E!Regular
    <3>2. next \notin pages
      BY <1>2, <1>3
    <3>3. ~E!MoreAfter(next - 1)
      BY <1>11, <1>13, <3>1, <3>2 DEF E!sameSite
    <3>. QED
      BY <1>4, <1>7, <1>12, <3>1, <3>3
  <2>5. Covered' => Covered /\ E!Regular
    BY <1>1, <2>1, SameRegular DEF Covered
  <2>6. Covered' => Begins(list, got, Len(list))
    BY <1>4, <1>7, <1>9, <2>4, <2>5, AllThere
  <2>. QED
    BY <1>1, <1>2, <2>1, <2>3, <2>6 DEF PagesRead
<1>14. CASE ~(link \subseteq pages)
  <2>1. requests' = requests + 1 /\ pages' = pages \cup link /\ cutShort' = (cutShort \/ ~ok)
    BY <1>1, <1>14
  <2>2. link = {next} /\ m < Len(list)
    BY <1>3, <1>11, <1>12, <1>14 DEF E!sameSite
  <2>3. cutShort' \in BOOLEAN /\ (~cutShort' => ~cutShort /\ ok)
    BY <1>5, <2>1, Zenon
  <2>4. Covered' => Covered /\ E!Regular /\ ok
    BY <1>1, <2>3, SameRegular DEF Covered
  <2>5. requests' \in 0..maxMore /\ pages' \subseteq Nat /\ 1 \in pages' /\ pages' \subseteq 0..((next + 1) - 1)
    BY <1>2, <1>3, <2>1, <2>2
  <2>6. CASE E!Stops(ok, c)
    <3>1. fetch' = "done" /\ got' = got /\ next' = next /\ brought' = brought
      BY <1>1, <1>14, <2>6
    <3>2. E!TypeOK'
      BY <1>2, <1>6, <2>3, <2>5, <3>1 DEF E!TypeOK
    <3>3. ~Covered'
      BY <1>8, <1>10, <2>2, <2>4, <2>6 DEF E!Stops
    <3>. QED
      BY <1>1, <1>2, <3>1, <3>2, <3>3 DEF PagesRead
  <2>7. CASE ~E!Stops(ok, c)
    <3>1. got' = all /\ next' = next + 1 /\ brought' = brought + size
          /\ fetch' = IF E!Enough(requests + 1, brought + size) THEN "done" ELSE "links"
      BY <1>1, <1>10, <1>14, <2>7 DEF all
    <3>2. fetch' \in {"done", "links"} /\ next' \in Nat /\ brought' \in Nat
      BY <1>2, <1>8, <3>1
    <3>3. E!TypeOK'
      BY <1>6, <2>3, <2>5, <3>2 DEF E!TypeOK
    <3>4. Covered' => Begins(list, got', From(site, next'))
      BY <1>7, <1>8, <1>9, <2>4, <3>1
    <3>5. (fetch' = "done" => ~(requests' < maxMore /\ brought' < maxTotal)) /\ (fetch' = "links" => requests' < maxMore)
      BY <1>2, <1>8, <2>1, <3>1 DEF E!Enough
    <3>6. pages' \subseteq 0..(next' - 1) /\ next' >= 2
      BY <1>2, <1>3, <2>5, <3>1
    <3>. QED
      BY <1>1, <1>3, <1>8, <2>5, <3>1, <3>2, <3>3, <3>4, <3>5, <3>6 DEF PagesRead
  <2>. QED
    BY <2>6, <2>7
<1>. QED
  BY <1>13, <1>14

LEMMA PagesNext ==
    ASSUME PagesRead, [E!Next]_pageVars
    PROVE  PagesRead'
<1>1. CASE UNCHANGED pageVars
  <2>1. /\ list' = list /\ site' = site /\ fetch' = fetch /\ next' = next /\ requests' = requests
        /\ pages' = pages /\ got' = got /\ cutShort' = cutShort /\ brought' = brought
    BY <1>1 DEF pageVars
  <2>2. E!TypeOK'
    BY <2>1 DEF PagesRead, E!TypeOK
  <2>3. Covered' => Covered
    BY <2>1, SameRegular DEF Covered
  <2>. QED
    BY <2>1, <2>2, <2>3 DEF PagesRead
<1>2. CASE E!Next
  <2>1. PICK ok \in BOOLEAN : E!Fetch(ok) \/ E!byCount(ok) \/ E!followLinks(ok)
    BY <1>2 DEF E!Next
  <2>. QED
    BY <2>1, FetchKeeps, CountKeeps, LinksKeep
<1>. QED
  BY <1>1, <1>2

\* What the cards of a list say of books.
Asins(cards)  == {cards[i].asin : i \in 1..Len(cards)}
Named(cards) == {cards[i].heading : i \in 1..Len(cards)} \cup {cards[i].words : i \in 1..Len(cards)}

\* The books of the answers are books of the list.
LEMMA BooksAre ==
    ASSUME NEW cards \in Seq(OneCard), NEW g \in Seq(Dealt(cards))
    PROVE  E!fromHTML(g) \in Seq(Row(Asins(cards), Named(cards)))
<1>. DEFINE es == E!fromHTML(g)
            S == Row(Asins(cards), Named(cards))
<1>1. Dealt(cards) \subseteq OneCard /\ g \in Seq(OneCard)
  <2>1. Dealt(cards) \subseteq OneCard
    BY DEF Dealt
  <2>. QED
    BY <2>1
<1>2. \A i \in 1..Len(g) : g[i] \in OneCard /\ \E x \in 1..Len(cards) : g[i] = cards[x]
  <2>1. \A i \in 1..Len(g) : g[i] \in Dealt(cards)
    OBVIOUS
  <2>. QED
    BY <1>1, <2>1 DEF Dealt
<1>3. es \in BooksOf(g)
  BY <1>1, FromHTML
<1>. HIDE DEF es
<1>4. es \in Seq(OneBook) /\ \A k \in 1..Len(es) : \E i \in 1..Len(g) : es[k] = E!Entry(g, i) /\ E!Title(g, i) # E!Blank
  BY <1>3 DEF BooksOf
<1>5. ASSUME NEW k \in 1..Len(es) PROVE es[k] \in S
  <2>1. PICK i \in 1..Len(g) : es[k] = E!Entry(g, i) /\ E!Title(g, i) # E!Blank
    BY <1>4
  <2>2. PICK j \in 1..Len(g) : E!Title(g, i) \in {g[j].heading, g[j].words}
    BY <1>1, <2>1, TitleIs
  <2>3. PICK x \in 1..Len(cards) : g[i] = cards[x]
    BY <1>2
  <2>4. PICK y \in 1..Len(cards) : g[j] = cards[y]
    BY <1>2
  <2>5. g[i].asin \in Asins(cards)
    BY <2>3 DEF Asins
  <2>6. E!Title(g, i) \in Named(cards)
    BY <2>2, <2>4 DEF Named
  <2>7. g[i].author \in STRING
    BY <1>2 DEF OneCard
  <2>. QED
    BY <2>1, <2>5, <2>6, <2>7 DEF E!Entry, Row
<1>6. es \in Seq(S)
  <2>. HIDE DEF S
  <2>. QED
    BY <1>4, <1>5
<1>. QED
  BY <1>6 DEF es

LEMMA AllAreFound ==
    ASSUME PagesRead
    PROVE  E!AllFound
<1>. DEFINE books == E!Parse(got)
            all == E!fromHTML(list)
            es == E!fromHTML(got)
            A == Asins(list)
            B == Named(list)
<1>1. SUFFICES ASSUME fetch = "done", ~cutShort, requests < maxMore, brought < maxTotal, E!Regular, NEW i \in DOMAIN all
               PROVE  Found(books, all[i])
  BY DEF E!AllFound, Found
<1>2. E!TypeOK /\ got \in Seq(Dealt(list)) /\ Begins(list, got, Len(list))
  BY <1>1 DEF PagesRead, Covered
<1>3. list \in Seq(OneCard) /\ Len(list) \in Nat /\ Dealt(list) \subseteq OneCard
  BY <1>2, ListIs
<1>4. got \in Seq(OneCard)
  BY <1>2, <1>3
<1>5. es \in Seq(Row(A, B))
  BY <1>2, <1>3, BooksAre
<1>6. (A \ {E!Blank}) \cap B = {}
  <2>1. \A x, y \in 1..Len(list) : list[x].asin = E!Blank \/ list[x].asin \notin {list[y].heading, list[y].words}
    <3>1. \A x, y \in DOMAIN list : list[x].asin = E!Blank \/ list[x].asin \notin {list[y].heading, list[y].words}
      BY <1>1 DEF E!Regular
    <3>. QED
      BY <1>3, <3>1
  <2>. QED
    BY <2>1 DEF Asins, Named
<1>7. all \in BooksOf(list)
  BY <1>3, FromHTML
<1>8. \A j \in 1..Len(got) : E!Title(got, j) # E!Blank => \E k \in 1..Len(es) : es[k] = E!Entry(got, j)
  BY <1>4, FromHTML
<1>. HIDE DEF all, es, books, A, B
<1>9. PICK j \in 1..Len(list) : all[i] = E!Entry(list, j) /\ E!Title(list, j) # E!Blank
  <2>1. all \in Seq(OneBook) /\ \A k \in 1..Len(all) : \E j \in 1..Len(list) : all[k] = E!Entry(list, j) /\ E!Title(list, j) # E!Blank
    BY <1>7 DEF BooksOf
  <2>2. i \in 1..Len(all)
    BY <1>1, <2>1
  <2>. QED
    BY <2>1, <2>2
<1>10. j <= Len(got) /\ \A x \in 1..j : got[x] = list[x]
  BY <1>2, <1>3 DEF Begins
<1>11. E!Entry(got, j) = E!Entry(list, j) /\ E!Title(got, j) = E!Title(list, j)
  BY <1>3, <1>4, <1>10, TitleAgrees
<1>12. PICK k \in 1..Len(es) : es[k] = all[i]
  <2>1. j \in 1..Len(got)
    BY <1>3, <1>4, <1>10
  <2>. QED
    BY <1>8, <1>9, <1>11, <2>1
<1>13. PICK st \in Listings(A, B) :
          /\ books = st.books
          /\ (A \ {E!Blank}) \cap B = {} => \A n \in 1..Len(es) : Found(st.books, es[n])
  BY <1>5, ParseIs DEF es, books
<1>. QED
  BY <1>6, <1>12, <1>13

\* Event pages (events/fetch.go, more.go, parse.go): for any lists and any sites, any number of requests and
\* of books, and whatever an answer and all of them may bring, each book that a site lists is found if no request
\* failed, neither limit was reached and each answer is read whole; and none is in the event twice, whatever the
\* answers repeat.
THEOREM ListsAreRead == MCSpec => []ListIsRead
<1> DEFINE Done == running = "pages" => PagesRead
<1>1. MCInit => Done
  BY PagesBegin DEF MCInit
<1>2. Done /\ [MCNext]_allVars => Done'
  <2> SUFFICES ASSUME Done, [MCNext]_allVars, running' = "pages"
               PROVE  PagesRead'
    OBVIOUS
  <2>1. running = "pages" /\ [E!Next]_pageVars
    BY DEF MCNext, allVars
  <2>2. QED
    BY <2>1, PagesNext
<1>3. Done => ListIsRead
  <2>1. SUFFICES ASSUME PagesRead PROVE E!TypeOK /\ E!AllFound /\ E!NoneTwice
    BY DEF ListIsRead
  <2>2. E!TypeOK /\ got \in Seq(OneCard)
    <3>1. E!TypeOK /\ got \in Seq(Dealt(list))
      BY <2>1 DEF PagesRead
    <3>2. Dealt(list) \subseteq OneCard
      BY <3>1, ListIs
    <3>. QED
      BY <3>1, <3>2
  <2>3. E!NoneTwice
    BY <2>2, ListsRepeatNone DEF E!NoneTwice
  <2>. QED
    BY <2>1, <2>2, <2>3, AllAreFound
<1>4. QED
  BY <1>1, <1>2, <1>3, PTL DEF MCSpec
=============================================================================
