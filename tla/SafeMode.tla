------------------------------ MODULE SafeMode ------------------------------
(***************************************************************************)
(* Safe mode (internal/safemode, and main, which acts on it): every start  *)
(* is written to a file that a clean end or a healthy run removes, so that *)
(* starts which keep ending badly add up to a crash loop; an admin leaves  *)
(* safe mode, which starts the background work that was held back; a flag  *)
(* file and the environment ask for it too.                                *)
(*                                                                         *)
(* Time is counted in ticks; a tick can pass between any two steps. The    *)
(* file's list is a set: a start has a number of its own, and its place in *)
(* the list is nowhere used.                                               *)
(***************************************************************************)
EXTENDS Naturals, FiniteSets

CONSTANTS
    Admin,      \* requests to leave safe mode
    Crashes,    \* this many starts...
    Window,     \* ...within this long are a crash loop
    HealthyAt,  \* running this long is a good start
    MaxTime,    \* bound: the clock
    MaxStarts   \* bound: starts of the process

ASSUME SafeModeAssumption ==
    /\ Crashes \in Nat \ {0}
    /\ HealthyAt \in Nat /\ Window \in Nat /\ Window >= (Crashes - 1) * HealthyAt
    /\ MaxTime \in Nat /\ MaxStarts \in Nat

Reason == {"none", "env", "flag", "crash"}

VARIABLES
    now,
    starts,     \* startups.json: each start it has, by its number and time
    flag,       \* the safe-mode file
    up,         \* the process: off, booting, on, or stopping after a SIGTERM
    since,      \* when it last started or ended
    waiting,    \* the goroutine that waits for HealthyAt still does
    reason,     \* State.reason: why safe mode is on, none when it is not
    once,       \* the OnceFunc ran
    background, \* how often this process started the background work
    pc,         \* each admin in State.Leave
    boots,      \* history: starts so far
    quick,      \* history: runs in a row that crashed young and were restarted at once
    left        \* history: safe mode was left in this run

files   == <<starts, flag>>
state   == <<reason, once, background>>
history == <<boots, quick, left>>
vars    == <<now, files, up, since, waiting, state, pc, history>>

TypeOK ==
    /\ now \in 0..MaxTime
    /\ starts \subseteq [boot : 1..MaxStarts, at : 0..MaxTime]
    /\ flag \in BOOLEAN
    /\ up \in {"off", "booting", "on", "stopping"}
    /\ since \in 0..MaxTime
    /\ waiting \in BOOLEAN
    /\ reason \in Reason
    /\ once \in BOOLEAN
    /\ background \in 0..2
    /\ pc \in [Admin -> {"new", "clean", "start"}]
    /\ boots \in 0..MaxStarts /\ quick \in 0..MaxStarts
    /\ left \in BOOLEAN

Init ==
    /\ now = 0 /\ starts = {} /\ flag = FALSE
    /\ up = "off" /\ since = 0 /\ waiting = FALSE
    /\ reason = "none" /\ once = FALSE /\ background = 0
    /\ pc = [a \in Admin |-> "new"]
    /\ boots = 0 /\ quick = 0 /\ left = FALSE

Tick ==
    /\ now < MaxTime /\ now' = now + 1
    /\ UNCHANGED <<files, up, since, waiting, state, pc, history>>

-----------------------------------------------------------------------------
(* The process.                                                            *)

\* Mutant: the time a start takes to be healthy in place of the window.
RecentHealthy == {s \in starts : now - s.at < HealthyAt /\ s.at <= now}

recent == {s \in starts : now - s.at < Window /\ s.at <= now}

Starting ==
    /\ up = "off" /\ boots < MaxStarts
    /\ starts' = recent \cup {[boot |-> boots + 1, at |-> now]}
    /\ \E env \in BOOLEAN :
         reason' = CASE env -> "env"
                     [] ~env /\ flag -> "flag"
                     [] ~env /\ ~flag /\ Cardinality(recent) + 1 >= Crashes -> "crash"
                     [] OTHER -> "none"
    /\ up' = "booting" /\ since' = now /\ waiting' = FALSE
    /\ once' = FALSE /\ background' = 0
    /\ boots' = boots + 1 /\ left' = FALSE
    /\ quick' = IF now = since THEN quick ELSE 0
    /\ UNCHANGED <<now, flag, pc>>

\* main past the database: bg.start, but not in safe mode; then the healthy timer.
Serve ==
    /\ up = "booting"
    /\ up' = "on" /\ waiting' = TRUE
    /\ background' = IF reason = "none" THEN 1 ELSE 0
    /\ UNCHANGED <<now, files, since, reason, once, pc, history>>

Healthy ==
    /\ up = "on" /\ waiting /\ now - since >= HealthyAt
    /\ waiting' = FALSE
    /\ starts' = {}
    /\ UNCHANGED <<now, flag, up, since, state, pc, history>>

\* A SIGTERM ends the wait for HealthyAt; main cleans up on its way out.
Terminate ==
    /\ up = "on"
    /\ up' = "stopping" /\ waiting' = FALSE
    /\ UNCHANGED <<now, files, since, state, pc, history>>

Ended == up' = "off" /\ since' = now /\ waiting' = FALSE /\ pc' = [a \in Admin |-> "new"]

CleanExit ==
    /\ up = "stopping"
    /\ Ended
    /\ starts' = {}
    /\ quick' = 0
    /\ UNCHANGED <<now, flag, state, boots, left>>

\* The process dies, wherever it is.
Crash ==
    /\ up # "off"
    /\ Ended
    /\ quick' = IF now - since < HealthyAt /\ ~left THEN quick + 1 ELSE 0
    /\ UNCHANGED <<now, files, state, boots, left>>

-----------------------------------------------------------------------------
(* State.Leave: the flag and the file go under the lock, the work starts   *)
(* after it.                                                               *)

Unlocked == \A a \in Admin : pc[a] # "clean"

\* Mutant: leaving twice, or outside safe mode, is not told apart.
LeaveFlagAlways(a) ==
    /\ up \in {"on", "stopping"} /\ pc[a] = "new" /\ Unlocked
    /\ reason # "env"
    /\ flag' = FALSE
    /\ pc' = [pc EXCEPT ![a] = "clean"]
    /\ UNCHANGED <<now, starts, up, since, waiting, state, history>>

LeaveFlag(a) ==
    /\ up \in {"on", "stopping"} /\ pc[a] = "new" /\ Unlocked
    /\ reason \notin {"none", "env"}
    /\ flag' = FALSE
    /\ pc' = [pc EXCEPT ![a] = "clean"]
    /\ UNCHANGED <<now, starts, up, since, waiting, state, history>>

LeaveClean(a) ==
    /\ pc[a] = "clean"
    /\ starts' = {}
    /\ reason' = "none"
    /\ left' = TRUE
    /\ pc' = [pc EXCEPT ![a] = "start"]
    /\ UNCHANGED <<now, flag, up, since, waiting, once, background, boots, quick>>

LeaveStart(a) ==
    /\ pc[a] = "start"
    /\ once' = TRUE
    /\ background' = IF once THEN background ELSE background + 1
    /\ pc' = [pc EXCEPT ![a] = "new"]
    /\ UNCHANGED <<now, files, up, since, waiting, reason, history>>

\* `novelcheck safe-mode on` and `off`, beside the running process.
SafeModeOn ==
    /\ flag' = TRUE
    /\ UNCHANGED <<now, starts, up, since, waiting, state, pc, history>>

SafeModeOff ==
    /\ flag' = FALSE /\ starts' = {}
    /\ quick' = 0
    /\ left' = (left \/ up # "off")
    /\ UNCHANGED <<now, up, since, waiting, state, pc, boots>>

Next ==
    \/ Tick \/ Starting \/ Serve \/ Healthy \/ Terminate \/ CleanExit \/ Crash
    \/ \E a \in Admin : LeaveFlag(a) \/ LeaveClean(a) \/ LeaveStart(a)
    \/ SafeModeOn \/ SafeModeOff

Spec == Init /\ [][Next]_vars

-----------------------------------------------------------------------------

\* A process that keeps dying before it is healthy, and is started again at once, is in
\* safe mode from the start that makes Crashes: the runs before it fit into the window.
CrashLoopIsCaught ==
    (up # "off" /\ ~left /\ quick >= Crashes - 1) => reason # "none"

\* Nothing runs in the background while safe mode is on.
SafeModeIsQuiet ==
    (up # "off" /\ reason # "none") => background = 0

\* main and any number of admins leaving start the background work once between them.
StartsOnce == background <= 1

\* The background work of a start: held back by safe mode, and never begun twice.
WorkStartsOnce == SafeModeIsQuiet /\ StartsOnce
=============================================================================
