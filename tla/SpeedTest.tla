----------------------------- MODULE SpeedTest -----------------------------
(***************************************************************************)
(* The AI machines' speed test and the look at a graphics card             *)
(* (aitools/bench.go, store/aitools.go, ollama/gpu.go, ps.go, their        *)
(* handlers): the models of a machine are timed one after the other and    *)
(* the results saved in one setting; a page learns what the card holds     *)
(* from a loaded model, and loads one for a moment if there is none.       *)
(***************************************************************************)
EXTENDS Naturals, FiniteSets

CONSTANTS
    Machine,        \* main, backup, deep
    ModelsOf,       \* each machine's models
    Biggest,        \* the largest model on the Ollama server
    Tester,         \* requests for a speed test
    Page,           \* pages that ask about the graphics card
    MaxTests        \* bound: models timed

Model == UNION {ModelsOf[x] : x \in Machine}
Key   == {k \in Machine \X Model : k[2] \in ModelsOf[k[1]]}
Bench == [at : 0..MaxTests, ok : BOOLEAN]

VARIABLES
    benching,   \* a speed test is running
    tester,     \* each request's test
    results,    \* the setting: each machine's models' tests
    clock,      \* when the last model was timed
    loaded,     \* models the server holds in memory
    look,       \* each page's look at the card
    newest,     \* history: each model's last saved test
    ours,       \* history: models loaded only for a look
    lost        \* history: the server did not answer a load or an unload

vars == <<benching, tester, results, clock, loaded, look, newest, ours, lost>>

Untested == [at |-> 0, ok |-> FALSE]
NoTest   == [at |-> "idle", machine |-> CHOOSE x \in Machine : TRUE, left |-> {}, model |-> Biggest, bench |-> Untested,
             all |-> [k \in Key |-> Untested]]
NoLook   == [at |-> "idle", gone |-> FALSE]

TypeOK ==
    /\ benching \in BOOLEAN /\ results \in [Key -> Bench] /\ newest \in [Key -> Bench] /\ clock \in 0..MaxTests
    /\ \A t \in Tester :
         /\ tester[t].at \in {"idle", "next", "rate", "part", "read", "write"}
         /\ tester[t].left \subseteq Model /\ tester[t].all \in [Key -> Bench]
    /\ loaded \subseteq Model \cup {Biggest} /\ ours \subseteq {Biggest} /\ lost \in BOOLEAN
    /\ \A p \in Page : look[p].at \in {"idle", "first", "load", "again", "unload"} /\ look[p].gone \in BOOLEAN

Init ==
    /\ benching = FALSE /\ tester = [t \in Tester |-> NoTest]
    /\ results = [k \in Key |-> Untested] /\ newest = [k \in Key |-> Untested] /\ clock = 0
    /\ loaded = {} /\ look = [p \in Page |-> NoLook] /\ ours = {} /\ lost = FALSE

-----------------------------------------------------------------------------
(* The speed test.                                                         *)

NotBusy == ~benching

StartBench(t, x) ==
    /\ tester[t].at = "idle" /\ ModelsOf[x] # {} /\ NotBusy
    /\ benching' = TRUE
    /\ tester' = [tester EXCEPT ![t] = [NoTest EXCEPT !.at = "next", !.machine = x, !.left = ModelsOf[x]]]
    /\ UNCHANGED <<results, clock, loaded, look, newest, ours, lost>>

TimeModel(t, m) ==
    /\ tester[t].at = "next" /\ m \in tester[t].left /\ clock < MaxTests
    /\ clock' = clock + 1
    /\ tester' = [tester EXCEPT ![t].at = "rate", ![t].left = @ \ {m}, ![t].model = m, ![t].bench = [at |-> clock + 1, ok |-> FALSE]]
    /\ UNCHANGED <<benching, results, loaded, look, newest, ours, lost>>

\* A rating, then one part of a Deep Scan if the model rated; the server loads the model.
Call(t, ok) ==
    /\ tester[t].at \in {"rate", "part"}
    /\ tester' = [tester EXCEPT ![t].at = IF ok /\ @ = "rate" THEN "part" ELSE "read",
                                ![t].bench.ok = ok /\ tester[t].at = "part"]
    /\ loaded' = IF ok THEN loaded \cup {tester[t].model} ELSE loaded
    /\ ours' = ours \ {tester[t].model}
    /\ UNCHANGED <<benching, results, clock, look, newest, lost>>

\* SaveBench reads all results,
ReadBenchmarks(t) ==
    /\ tester[t].at = "read"
    /\ tester' = [tester EXCEPT ![t].at = "write", ![t].all = results]
    /\ UNCHANGED <<benching, results, clock, loaded, look, newest, ours, lost>>

\* puts this one in and saves them all; the setting may not be saved.
SaveBench(t, ok) ==
    LET k == <<tester[t].machine, tester[t].model>> IN
    /\ tester[t].at = "write"
    /\ results' = IF ok THEN [tester[t].all EXCEPT ![k] = tester[t].bench] ELSE results
    /\ newest' = IF ok THEN [newest EXCEPT ![k] = tester[t].bench] ELSE newest
    /\ tester' = [tester EXCEPT ![t].at = "next"]
    /\ UNCHANGED <<benching, clock, loaded, look, ours, lost>>

\* All models were timed, or the test broke off.
BenchEnds(t) ==
    /\ tester[t].at # "idle"
    /\ benching' = FALSE /\ tester' = [tester EXCEPT ![t] = NoTest]
    /\ UNCHANGED <<results, clock, loaded, look, newest, ours, lost>>

-----------------------------------------------------------------------------
(* The look at the graphics card.                                          *)

At(p, s)   == look' = [look EXCEPT ![p].at = s]
Answer(p)  == look' = [look EXCEPT ![p] = NoLook]
Reaches(p) == ~look[p].gone

MeasureGPU(p) ==
    /\ look[p].at = "idle"
    /\ At(p, "first")
    /\ UNCHANGED <<benching, tester, results, clock, loaded, newest, ours, lost>>

\* The page is closed, or the request took too long.
Gone(p) ==
    /\ look[p].at # "idle" /\ ~look[p].gone
    /\ look' = [look EXCEPT ![p].gone = TRUE]
    /\ UNCHANGED <<benching, tester, results, clock, loaded, newest, ours, lost>>

\* A loaded model tells it all; else the largest one is looked up, if the server answers.
FirstLook(p, ok) ==
    /\ look[p].at = "first"
    /\ IF (ok /\ loaded # {}) \/ ~Reaches(p) THEN Answer(p) ELSE At(p, "load")
    /\ UNCHANGED <<benching, tester, results, clock, loaded, newest, ours, lost>>

\* It is loaded; without an answer it may be loaded all the same.
Load(p, ok, there) ==
    /\ look[p].at = "load" /\ (ok => Reaches(p) /\ there)
    /\ loaded' = IF there THEN loaded \cup {Biggest} ELSE loaded
    /\ ours' = IF there /\ Biggest \notin loaded THEN ours \cup {Biggest} ELSE ours
    /\ lost' = (lost \/ (there /\ ~ok))
    /\ IF ok THEN At(p, "again") ELSE Answer(p)
    /\ UNCHANGED <<benching, tester, results, clock, newest>>

SecondLook(p) ==
    /\ look[p].at = "again"
    /\ At(p, "unload")
    /\ UNCHANGED <<benching, tester, results, clock, loaded, newest, ours, lost>>

\* Mutant: the unload is part of the request.
UnloadWithRequest(p) == Reaches(p)

UnloadSent(p) == TRUE

Unload(p, ok) ==
    /\ look[p].at = "unload"
    /\ IF UnloadSent(p)
       THEN /\ loaded' = IF ok THEN loaded \ {Biggest} ELSE loaded
            /\ ours' = IF ok THEN ours \ {Biggest} ELSE ours
            /\ lost' = (lost \/ ~ok)
       ELSE UNCHANGED <<loaded, ours, lost>>
    /\ Answer(p)
    /\ UNCHANGED <<benching, tester, results, clock, newest>>

\* The server drops a model nobody used for a while.
Expire(m) ==
    /\ m \in loaded
    /\ loaded' = loaded \ {m} /\ ours' = ours \ {m}
    /\ UNCHANGED <<benching, tester, results, clock, look, newest, lost>>

\* The process ends; what the server has loaded stays.
Restart ==
    /\ benching \/ \E p \in Page : look[p].at # "idle"
    /\ benching' = FALSE /\ tester' = [t \in Tester |-> NoTest]
    /\ look' = [p \in Page |-> NoLook]
    /\ lost' = (lost \/ \E p \in Page : look[p].at \in {"load", "again", "unload"})
    /\ UNCHANGED <<results, clock, loaded, newest, ours>>

Next ==
    \/ \E t \in Tester :
         \/ \E x \in Machine : StartBench(t, x)
         \/ \E m \in Model : TimeModel(t, m)
         \/ ReadBenchmarks(t) \/ BenchEnds(t)
         \/ \E ok \in BOOLEAN : Call(t, ok) \/ SaveBench(t, ok)
    \/ \E p \in Page :
         \/ MeasureGPU(p) \/ Gone(p) \/ SecondLook(p)
         \/ \E ok, there \in BOOLEAN : FirstLook(p, ok) \/ Load(p, ok, there) \/ Unload(p, ok)
    \/ \E m \in loaded : Expire(m)
    \/ Restart

Spec == Init /\ [][Next]_vars

-----------------------------------------------------------------------------

\* No speed test that was saved is lost to another one that ran at the time.
BenchKept == results = newest

\* A model that was loaded only for a look at the card is not left behind when
\* the looks are over, the page that asked having gone or not, unless the
\* server did not answer or the process ended.
MeasuredIsUnloaded ==
    ours # {} /\ ~lost => \E p \in Page : look[p].at \in {"again", "unload"}
=============================================================================
