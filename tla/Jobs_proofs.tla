---------------------------- MODULE Jobs_proofs ----------------------------
(***************************************************************************)
(* What the parts of MCJobs keep, for any values of the constants. Each    *)
(* part shares no state with the others, so each has its invariant, true   *)
(* while the part runs.                                                    *)
(*                                                                         *)
(* Formats: a cleanup's list holds what it may remove, as it read it in    *)
(* the library it is of, and one job at most works. Removals: what a       *)
(* request has removed or skipped is not in the library that was served,   *)
(* until it marks the rows; and who closes the notice saw nothing that     *)
(* waits, or somebody asked since.                                         *)
(* Shelves: a book that is to stay off is in no place its shelf is shown   *)
(* from, in no build under way and among what a fill leaves out; the       *)
(* collection the weekly ideas fill has no season and nothing taken off.   *)
(* Discover: who refreshes holds the flag, what was recorded of today is   *)
(* what was sent, and what is chosen and not yet recorded fits the rest.   *)
(***************************************************************************)
EXTENDS MCJobs, FiniteSetTheorems, WellFoundedInduction, TLAPS

-----------------------------------------------------------------------------
(* Formats.                                                                *)

AllFiles == CleanEntry \X Format
JobStep == {"idle", "listed", "check", "next", "log", "trash", "mark", "poll", "sync"}
JobState ==
    [at : JobStep, kind : {"remove", "restore", "convert"}, keep : SUBSET Format, left : SUBSET AllFiles,
     book : SUBSET CleanEntry, on : {"same", "other"}, have : [CleanEntry -> SUBSET Format], file : AllFiles,
     checked : BOOLEAN]

FormatsTyped ==
    /\ has \in [CleanEntry -> SUBSET Format] /\ seen \in [CleanEntry -> SUBSET Format]
    /\ same \in BOOLEAN /\ job \in BOOLEAN /\ stop \in BOOLEAN /\ blind \in BOOLEAN
    /\ bin \subseteq AllFiles /\ log \subseteq AllFiles
    /\ jobs \in [Cleaner -> JobState]

Works(p) == p.at \notin {"idle", "listed", "sync"}

\* What a job knows: it is the one that is noted, where it may be, and what it may take.
JobFits(p, noted, here) ==
    /\ Works(p) => noted
    /\ p.checked => here
    /\ p.kind = "remove" => \A f \in p.left : f[2] \notin p.keep
    /\ p.at \notin {"idle", "listed", "check", "sync"} => p.on = "same"

JobsFit  == \A a \in Cleaner : JobFits(jobs[a], job, same)
OneWorks == \A a, c \in Cleaner : Works(jobs[a]) /\ Works(jobs[c]) => a = c

\* Without a view of the bin the job waits for its first file there, and in vain.
BlindWaits == blind => ~same /\ \E a \in Cleaner : jobs[a].at = "trash"

FormatsFit == FormatsTyped /\ JobsFit /\ OneWorks /\ BlindWaits

-----------------------------------------------------------------------------

\* What a job becomes.
FGoes(p, v)        == [p EXCEPT !.at = v]
FChecked(p, l, h)  == [p EXCEPT !.at = "next", !.on = l, !.have = h]
FTook(p, f, es)    == [p EXCEPT !.left = p.left \ {f}, !.book = es]
FHeld(p, f, es, v) == [FTook(p, f, es) EXCEPT !.at = v, !.file = f]
FBack(p, f, c)     == [p EXCEPT !.at = "next", !.file = f, !.checked = c]
FListed(k, ks, fs) == [F!Idle EXCEPT !.at = "listed", !.kind = k, !.keep = ks, !.left = fs]
FEnded             == [F!Idle EXCEPT !.at = "sync"]

LEMMA JobFields ==
    \A p \in JobState :
        /\ p.at \in JobStep /\ p.kind \in {"remove", "restore", "convert"} /\ p.keep \subseteq Format
        /\ p.left \subseteq AllFiles /\ p.book \subseteq CleanEntry /\ p.on \in {"same", "other"}
        /\ p.have \in [CleanEntry -> SUBSET Format] /\ p.file \in AllFiles /\ p.checked \in BOOLEAN
  BY DEF JobState

LEMMA IdleJob ==
    /\ F!Idle \in JobState /\ F!Idle.at = "idle" /\ F!Idle.checked = FALSE /\ F!Idle.left = {} /\ F!Idle.file \in AllFiles
<1>1. PICK e \in CleanEntry : TRUE
  BY CleanupAssumption
<1>0. <<e, Epub>> \in F!File /\ F!File = AllFiles
  BY CleanupAssumption DEF F!File, AllFiles
<1>2. (CHOOSE f \in F!File : TRUE) \in AllFiles
  BY <1>0
<1>3. FALSE \in BOOLEAN /\ {} \in SUBSET Format /\ {} \in SUBSET AllFiles /\ {} \in SUBSET CleanEntry
      /\ [x \in CleanEntry |-> {}] \in [CleanEntry -> SUBSET Format]
  OBVIOUS
<1> DEFINE c == CHOOSE f \in F!File : TRUE
           h == [x \in CleanEntry |-> {}]
<1>4. F!Idle = [at |-> "idle", kind |-> "remove", keep |-> {}, left |-> {}, book |-> {}, on |-> "same", have |-> h,
                file |-> c, checked |-> FALSE]
  BY DEF F!Idle
<1>5. c \in AllFiles /\ h \in [CleanEntry -> SUBSET Format]
  BY <1>2, <1>3
<1> HIDE DEF c, h
<1>6. QED
  BY <1>3, <1>4, <1>5 DEF JobState, JobStep

LEMMA FGoesFields ==
    ASSUME NEW p \in JobState, NEW v \in JobStep
    PROVE  /\ FGoes(p, v) \in JobState /\ FGoes(p, v).at = v /\ FGoes(p, v).kind = p.kind /\ FGoes(p, v).keep = p.keep
           /\ FGoes(p, v).left = p.left /\ FGoes(p, v).on = p.on /\ FGoes(p, v).checked = p.checked
  BY DEF JobState, FGoes

LEMMA FCheckedFields ==
    ASSUME NEW p \in JobState, NEW l \in {"same", "other"}, NEW h \in [CleanEntry -> SUBSET Format]
    PROVE  /\ FChecked(p, l, h) \in JobState /\ FChecked(p, l, h).at = "next" /\ FChecked(p, l, h).kind = p.kind
           /\ FChecked(p, l, h).keep = p.keep /\ FChecked(p, l, h).left = p.left /\ FChecked(p, l, h).on = l
           /\ FChecked(p, l, h).checked = p.checked
  BY DEF JobState, JobStep, FChecked

LEMMA FTookFields ==
    ASSUME NEW p \in JobState, NEW f \in AllFiles, NEW es \in SUBSET CleanEntry
    PROVE  /\ FTook(p, f, es) \in JobState /\ FTook(p, f, es).at = p.at /\ FTook(p, f, es).kind = p.kind
           /\ FTook(p, f, es).keep = p.keep /\ FTook(p, f, es).left = p.left \ {f} /\ FTook(p, f, es).on = p.on
           /\ FTook(p, f, es).checked = p.checked
  BY DEF JobState, FTook

LEMMA FHeldFields ==
    ASSUME NEW p \in JobState, NEW f \in AllFiles, NEW es \in SUBSET CleanEntry, NEW v \in JobStep
    PROVE  /\ FHeld(p, f, es, v) \in JobState /\ FHeld(p, f, es, v).at = v /\ FHeld(p, f, es, v).kind = p.kind
           /\ FHeld(p, f, es, v).keep = p.keep /\ FHeld(p, f, es, v).left = p.left \ {f} /\ FHeld(p, f, es, v).on = p.on
           /\ FHeld(p, f, es, v).checked = p.checked
  BY DEF JobState, FTook, FHeld

LEMMA FBackFields ==
    ASSUME NEW p \in JobState, NEW f \in AllFiles, NEW c \in BOOLEAN
    PROVE  /\ FBack(p, f, c) \in JobState /\ FBack(p, f, c).at = "next" /\ FBack(p, f, c).kind = p.kind
           /\ FBack(p, f, c).keep = p.keep /\ FBack(p, f, c).left = p.left /\ FBack(p, f, c).on = p.on
           /\ FBack(p, f, c).checked = c
  BY DEF JobState, JobStep, FBack

LEMMA FEndedFields ==
    FEnded \in JobState /\ FEnded.at = "sync" /\ FEnded.checked = FALSE /\ FEnded.left = {}
  BY IdleJob DEF JobState, JobStep, FEnded

LEMMA FormatFacts ==
    ASSUME FormatsFit
    PROVE  /\ FormatsTyped /\ JobsFit /\ OneWorks /\ BlindWaits
           /\ has \in [CleanEntry -> SUBSET Format] /\ seen \in [CleanEntry -> SUBSET Format]
           /\ same \in BOOLEAN /\ job \in BOOLEAN /\ stop \in BOOLEAN /\ blind \in BOOLEAN
           /\ bin \subseteq AllFiles /\ log \subseteq AllFiles /\ jobs \in [Cleaner -> JobState]
           /\ \A a \in Cleaner : jobs[a] \in JobState /\ JobFits(jobs[a], job, same)
  BY DEF FormatsFit, FormatsTyped, JobsFit

-----------------------------------------------------------------------------

\* Calibre, a sync, the log and a request to stop leave the jobs alone.
LEMMA OutsideFits ==
    ASSUME FormatsFit, UNCHANGED <<same, job, jobs, blind>>,
           has' \in [CleanEntry -> SUBSET Format], seen' \in [CleanEntry -> SUBSET Format],
           bin' \subseteq AllFiles, log' \subseteq AllFiles, stop' \in BOOLEAN
    PROVE  FormatsFit'
<1>1. FormatsTyped /\ JobsFit /\ OneWorks /\ BlindWaits
  BY FormatFacts
<1>2. QED
  BY <1>1 DEF FormatsFit, FormatsTyped, JobsFit, OneWorks, BlindWaits

\* One job takes a step.
LEMMA JobSteps ==
    ASSUME FormatsFit, NEW a \in Cleaner, NEW q \in JobState, jobs' = [jobs EXCEPT ![a] = q], UNCHANGED same,
           has' \in [CleanEntry -> SUBSET Format], seen' \in [CleanEntry -> SUBSET Format],
           bin' \subseteq AllFiles, log' \subseteq AllFiles, stop' \in BOOLEAN, job' \in BOOLEAN, blind' \in BOOLEAN,
           JobFits(q, job', same),
           Works(q) => Works(jobs[a]) \/ ~job,
           job' = job \/ job' \/ Works(jobs[a]),
           blind' => ~same /\ (q.at = "trash" \/ (blind /\ jobs[a].at # "trash"))
    PROVE  FormatsFit'
<1>1. /\ FormatsTyped /\ JobsFit /\ OneWorks /\ BlindWaits /\ jobs \in [Cleaner -> JobState] /\ job \in BOOLEAN
      /\ \A c \in Cleaner : jobs[c] \in JobState /\ JobFits(jobs[c], job, same)
  BY FormatFacts
<1>2. \A c \in Cleaner : jobs'[c] = IF c = a THEN q ELSE jobs[c]
  BY <1>1
<1>3. FormatsTyped'
  BY <1>1 DEF FormatsTyped
<1>4. JobsFit'
  <2>1. ASSUME NEW c \in Cleaner
        PROVE  JobFits(jobs'[c], job', same)
    <3>1. CASE c = a
      BY <1>2, <3>1
    <3>2. CASE c # a /\ (job' = job \/ job')
      BY <1>1, <1>2, <3>2 DEF JobFits
    <3>3. CASE c # a /\ Works(jobs[a])
      BY <1>1, <1>2, <3>3 DEF JobFits, OneWorks
    <3>4. QED
      BY <3>1, <3>2, <3>3
  <2>2. QED
    BY <2>1 DEF JobsFit
<1>5. OneWorks'
  <2>1. ASSUME NEW c \in Cleaner, c # a, Works(q), Works(jobs[c])
        PROVE  FALSE
    BY <1>1, <2>1 DEF OneWorks, JobFits
  <2>2. QED
    BY <1>1, <1>2, <2>1 DEF OneWorks
<1>6. BlindWaits'
  BY <1>1, <1>2 DEF BlindWaits
<1>7. QED
  BY <1>3, <1>4, <1>5, <1>6 DEF FormatsFit

LEMMA EndFits ==
    ASSUME FormatsFit, NEW a \in Cleaner, F!End(a), Works(jobs[a]), UNCHANGED <<has, seen, same, bin, log, stop>>
    PROVE  FormatsFit'
<1>1. jobs' = [jobs EXCEPT ![a] = FEnded] /\ job' = FALSE /\ blind' = FALSE /\ job' \in BOOLEAN /\ blind' \in BOOLEAN
  BY DEF F!End, FEnded
<1>2. JobFits(FEnded, job', same) /\ ~Works(FEnded)
  BY FEndedFields DEF JobFits, Works
<1>3. QED
  BY <1>1, <1>2, FormatFacts, FEndedFields, JobSteps

LEMMA ListFits ==
    ASSUME FormatsFit, NEW a \in Cleaner, NEW k \in {"remove", "restore", "convert"}, NEW ks \in SUBSET Format,
           NEW fs \in SUBSET AllFiles, k = "remove" => \A f \in fs : f[2] \notin ks, F!List(a, k, ks, fs)
    PROVE  FormatsFit'
<1> DEFINE q == FListed(k, ks, fs)
<1>1. /\ jobs[a].at = "idle" /\ jobs' = [jobs EXCEPT ![a] = q]
      /\ UNCHANGED <<has, seen, same, bin, log, job, stop, blind>>
  BY DEF F!List, FListed
<1>2. /\ q \in JobState /\ q.at = "listed" /\ q.kind = k /\ q.keep = ks /\ q.left = fs /\ q.checked = FALSE
  BY IdleJob DEF JobState, JobStep, FListed
<1> HIDE DEF q
<1>3. JobFits(q, job', same) /\ ~Works(q) /\ (blind' => ~same /\ jobs[a].at # "trash")
  BY <1>1, <1>2, FormatFacts DEF JobFits, Works, BlindWaits
<1>4. QED
  BY <1>1, <1>2, <1>3, FormatFacts, JobSteps

LEMMA BeginJobFits ==
    ASSUME FormatsFit, NEW a \in Cleaner, F!Begin(a)
    PROVE  FormatsFit'
<1> DEFINE p == jobs[a]
           q == IF job THEN F!Idle ELSE FGoes(p, "check")
<1>1. /\ p.at = "listed" /\ job' = TRUE /\ stop' = (job /\ stop) /\ UNCHANGED <<has, seen, same, bin, log, blind>>
      /\ p \in JobState /\ JobFits(p, job, same) /\ BlindWaits
  BY FormatFacts DEF F!Begin
<1>2. jobs' = [jobs EXCEPT ![a] = q]
  BY DEF F!Begin, FGoes
<1>3. "check" \in JobStep
  BY DEF JobStep
<1>4. /\ q \in JobState /\ JobFits(q, TRUE, same) /\ (Works(q) => ~job)
  <2>1. CASE job
    BY <2>1, IdleJob DEF JobFits, Works
  <2>2. CASE ~job
    <3>1. /\ FGoes(p, "check") \in JobState /\ FGoes(p, "check").at = "check" /\ FGoes(p, "check").kind = p.kind
          /\ FGoes(p, "check").keep = p.keep /\ FGoes(p, "check").left = p.left /\ FGoes(p, "check").checked = p.checked
      BY <1>1, <1>3, FGoesFields
    <3> HIDE DEF p
    <3>2. QED
      BY <1>1, <2>2, <3>1 DEF JobFits, Works
  <2>3. QED
    BY <2>1, <2>2
<1> HIDE DEF q
<1>5. stop' \in BOOLEAN /\ job' \in BOOLEAN /\ (blind' => ~same /\ blind /\ jobs[a].at # "trash")
  BY <1>1, FormatFacts DEF BlindWaits
<1>6. QED
  BY <1>1, <1>2, <1>4, <1>5, FormatFacts, JobSteps

LEMMA CheckFits ==
    ASSUME FormatsFit, NEW a \in Cleaner, NEW l \in {"same", "other"}, F!CheckTitles(a, l)
    PROVE  FormatsFit'
<1> DEFINE p == jobs[a]
           q == FChecked(p, l, has)
<1>1. /\ p.at = "check" /\ UNCHANGED <<has, seen, same, bin, log, stop>> /\ Works(p)
      /\ p \in JobState /\ JobFits(p, job, same) /\ BlindWaits /\ has \in [CleanEntry -> SUBSET Format]
  BY FormatFacts DEF F!CheckTitles, Works
<1>2. CASE F!End(a)
  BY <1>1, <1>2, EndFits
<1>3. CASE l = "same" /\ jobs' = [jobs EXCEPT ![a] = q] /\ UNCHANGED <<job, blind>>
  <2>1. /\ q \in JobState /\ q.at = "next" /\ q.kind = p.kind /\ q.keep = p.keep /\ q.left = p.left /\ q.on = l
        /\ q.checked = p.checked
    <3> HIDE DEF p
    <3>1. QED
      BY <1>1, FCheckedFields
  <2> HIDE DEF q
  <2>2. JobFits(q, job', same) /\ (blind' => ~same /\ blind /\ jobs[a].at # "trash")
    BY <1>1, <1>3, <2>1 DEF JobFits, Works, BlindWaits
  <2>3. QED
    BY <1>1, <1>3, <2>1, <2>2, FormatFacts, JobSteps
<1>4. QED
  BY <1>2, <1>3 DEF F!CheckTitles, F!TitlesAgree, FChecked

\* A job goes on with a file, which it holds or not.
LEMMA FileFits ==
    ASSUME FormatsFit, NEW a \in Cleaner, NEW f \in AllFiles, jobs[a].at = "next",
           F!Skip(a, f) \/ \E v \in {"log", "mark", "poll"} : F!Hold(a, f, v),
           UNCHANGED <<seen, same, log, job, stop, blind>>,
           has' \in [CleanEntry -> SUBSET Format], bin' \subseteq AllFiles
    PROVE  FormatsFit'
<1> DEFINE p == jobs[a]
           es == {e \in {f[1]} : p.kind = "remove" /\ \E g \in p.left \ {f} : g[1] = e}
<1>1. /\ p \in JobState /\ JobFits(p, job, same) /\ BlindWaits /\ es \in SUBSET CleanEntry
  BY FormatFacts DEF AllFiles
<1>2. F!Took(a, f) = FTook(p, f, es)
  BY DEF F!Took, FTook
<1> HIDE DEF es
<1>3. PICK q \in JobState : /\ jobs' = [jobs EXCEPT ![a] = q] /\ q.at \in {"next", "log", "mark", "poll"} /\ q.kind = p.kind
                            /\ q.keep = p.keep /\ q.left = p.left \ {f} /\ q.on = p.on /\ q.checked = p.checked
  <2>1. CASE F!Skip(a, f)
    <3>1. /\ FTook(p, f, es) \in JobState /\ FTook(p, f, es).at = p.at /\ FTook(p, f, es).kind = p.kind
          /\ FTook(p, f, es).keep = p.keep /\ FTook(p, f, es).left = p.left \ {f} /\ FTook(p, f, es).on = p.on
          /\ FTook(p, f, es).checked = p.checked
      BY <1>1, FTookFields
    <3>2. jobs' = [jobs EXCEPT ![a] = FTook(p, f, es)]
      BY <1>2, <2>1 DEF F!Skip
    <3>3. QED
      BY <3>1, <3>2
  <2>2. ASSUME NEW v \in {"log", "mark", "poll"}, F!Hold(a, f, v)
        PROVE  \E q \in JobState : /\ jobs' = [jobs EXCEPT ![a] = q] /\ q.at \in {"next", "log", "mark", "poll"}
                                   /\ q.kind = p.kind /\ q.keep = p.keep /\ q.left = p.left \ {f} /\ q.on = p.on
                                   /\ q.checked = p.checked
    <3>1. v \in JobStep
      BY DEF JobStep
    <3>2. /\ FHeld(p, f, es, v) \in JobState /\ FHeld(p, f, es, v).at = v /\ FHeld(p, f, es, v).kind = p.kind
          /\ FHeld(p, f, es, v).keep = p.keep /\ FHeld(p, f, es, v).left = p.left \ {f} /\ FHeld(p, f, es, v).on = p.on
          /\ FHeld(p, f, es, v).checked = p.checked
      <4> HIDE DEF p
      <4>1. QED
        BY <1>1, <3>1, FHeldFields
    <3>3. jobs' = [jobs EXCEPT ![a] = FHeld(p, f, es, v)]
      BY <1>2, <2>2 DEF F!Hold, FHeld
    <3>4. QED
      BY <3>2, <3>3
  <2>3. QED
    BY <2>1, <2>2
<1>4. JobFits(q, job', same) /\ Works(p) /\ (blind' => ~same /\ blind /\ jobs[a].at # "trash")
  BY <1>1, <1>3 DEF JobFits, Works, BlindWaits
<1>5. QED
  BY <1>3, <1>4, FormatFacts, JobSteps

\* A job goes back to its list.
LEMMA BackFits ==
    ASSUME FormatsFit, NEW a \in Cleaner, NEW c \in BOOLEAN, jobs[a].at \in {"log", "trash", "mark", "poll"}, F!Back(a, c),
           UNCHANGED <<seen, same, job, stop>>, c => same, ~blind',
           blind' \in BOOLEAN, has' \in [CleanEntry -> SUBSET Format], bin' \subseteq AllFiles, log' \subseteq AllFiles
    PROVE  FormatsFit'
<1> DEFINE p == jobs[a]
           q == FBack(p, F!Idle.file, c)
<1>1. p \in JobState /\ JobFits(p, job, same) /\ jobs' = [jobs EXCEPT ![a] = q]
  BY FormatFacts DEF F!Back, FBack
<1>2. /\ q \in JobState /\ q.at = "next" /\ q.kind = p.kind /\ q.keep = p.keep /\ q.left = p.left /\ q.on = p.on
      /\ q.checked = c
  <2> HIDE DEF p
  <2>1. QED
    BY <1>1, IdleJob, FBackFields
<1> HIDE DEF q
<1>3. JobFits(q, job', same) /\ Works(p)
  BY <1>1, <1>2 DEF JobFits, Works
<1>4. QED
  BY <1>1, <1>2, <1>3, FormatFacts, JobSteps

LEMMA NotBlind ==
    ASSUME FormatsFit, NEW a \in Cleaner, Works(jobs[a]), jobs[a].at # "trash"
    PROVE  ~blind
  BY FormatFacts DEF BlindWaits, OneWorks, Works

LEMMA RemoveFits ==
    ASSUME FormatsFit, NEW a \in Cleaner, NEW f \in AllFiles, F!RemoveFormat(a, f)
    PROVE  FormatsFit'
<1>1. /\ jobs[a].at = "next" /\ UNCHANGED <<seen, same, log, job, stop, blind>>
      /\ F!Skip(a, f) \/ F!Hold(a, f, "log")
      /\ has' = has \/ has' = [has EXCEPT ![f[1]] = has[f[1]] \ {f[2]}]
      /\ bin' = bin \/ bin' = bin \cup {f}
  BY DEF F!RemoveFormat, F!Now
<1>2. has' \in [CleanEntry -> SUBSET Format] /\ bin' \subseteq AllFiles
  BY <1>1, FormatFacts DEF AllFiles
<1>3. QED
  BY <1>1, <1>2, FileFits

LEMMA AddFits ==
    ASSUME FormatsFit, NEW a \in Cleaner, NEW f \in AllFiles, F!AddFormat(a, f) \/ F!StartConversion(a, f)
    PROVE  FormatsFit'
<1>1. /\ jobs[a].at = "next" /\ UNCHANGED <<seen, same, bin, log, job, stop, blind>>
      /\ F!Skip(a, f) \/ F!Hold(a, f, "mark") \/ F!Hold(a, f, "poll")
      /\ has' = has \/ has' = [has EXCEPT ![f[1]] = has[f[1]] \cup {f[2]}]
  BY DEF F!AddFormat, F!StartConversion, F!Now
<1>2. has' \in [CleanEntry -> SUBSET Format] /\ bin' \subseteq AllFiles
  BY <1>1, FormatFacts DEF AllFiles
<1>3. QED
  BY <1>1, <1>2, FileFits

LEMMA LogFits ==
    ASSUME FormatsFit, NEW a \in Cleaner, F!LogFormatRemoval(a)
    PROVE  FormatsFit'
<1> DEFINE p == jobs[a]
           q == FGoes(p, "trash")
<1>1. /\ p.at = "log" /\ log' = log \cup {p.file} /\ blind' = (blind \/ ~same) /\ UNCHANGED <<has, seen, same, bin, job, stop>>
      /\ IF p.checked THEN F!Back(a, TRUE) ELSE jobs' = [jobs EXCEPT ![a] = q]
      /\ p \in JobState /\ JobFits(p, job, same) /\ BlindWaits
  BY FormatFacts DEF F!LogFormatRemoval, FGoes
<1>2. log' \subseteq AllFiles /\ Works(p) /\ blind' \in BOOLEAN
  BY <1>1, FormatFacts, JobFields DEF Works
<1>3. ~blind
  BY <1>1, <1>2, NotBlind
<1>4. CASE p.checked
  <2>1. same
    BY <1>1, <1>4 DEF JobFits
  <2>2. QED
    BY <1>1, <1>2, <1>3, <1>4, <2>1, FormatFacts, BackFits
<1>5. CASE ~p.checked
  <2>1. "trash" \in JobStep
    BY DEF JobStep
  <2>2. /\ q \in JobState /\ q.at = "trash" /\ q.kind = p.kind /\ q.keep = p.keep /\ q.left = p.left /\ q.on = p.on
        /\ q.checked = p.checked
    <3> HIDE DEF p
    <3>1. QED
      BY <1>1, <2>1, FGoesFields
  <2> HIDE DEF q
  <2>3. JobFits(q, job', same) /\ (blind' => ~same)
    BY <1>1, <1>2, <1>3, <2>2 DEF JobFits, Works
  <2>4. QED
    BY <1>1, <1>2, <1>5, <2>2, <2>3, FormatFacts, JobSteps
<1>6. QED
  BY <1>4, <1>5

LEMMA TrashFits ==
    ASSUME FormatsFit, NEW a \in Cleaner, F!WaitForTrash(a)
    PROVE  FormatsFit'
<1>1. /\ jobs[a].at = "trash" /\ UNCHANGED <<has, seen, same, bin, log, stop>> /\ Works(jobs[a]) /\ BlindWaits
      /\ (same /\ F!Back(a, TRUE) /\ UNCHANGED <<job, blind>>) \/ F!End(a)
  BY FormatFacts DEF F!WaitForTrash, F!InTrash, Works
<1>2. CASE F!End(a)
  BY <1>1, <1>2, EndFits
<1>3. CASE same /\ F!Back(a, TRUE) /\ UNCHANGED <<job, blind>>
  <2>1. ~blind'
    BY <1>1, <1>3 DEF BlindWaits
  <2>2. QED
    BY <1>1, <1>3, <2>1, FormatFacts, BackFits
<1>4. QED
  BY <1>1, <1>2, <1>3

LEMMA MarkFits ==
    ASSUME FormatsFit, NEW a \in Cleaner, F!MarkRestored(a) \/ F!ConversionStatus(a)
    PROVE  FormatsFit'
<1> DEFINE g == jobs[a].file
<1>1. /\ jobs[a].at \in {"mark", "poll"} /\ F!Back(a, FALSE) /\ UNCHANGED <<seen, same, bin, job, stop, blind>>
      /\ log' = log \/ log' = log \ {g}
      /\ has' = has \/ has' = [has EXCEPT ![g[1]] = has[g[1]] \cup {Epub}]
  BY DEF F!MarkRestored, F!ConversionStatus
<1>2. g \in AllFiles /\ Epub \in Format
  BY FormatFacts, JobFields, CleanupAssumption
<1> HIDE DEF g
<1>3. has' \in [CleanEntry -> SUBSET Format] /\ log' \subseteq AllFiles /\ bin' \subseteq AllFiles /\ blind' \in BOOLEAN
  BY <1>1, <1>2, FormatFacts DEF AllFiles
<1>4. Works(jobs[a]) /\ ~blind /\ FALSE \in BOOLEAN
  BY <1>1, NotBlind DEF Works
<1>5. QED
  BY <1>1, <1>3, <1>4, BackFits

LEMMA AfterFits ==
    ASSUME FormatsFit, NEW a \in Cleaner, F!AfterFormatJob(a)
    PROVE  FormatsFit'
<1>1. /\ jobs[a].at = "sync" /\ (seen' = has \/ seen' = seen) /\ jobs' = [jobs EXCEPT ![a] = F!Idle]
      /\ UNCHANGED <<has, same, bin, log, job, stop, blind>>
  BY DEF F!AfterFormatJob
<1>2. JobFits(F!Idle, job', same) /\ ~Works(F!Idle) /\ (blind' => ~same /\ blind /\ jobs[a].at # "trash")
  BY <1>1, IdleJob, FormatFacts DEF JobFits, Works, BlindWaits
<1>3. QED
  BY <1>1, <1>2, IdleJob, FormatFacts, JobSteps

LEMMA NoJobs ==
    ASSUME FormatsTyped', jobs' = [a \in Cleaner |-> F!Idle], blind' = FALSE
    PROVE  FormatsFit'
<1>1. \A a \in Cleaner : jobs'[a] = F!Idle
  OBVIOUS
<1>2. JobFits(F!Idle, job', same') /\ ~Works(F!Idle)
  BY IdleJob DEF JobFits, Works
<1>3. QED
  BY <1>1, <1>2 DEF FormatsFit, JobsFit, OneWorks, BlindWaits

LEMMA FormatsBegin ==
    F!Init => FormatsFit
<1> SUFFICES ASSUME F!Init
             PROVE  FormatsFit
  OBVIOUS
<1>1. /\ has = [e \in CleanEntry |-> Format] /\ seen = has /\ same \in BOOLEAN /\ bin = {} /\ log = {} /\ job = FALSE
      /\ stop = FALSE /\ jobs = [a \in Cleaner |-> F!Idle] /\ blind = FALSE
  BY DEF F!Init
<1>2. \A a \in Cleaner : jobs[a] = F!Idle
  BY <1>1
<1>3. JobFits(F!Idle, job, same) /\ ~Works(F!Idle)
  BY IdleJob DEF JobFits, Works
<1>4. FormatsTyped
  <2>1. jobs \in [Cleaner -> JobState] /\ has \in [CleanEntry -> SUBSET Format] /\ FALSE \in BOOLEAN
    BY <1>1, IdleJob
  <2>2. QED
    BY <1>1, <2>1 DEF FormatsTyped
<1>5. QED
  BY <1>1, <1>2, <1>3, <1>4 DEF FormatsFit, JobsFit, OneWorks, BlindWaits

LEMMA FormatsGoOn ==
    FormatsFit /\ [F!Next]_formatVars => FormatsFit'
<1> SUFFICES ASSUME FormatsFit, [F!Next]_formatVars
             PROVE  FormatsFit'
  OBVIOUS
<1>0. F!File = AllFiles /\ F!Library = {"same", "other"}
  BY DEF F!File, AllFiles, F!Library
<1>1. ASSUME NEW e \in CleanEntry, NEW fs \in SUBSET Format, F!EditCalibre(e, fs)
      PROVE  FormatsFit'
  <2>1. has' = [has EXCEPT ![e] = fs] /\ UNCHANGED <<seen, same, bin, log, job, stop, jobs, blind>>
    BY <1>1 DEF F!EditCalibre
  <2>2. QED
    BY <2>1, FormatFacts, OutsideFits
<1>2. CASE F!EmptyBin \/ F!Sync \/ F!AskStop
  <2>1. /\ bin' = bin \/ bin' = {}
        /\ seen' = seen \/ seen' = has
        /\ stop' = stop \/ stop' = TRUE
        /\ UNCHANGED <<has, same, log, job, jobs, blind>>
    BY <1>2 DEF F!EmptyBin, F!Sync, F!AskStop
  <2>2. stop' \in BOOLEAN
    BY <2>1, FormatFacts
  <2>3. QED
    BY <2>1, <2>2, FormatFacts, OutsideFits
<1>3. CASE F!Restart
  <2>1. /\ job' = FALSE /\ stop' = FALSE /\ jobs' = [a \in Cleaner |-> F!Idle] /\ blind' = FALSE
        /\ UNCHANGED <<has, seen, same, bin, log>>
    BY <1>3 DEF F!Restart
  <2>2. jobs' \in [Cleaner -> JobState] /\ FALSE \in BOOLEAN
    BY <2>1, IdleJob
  <2>3. FormatsTyped'
    BY <2>1, <2>2, FormatFacts DEF FormatsTyped
  <2>4. QED
    BY <2>1, <2>3, NoJobs
<1>4. ASSUME NEW f \in AllFiles, F!Forget(f)
      PROVE  FormatsFit'
  <2>1. log' = log \ {f} /\ UNCHANGED <<has, seen, same, bin, job, stop, jobs, blind>>
    BY <1>4 DEF F!Forget
  <2>2. QED
    BY <2>1, FormatFacts, OutsideFits
<1>5. ASSUME NEW a \in Cleaner, NEW keep \in SUBSET Format, F!List(a, "remove", keep, F!FormatCleanup(keep))
      PROVE  FormatsFit'
  <2>1. F!FormatCleanup(keep) \in SUBSET AllFiles /\ \A f \in F!FormatCleanup(keep) : f[2] \notin keep
    BY <1>0 DEF F!FormatCleanup
  <2>2. QED
    BY <1>5, <2>1, ListFits
<1>6. ASSUME NEW a \in Cleaner,
             \/ \E fs \in SUBSET log : F!List(a, "restore", {}, fs)
             \/ \E es \in SUBSET CleanEntry : F!List(a, "convert", {}, {f \in F!ToConvert : f[1] \in es})
      PROVE  FormatsFit'
  <2>1. F!ToConvert \in SUBSET AllFiles /\ SUBSET log \subseteq SUBSET AllFiles
    BY <1>0, FormatFacts DEF F!ToConvert
  <2>2. \A es : {f \in F!ToConvert : f[1] \in es} \in SUBSET AllFiles
    BY <2>1
  <2>3. {} \in SUBSET Format
    OBVIOUS
  <2>4. CASE \E fs \in SUBSET log : F!List(a, "restore", {}, fs)
    BY <2>1, <2>3, <2>4, ListFits
  <2>5. CASE \E es \in SUBSET CleanEntry : F!List(a, "convert", {}, {f \in F!ToConvert : f[1] \in es})
    BY <2>2, <2>3, <2>5, ListFits
  <2>6. QED
    BY <1>6, <2>4, <2>5
<1>7. ASSUME NEW a \in Cleaner, NEW l \in {"same", "other"}, F!CheckTitles(a, l)
      PROVE  FormatsFit'
  BY <1>7, CheckFits
<1>8. ASSUME NEW a \in Cleaner, \/ F!Begin(a) \/ F!LogFormatRemoval(a) \/ F!WaitForTrash(a) \/ F!MarkRestored(a)
                                \/ F!ConversionStatus(a) \/ F!AfterFormatJob(a)
      PROVE  FormatsFit'
  BY <1>8, BeginJobFits, LogFits, TrashFits, MarkFits, AfterFits
<1>9. ASSUME NEW a \in Cleaner, F!Finish(a)
      PROVE  FormatsFit'
  <2>1. F!End(a) /\ Works(jobs[a]) /\ UNCHANGED <<has, seen, same, bin, log, stop>>
    BY <1>9 DEF F!Finish, Works
  <2>2. QED
    BY <2>1, EndFits
<1>10. ASSUME NEW a \in Cleaner, NEW f \in AllFiles, F!RemoveFormat(a, f) \/ F!AddFormat(a, f) \/ F!StartConversion(a, f)
       PROVE  FormatsFit'
  BY <1>10, RemoveFits, AddFits
<1>11. CASE UNCHANGED formatVars
  BY <1>11, FormatFacts, OutsideFits DEF formatVars
<1>12. QED
  BY <1>0, <1>1, <1>2, <1>3, <1>4, <1>5, <1>6, <1>7, <1>8, <1>9, <1>10, <1>11 DEF F!Next

LEMMA FormatsHold ==
    FormatsFit => F!TypeOK /\ F!OneJob /\ F!OneFileBlind
<1> SUFFICES ASSUME FormatsFit
             PROVE  F!TypeOK /\ F!OneJob /\ F!OneFileBlind
  OBVIOUS
<1>1. F!TypeOK
  <2>1. \A a \in Cleaner : jobs[a] \in JobState
    BY FormatFacts
  <2>2. QED
    BY <2>1, FormatFacts DEF F!TypeOK, F!File, F!Library, AllFiles, JobState, JobStep
<1>2. F!OneJob
  <2> DEFINE W == {a \in Cleaner : jobs[a].at \notin {"idle", "listed", "sync"}}
  <2>1. \A a, c \in W : a = c
    BY FormatFacts DEF OneWorks, Works
  <2>2. \A s : F!Cardinality(s) = Cardinality(s)
    BY DEF F!Cardinality, Cardinality
  <2>3. CASE W = {}
    BY <2>2, <2>3, FS_EmptySet DEF F!OneJob
  <2>4. CASE W # {}
    <3>1. PICK a \in W : TRUE
      BY <2>4
    <3>2. W = {a}
      BY <2>1, <3>1
    <3>3. Cardinality(W) = 1
      BY <3>2, FS_Singleton
    <3>4. QED
      BY <2>2, <3>3 DEF F!OneJob
  <2>5. QED
    BY <2>3, <2>4
<1>3. F!OneFileBlind
  <2>1. ASSUME blind, NEW a \in Cleaner, jobs[a].at = "next"
        PROVE  FALSE
    BY <2>1, NotBlind DEF Works
  <2>2. QED
    BY <2>1 DEF F!OneFileBlind
<1>4. QED
  BY <1>1, <1>2, <1>3

LEMMA FormatsStay ==
    ASSUME FormatsFit
    PROVE  F!KeptFormatStays /\ F!OtherLibraryUntouched
<1>1. ASSUME NEW a \in Cleaner, NEW f \in AllFiles, F!RemoveFormat(a, f), has' # has,
             has[f[1]] \cap jobs[a].keep = jobs[a].have[f[1]] \cap jobs[a].keep
      PROVE  has'[f[1]] \cap jobs[a].keep # {}
  <2>1. /\ jobs[a].at = "next" /\ jobs[a].kind = "remove" /\ f \in jobs[a].left
        /\ F!Confirmed(a, f) /\ has' = [has EXCEPT ![f[1]] = has[f[1]] \ {f[2]}]
    BY <1>1 DEF F!RemoveFormat, F!Now
  <2>2. f[2] \notin jobs[a].keep
    BY <2>1, FormatFacts DEF JobFits
  <2>3. has'[f[1]] = has[f[1]] \ {f[2]}
    BY <2>1, FormatFacts DEF AllFiles
  <2>4. jobs[a].have[f[1]] \cap jobs[a].keep # {}
    BY <2>1 DEF F!Confirmed
  <2>5. QED
    BY <1>1, <2>2, <2>3, <2>4
<1>2. ASSUME NEW a \in Cleaner, NEW f \in AllFiles, F!RemoveFormat(a, f) \/ F!AddFormat(a, f)
      PROVE  jobs[a].on = "same"
  <2>1. jobs[a].at = "next"
    BY <1>2 DEF F!RemoveFormat, F!AddFormat, F!Now
  <2>2. QED
    BY <2>1, FormatFacts DEF JobFits
<1>3. F!File = AllFiles
  BY DEF F!File, AllFiles
<1>4. QED
  BY <1>1, <1>2, <1>3 DEF F!KeptFormatStays, F!OtherLibraryUntouched

-----------------------------------------------------------------------------

FormatsFitHere == running = "formats" => FormatsFit

\* Format cleanup (formatjob.go, formatruns.go): for any books, formats and requests, one job works
\* at a time, none goes on removing where the bin is out of sight, each book keeps a kept format
\* if nobody else changes those meanwhile, and a library with other titles is not touched.
THEOREM CleanupStaysSafe == Spec => CleanupIsSafe
<1>1. Init => FormatsFitHere
  BY FormatsBegin DEF Init, FormatsFitHere
<1>2. FormatsFitHere /\ [Next]_vars => FormatsFitHere'
  <2>1. ASSUME [Next]_vars, running' = "formats"
        PROVE  running = "formats" /\ [F!Next]_formatVars
    BY <2>1 DEF Next, vars
  <2>2. QED
    BY <2>1, FormatsGoOn DEF FormatsFitHere
<1>3. FormatsFitHere => (running = "formats" => F!TypeOK /\ F!OneJob /\ F!OneFileBlind)
  BY FormatsHold DEF FormatsFitHere
<1>4. FormatsFitHere => [running = "formats" => F!KeptFormatStays /\ F!OtherLibraryUntouched]_vars
  BY FormatsStay DEF FormatsFitHere
<1>5. QED
  BY <1>1, <1>2, <1>3, <1>4, PTL DEF Spec, CleanupIsSafe

-----------------------------------------------------------------------------
(* Removals.                                                               *)

RemovalStep == {"idle", "reviewed", "ids", "titles", "remove", "sync", "mark", "count", "resolve"}
RemovalState ==
    [at : RemovalStep, kind : {"delete", "hide"}, want : SUBSET CalEntry, left : SUBSET CalEntry, ids : SUBSET (1..MaxRows),
     review : SUBSET CalEntry, on : {"same", "other"}]
RequestRow == [book : CalBook, user : User, st : {"pending", "lost", "deleted", "closed"}]

RowsTyped(rs) == DOMAIN rs \subseteq 1..MaxRows /\ \A i \in DOMAIN rs : rs[i] \in RequestRow
Waits(rs)     == \E i \in DOMAIN rs : rs[i].st = "pending"

DeletesTyped ==
    /\ calibre \subseteq CalEntry /\ theirs \subseteq CalEntry /\ listed \subseteq CalEntry /\ served \in {"same", "other"}
    /\ RowsTyped(rows) /\ asking \subseteq User /\ D!BellOK
    /\ removal \in [Req -> RemovalState]

\* What a request removes is left or gone, and another library has none of it.
RemovalFits(p, es, ts) ==
    /\ p.at = "remove" /\ p.on = "same" => p.want \cap es \subseteq p.left
    /\ p.at = "remove" /\ p.on = "other" => p.left = {} /\ p.want \cap ts = {}
    /\ p.at \in {"sync", "mark"} /\ p.on = "same" => p.want \cap es = {}
    /\ p.at \in {"sync", "mark"} /\ p.on = "other" => p.want \cap ts = {}

RemovalsFit == \A r \in Req : RemovalFits(removal[r], calibre, theirs)

\* A notice that is unread has no more before it than were written since.
DCounted == ahead < MaxNotices => silent \/ ahead <= since

\* Who closes the notice saw nothing that waits, or somebody has asked since.
NoticeFits ==
    /\ DCounted
    /\ Waits(rows) => D!Told \/ asking # {}
    /\ \A r \in Req : removal[r].at = "resolve" => (Waits(rows) => silent \/ asking # {})

DeletesFit == DeletesTyped /\ RemovalsFit /\ NoticeFits

-----------------------------------------------------------------------------

\* What a request becomes.
DGoes(p, v)       == [p EXCEPT !.at = v]
DWants(v, es)     == [D!Idle EXCEPT !.at = v, !.want = es]
DReviews(es)      == [D!Idle EXCEPT !.at = "reviewed", !.kind = "hide", !.review = es]
DCounts(p, is)    == [p EXCEPT !.at = "titles", !.ids = is]
DAgrees(p, es)    == [p EXCEPT !.at = "titles", !.want = es, !.review = {}]
DServes(p, l, es) == [p EXCEPT !.at = "remove", !.on = l, !.left = es]
DLeaves(p, es)    == [p EXCEPT !.left = es]

LEMMA RemovalFields ==
    \A p \in RemovalState :
        /\ p.at \in RemovalStep /\ p.want \subseteq CalEntry /\ p.left \subseteq CalEntry /\ p.ids \subseteq 1..MaxRows
        /\ p.on \in {"same", "other"}
  BY DEF RemovalState

LEMMA IdleRemoval ==
    D!Idle \in RemovalState /\ D!Idle.at = "idle"
<1>1. {} \in SUBSET CalEntry /\ {} \in SUBSET (1..MaxRows)
  OBVIOUS
<1>2. QED
  BY <1>1 DEF D!Idle, RemovalState, RemovalStep

LEMMA DGoesFields ==
    ASSUME NEW p \in RemovalState, NEW v \in RemovalStep
    PROVE  /\ DGoes(p, v) \in RemovalState /\ DGoes(p, v).at = v /\ DGoes(p, v).want = p.want
           /\ DGoes(p, v).left = p.left /\ DGoes(p, v).on = p.on
  BY DEF RemovalState, DGoes

LEMMA DCountsFields ==
    ASSUME NEW p \in RemovalState, NEW is \in SUBSET (1..MaxRows)
    PROVE  DCounts(p, is) \in RemovalState /\ DCounts(p, is).at = "titles"
  BY DEF RemovalState, RemovalStep, DCounts

LEMMA DAgreesFields ==
    ASSUME NEW p \in RemovalState, NEW es \in SUBSET CalEntry
    PROVE  DAgrees(p, es) \in RemovalState /\ DAgrees(p, es).at = "titles"
  BY DEF RemovalState, RemovalStep, DAgrees

LEMMA DServesFields ==
    ASSUME NEW p \in RemovalState, NEW l \in {"same", "other"}, NEW es \in SUBSET CalEntry
    PROVE  /\ DServes(p, l, es) \in RemovalState /\ DServes(p, l, es).at = "remove" /\ DServes(p, l, es).want = p.want
           /\ DServes(p, l, es).left = es /\ DServes(p, l, es).on = l
  BY DEF RemovalState, RemovalStep, DServes

LEMMA DLeavesFields ==
    ASSUME NEW p \in RemovalState, NEW es \in SUBSET CalEntry
    PROVE  /\ DLeaves(p, es) \in RemovalState /\ DLeaves(p, es).at = p.at /\ DLeaves(p, es).want = p.want
           /\ DLeaves(p, es).left = es /\ DLeaves(p, es).on = p.on
  BY DEF RemovalState, DLeaves

LEMMA DeleteFacts ==
    ASSUME DeletesFit
    PROVE  /\ DeletesTyped /\ RemovalsFit /\ NoticeFits /\ DCounted
           /\ calibre \subseteq CalEntry /\ theirs \subseteq CalEntry /\ listed \subseteq CalEntry
           /\ served \in {"same", "other"} /\ RowsTyped(rows) /\ asking \subseteq User /\ D!BellOK
           /\ removal \in [Req -> RemovalState]
           /\ \A r \in Req : removal[r] \in RemovalState /\ RemovalFits(removal[r], calibre, theirs)
  BY DEF DeletesFit, DeletesTyped, RemovalsFit, NoticeFits

\* A row that is decided, or loses its book, waits no more, and none begins to.
LEMMA RowsDecided ==
    ASSUME NEW rs, RowsTyped(rs), NEW is, NEW st \in {"lost", "deleted", "closed"}, NEW rt,
           rt = [i \in DOMAIN rs |-> IF i \in is THEN [rs[i] EXCEPT !.st = st] ELSE rs[i]]
    PROVE  RowsTyped(rt) /\ (Waits(rt) => Waits(rs))
<1>1. ASSUME NEW w \in RequestRow
      PROVE  [w EXCEPT !.st = st] \in RequestRow /\ [w EXCEPT !.st = st].st = st
  BY DEF RequestRow
<1>2. DOMAIN rt = DOMAIN rs /\ \A i \in DOMAIN rs : rt[i] = IF i \in is THEN [rs[i] EXCEPT !.st = st] ELSE rs[i]
  OBVIOUS
<1>3. \A i \in DOMAIN rs : rs[i] \in RequestRow
  BY DEF RowsTyped
<1>4. QED
  BY <1>1, <1>2, <1>3 DEF RowsTyped, Waits

-----------------------------------------------------------------------------

-----------------------------------------------------------------------------
(* The bell, as the requests of People_proofs have it.                     *)

LEMMA DBellTypes ==
    ASSUME D!BellOK
    PROVE  MaxNotices \in Nat \ {0} /\ ahead \in 0..MaxNotices /\ since \in 0..MaxNotices
  BY RemovalAssumption DEF D!BellOK

LEMMA DWrittenIs ==
    ASSUME NEW overtaken \in BOOLEAN, D!Written(overtaken)
    PROVE  D!BellOK' /\ DCounted' /\ D!Told' /\ (overtaken => silent')
<1>1. ahead' = 0 /\ since' = 0 /\ MaxNotices \in Nat \ {0}
  BY RemovalAssumption DEF D!Written
<1>2. silent' = overtaken
  BY Zenon DEF D!Written
<1>3. silent' \in BOOLEAN /\ (overtaken => silent')
  BY <1>2, Zenon
<1>4. ahead' < MaxNotices /\ ahead' <= since' /\ ahead' \in 0..MaxNotices /\ since' \in 0..MaxNotices
  BY <1>1
<1>5. D!BellOK'
  BY <1>3, <1>4, Zenon DEF D!BellOK
<1>. QED
  BY <1>3, <1>4, <1>5, Zenon DEF DCounted, D!Told, D!Unread

LEMMA DNotWrittenIs ==
    ASSUME D!BellOK, D!NotWritten
    PROVE  D!BellOK' /\ DCounted' /\ D!Told' /\ silent'
<1>1. silent' = TRUE /\ ahead' = ahead /\ since' = 0
  BY Zenon DEF D!NotWritten
<1>2. ahead' \in 0..MaxNotices /\ since' \in 0..MaxNotices
  BY <1>1, DBellTypes
<1>3. silent' \in BOOLEAN /\ silent'
  BY <1>1, Zenon
<1>. QED
  BY <1>2, <1>3, Zenon DEF D!BellOK, DCounted, D!Told

LEMMA DResolveIs ==
    ASSUME D!BellOK, D!Resolve
    PROVE  D!BellOK' /\ DCounted' /\ (silent => silent' /\ D!Told')
<1>1. ahead' = MaxNotices /\ since' = since /\ silent' = silent
  BY Zenon DEF D!Resolve
<1>2. ahead' \in 0..MaxNotices /\ since' \in 0..MaxNotices /\ ~(ahead' < MaxNotices)
  BY <1>1, DBellTypes
<1>3. silent' \in BOOLEAN /\ (silent => silent')
  BY <1>1, Zenon DEF D!BellOK
<1>. QED
  BY <1>2, <1>3, Zenon DEF D!BellOK, DCounted, D!Told

\* Nothing happens to the bell.
LEMMA DSameBell ==
    ASSUME D!BellOK
    PROVE  UNCHANGED D!bellVars => D!BellOK' /\ (DCounted => DCounted') /\ (D!Told => D!Told') /\ (silent => silent')
<1>0. SUFFICES ASSUME UNCHANGED D!bellVars
               PROVE  D!BellOK' /\ (DCounted => DCounted') /\ (D!Told => D!Told') /\ (silent => silent')
  OBVIOUS
<1>1. ahead' = ahead /\ since' = since /\ silent' = silent
  BY <1>0, Zenon DEF D!bellVars
<1>2. silent' = silent
  BY <1>1, Zenon
<1>3. silent' \in BOOLEAN /\ (silent' <=> silent)
  BY <1>2, Zenon DEF D!BellOK
<1>4. (ahead' < MaxNotices <=> ahead < MaxNotices) /\ (ahead' <= since' <=> ahead <= since)
      /\ (since' = MaxNotices <=> since = MaxNotices)
  BY <1>1
<1>5. ahead' \in 0..MaxNotices /\ since' \in 0..MaxNotices
  BY <1>1, DBellTypes
<1>6. D!BellOK'
  BY <1>3, <1>5, Zenon DEF D!BellOK
<1>7. (DCounted => DCounted') /\ (D!Told => D!Told')
  BY <1>3, <1>4, Zenon DEF DCounted, D!Told, D!Unread
<1>. QED
  BY <1>3, <1>6, <1>7, Zenon

\* Whatever others do, the notice is there, was seen, or was pushed out by as many as are kept.
LEMMA DOthersTell ==
    ASSUME D!BellOK, DCounted, D!BellNext
    PROVE  D!BellOK' /\ DCounted' /\ (D!Told => D!Told') /\ (silent => silent')
<1>. USE DBellTypes
<1>1. CASE D!MarkNotificationsRead
  <2>1. silent' = TRUE /\ ahead' = MaxNotices /\ since' = 0
    BY <1>1, Zenon DEF D!MarkNotificationsRead
  <2>2. ahead' \in 0..MaxNotices /\ since' \in 0..MaxNotices
    BY <2>1
  <2>3. silent' \in BOOLEAN /\ silent'
    BY <2>1, Zenon
  <2>. QED
    BY <2>2, <2>3, Zenon DEF D!BellOK, DCounted, D!Told
<1>2. ASSUME NEW j \in 0..MaxNotices, D!OtherNotice(j)
      PROVE  D!BellOK' /\ DCounted' /\ (D!Told => D!Told') /\ (silent => silent')
  <2>1. silent' = silent
    BY <1>2, Zenon DEF D!OtherNotice
  <2>2. silent' \in BOOLEAN /\ (silent' <=> silent)
    BY <2>1, Zenon DEF D!BellOK
  <2>3. /\ ahead < MaxNotices /\ ahead' = (IF ahead < j THEN ahead + 1 ELSE ahead)
        /\ silent => since' = since
        /\ ~silent => since' = (IF since = MaxNotices THEN since ELSE since + 1)
    BY <1>2 DEF D!OtherNotice, D!Unread
  <2>4. ahead' \in 0..MaxNotices /\ since' \in 0..MaxNotices
    <3>1. CASE silent
      BY <2>3, <3>1
    <3>2. CASE ~silent
      BY <2>3, <3>2
    <3>. QED
      BY <3>1, <3>2
  <2>5. ~silent => ahead' <= since'
    <3>1. SUFFICES ASSUME ~silent PROVE ahead' <= since'
      OBVIOUS
    <3>2. ahead <= since
      BY <2>3, <3>1 DEF DCounted
    <3>. QED
      BY <2>3, <3>1, <3>2
  <2>6. ~silent => ahead' < MaxNotices \/ since' = MaxNotices
    <3>1. SUFFICES ASSUME ~silent, ~(ahead' < MaxNotices) PROVE since' = MaxNotices
      OBVIOUS
    <3>. QED
      BY <2>4, <2>5, <3>1
  <2>. QED
    BY <2>2, <2>4, <2>5, <2>6, Zenon DEF D!BellOK, DCounted, D!Told, D!Unread
<1>3. ASSUME NEW j \in 0..MaxNotices, j < ahead, D!Unread, ahead' = ahead - 1, UNCHANGED <<since, silent>>
      PROVE  D!BellOK' /\ DCounted' /\ (D!Told => D!Told') /\ (silent => silent')
  <2>1. silent' = silent
    BY <1>3, Zenon
  <2>2. silent' \in BOOLEAN /\ (silent' <=> silent)
    BY <2>1, Zenon DEF D!BellOK
  <2>3. ahead' \in 0..MaxNotices /\ since' \in 0..MaxNotices /\ ahead' < MaxNotices /\ since' = since
    BY <1>3 DEF D!Unread
  <2>4. ~silent => ahead' <= since'
    <3>1. SUFFICES ASSUME ~silent PROVE ahead' <= since'
      OBVIOUS
    <3>2. ahead <= since
      BY <1>3, <3>1 DEF DCounted, D!Unread
    <3>. QED
      BY <1>3, <2>3, <3>2
  <2>. QED
    BY <2>2, <2>3, <2>4, Zenon DEF D!BellOK, DCounted, D!Told, D!Unread
<1>. QED
  BY <1>1, <1>2, <1>3 DEF D!BellNext, D!DismissNotifications

-----------------------------------------------------------------------------

\* Calibre, a sync, the settings and the other notices leave the requests alone.
LEMMA ApartFits ==
    ASSUME DeletesFit, UNCHANGED <<theirs, asking, removal>>,
           calibre' \subseteq calibre, listed' \subseteq CalEntry, served' \in {"same", "other"}, RowsTyped(rows'),
           Waits(rows') => Waits(rows), UNCHANGED D!bellVars \/ D!BellNext
    PROVE  DeletesFit'
<1>1. DeletesTyped /\ RemovalsFit /\ NoticeFits /\ D!BellOK /\ DCounted
  BY DeleteFacts
<1>2. D!BellOK' /\ DCounted' /\ (D!Told => D!Told') /\ (silent => silent')
  BY <1>1, DSameBell, DOthersTell
<1>3. DeletesTyped'
  BY <1>1, <1>2 DEF DeletesTyped
<1>4. RemovalsFit'
  BY <1>1 DEF RemovalsFit, RemovalFits
<1>5. NoticeFits'
  BY <1>1, <1>2 DEF NoticeFits
<1>6. QED
  BY <1>3, <1>4, <1>5 DEF DeletesFit

\* One request takes a step; if it was to clear the notice, it may.
LEMMA RequestSteps ==
    ASSUME DeletesFit, NEW r \in Req, NEW q \in RemovalState, removal' = [removal EXCEPT ![r] = q],
           UNCHANGED <<theirs, served, asking>>, calibre' \subseteq calibre, listed' \subseteq CalEntry,
           RowsTyped(rows'), Waits(rows') => Waits(rows),
           RemovalFits(q, calibre', theirs),
           UNCHANGED D!bellVars \/ (removal[r].at = "resolve" /\ D!Resolve),
           q.at = "resolve" => ~Waits(rows)
    PROVE  DeletesFit'
<1>1. /\ DeletesTyped /\ RemovalsFit /\ NoticeFits /\ D!BellOK /\ DCounted /\ removal \in [Req -> RemovalState]
      /\ \A c \in Req : removal[c] \in RemovalState /\ RemovalFits(removal[c], calibre, theirs)
  BY DeleteFacts
<1>2. \A c \in Req : removal'[c] = IF c = r THEN q ELSE removal[c]
  BY <1>1
<1>3. D!BellOK' /\ DCounted' /\ (silent => silent') /\ ((D!Told => D!Told') \/ (removal[r].at = "resolve" /\ (silent => D!Told')))
  BY <1>1, DSameBell, DResolveIs
<1>4. DeletesTyped'
  BY <1>1, <1>3 DEF DeletesTyped
<1>5. \A c \in Req : RemovalFits(removal[c], calibre', theirs)
  BY <1>1 DEF RemovalFits
<1>6. RemovalsFit'
  BY <1>2, <1>5 DEF RemovalsFit
<1>7. NoticeFits'
  BY <1>1, <1>2, <1>3 DEF NoticeFits
<1>8. QED
  BY <1>4, <1>6, <1>7 DEF DeletesFit

\* A step of a request that changes nothing else and is not about the notice.
LEMMA RequestMoves ==
    ASSUME DeletesFit, NEW r \in Req, NEW q \in RemovalState, removal' = [removal EXCEPT ![r] = q],
           UNCHANGED <<calibre, theirs, served, listed, rows, asking>>, UNCHANGED D!bellVars,
           RemovalFits(q, calibre, theirs), q.at # "resolve"
    PROVE  DeletesFit'
<1>1. calibre' \subseteq calibre /\ listed' \subseteq CalEntry /\ RowsTyped(rows') /\ (Waits(rows') => Waits(rows))
  BY DeleteFacts
<1>2. RemovalFits(q, calibre', theirs)
  OBVIOUS
<1>3. QED
  BY <1>1, <1>2, RequestSteps

LEMMA AskFits ==
    ASSUME DeletesFit, NEW b \in CalBook, NEW u \in User, D!RequestDelete(b, u)
    PROVE  DeletesFit'
<1>1. /\ asking' = asking \cup {u} /\ UNCHANGED <<calibre, theirs, served, listed, removal>> /\ UNCHANGED D!bellVars
      /\ DeletesTyped /\ RemovalsFit /\ NoticeFits /\ RowsTyped(rows) /\ MaxRows \in Nat /\ D!BellOK /\ asking \subseteq User
  BY DeleteFacts, RemovalAssumption DEF D!RequestDelete
<1>2. RowsTyped(rows')
  <2>1. CASE UNCHANGED rows
    BY <1>1, <2>1
  <2>2. ASSUME NEW i \in 1..MaxRows, DOMAIN rows = 1..(i - 1),
               rows' = [j \in 1..i |-> IF j = i THEN [book |-> b, user |-> u, st |-> "pending"] ELSE rows[j]]
        PROVE  RowsTyped(rows')
    <3>1. [book |-> b, user |-> u, st |-> "pending"] \in RequestRow
      BY DEF RequestRow
    <3>2. \A j \in 1..i : j # i => j \in DOMAIN rows
      BY <2>2
    <3>3. 1..i \subseteq 1..MaxRows
      BY <1>1, <2>2
    <3>4. QED
      BY <1>1, <2>2, <3>1, <3>2, <3>3 DEF RowsTyped
  <2>3. QED
    BY <2>1, <2>2 DEF D!RequestDelete, D!Rows
<1>3. D!BellOK' /\ DCounted' /\ asking' # {} /\ asking' \subseteq User
  BY <1>1, DSameBell DEF NoticeFits
<1>4. DeletesTyped'
  BY <1>1, <1>2, <1>3 DEF DeletesTyped
<1>5. RemovalsFit' /\ NoticeFits'
  BY <1>1, <1>3 DEF RemovalsFit, NoticeFits
<1>6. QED
  BY <1>4, <1>5 DEF DeletesFit

\* The notice is written while somebody may be about to clear it, or cannot be.
LEMMA NotifyFits ==
    ASSUME DeletesFit, NEW u \in User, D!Notify(u)
    PROVE  DeletesFit' /\ theirs' = theirs
<1> DEFINE clearing == \E r \in Req : removal[r].at = "resolve"
<1>1. /\ asking' = asking \ {u} /\ UNCHANGED <<calibre, theirs, served, listed, rows, removal>>
      /\ DeletesTyped /\ RemovalsFit /\ D!BellOK /\ asking \subseteq User
      /\ D!Written(clearing) \/ D!NotWritten
  BY DeleteFacts DEF D!Notify
<1>2. clearing \in BOOLEAN
  BY Zenon
<1>3. D!BellOK' /\ DCounted' /\ D!Told' /\ (clearing => silent')
  <2> HIDE DEF clearing
  <2>1. QED
    BY <1>1, <1>2, DWrittenIs, DNotWrittenIs
<1>4. DeletesTyped'
  BY <1>1, <1>3 DEF DeletesTyped
<1>5. RemovalsFit' /\ NoticeFits'
  BY <1>1, <1>3 DEF RemovalsFit, NoticeFits
<1>6. QED
  BY <1>1, <1>4, <1>5 DEF DeletesFit

LEMMA StopFits ==
    ASSUME DeletesFit, D!Stop
    PROVE  DeletesFit' /\ theirs' = theirs
<1>1. /\ removal' = [r \in Req |-> D!Idle] /\ asking' = {} /\ UNCHANGED <<calibre, theirs, served, listed, rows>>
      /\ DeletesTyped /\ NoticeFits /\ D!BellOK /\ DCounted
      /\ asking # {} => D!NotWritten
      /\ asking = {} => UNCHANGED D!bellVars
  BY DeleteFacts DEF D!Stop
<1>2. D!BellOK' /\ DCounted' /\ (asking # {} \/ D!Told => D!Told')
  BY <1>1, DNotWrittenIs, DSameBell
<1>3. \A r \in Req : removal'[r] = D!Idle
  BY <1>1
<1>4. removal' \in [Req -> RemovalState]
  BY <1>1, IdleRemoval
<1>5. DeletesTyped'
  BY <1>1, <1>2, <1>4 DEF DeletesTyped
<1>6. RemovalsFit' /\ NoticeFits'
  BY <1>1, <1>2, <1>3, IdleRemoval DEF RemovalsFit, RemovalFits, NoticeFits
<1>7. QED
  BY <1>1, <1>5, <1>6 DEF DeletesFit

LEMMA RowsClosed ==
    ASSUME DeletesFit, NEW is, NEW st \in {"deleted", "closed"}, D!SetRows(is, st)
    PROVE  RowsTyped(rows') /\ (Waits(rows') => Waits(rows))
<1>1. st \in {"lost", "deleted", "closed"} /\ RowsTyped(rows)
  BY DeleteFacts
<1>2. rows' = [i \in DOMAIN rows |-> IF i \in is THEN [rows[i] EXCEPT !.st = st] ELSE rows[i]]
  BY DEF D!SetRows
<1>3. QED
  BY <1>1, <1>2, RowsDecided

\* Requests that are closed or marked deleted, and then counted.
LEMMA DecideFits ==
    ASSUME DeletesFit, NEW r \in Req, NEW is, NEW st \in {"deleted", "closed"}, D!SetRows(is, st),
           NEW q \in RemovalState, q.at = "count", removal' = [removal EXCEPT ![r] = q],
           UNCHANGED <<calibre, theirs, served, listed, asking>>, UNCHANGED D!bellVars
    PROVE  DeletesFit'
<1>1. RowsTyped(rows') /\ (Waits(rows') => Waits(rows))
  BY RowsClosed
<1>2. RemovalFits(q, calibre', theirs) /\ calibre' \subseteq calibre /\ listed' \subseteq CalEntry
  BY DeleteFacts DEF RemovalFits
<1>3. QED
  BY <1>1, <1>2, RequestSteps

\* A request that goes on to count.
LEMMA CountsNext ==
    ASSUME DeletesFit, NEW r \in Req, D!Go(r, "count")
    PROVE  \E q \in RemovalState : q.at = "count" /\ removal' = [removal EXCEPT ![r] = q]
<1> DEFINE q == DGoes(removal[r], "count")
<1>1. removal' = [removal EXCEPT ![r] = q]
  BY DEF D!Go, DGoes
<1>2. "count" \in RemovalStep /\ removal[r] \in RemovalState
  BY DeleteFacts DEF RemovalStep
<1>3. q \in RemovalState /\ q.at = "count"
  BY <1>2, DGoesFields
<1> HIDE DEF q
<1>4. QED
  BY <1>1, <1>3

LEMMA CountFits ==
    ASSUME DeletesFit, NEW r \in Req, D!Count(r)
    PROVE  DeletesFit'
<1> DEFINE q == IF D!PendingDeletes = {} THEN DGoes(removal[r], "resolve") ELSE D!Idle
<1>1. removal' = [removal EXCEPT ![r] = q] /\ UNCHANGED <<calibre, theirs, served, listed, rows, asking>> /\ UNCHANGED D!bellVars
  BY DEF D!Count, D!Go, DGoes
<1>2. q \in RemovalState /\ q.at \in {"resolve", "idle"} /\ (q.at = "resolve" => D!PendingDeletes = {})
  <2>1. "resolve" \in RemovalStep /\ removal[r] \in RemovalState
    BY DeleteFacts DEF RemovalStep
  <2>2. DGoes(removal[r], "resolve") \in RemovalState /\ DGoes(removal[r], "resolve").at = "resolve"
    BY <2>1, DGoesFields
  <2>3. QED
    BY <2>2, IdleRemoval
<1> HIDE DEF q
<1>3. RemovalFits(q, calibre', theirs) /\ (q.at = "resolve" => ~Waits(rows))
  BY <1>2 DEF RemovalFits, Waits, D!PendingDeletes
<1>4. QED
  BY <1>1, <1>2, <1>3, DeleteFacts, RequestSteps

LEMMA ResolveFits ==
    ASSUME DeletesFit, NEW r \in Req, D!ResolveDeleteNotice(r)
    PROVE  DeletesFit'
<1>1. /\ removal[r].at = "resolve" /\ D!Resolve /\ removal' = [removal EXCEPT ![r] = D!Idle]
      /\ UNCHANGED <<calibre, theirs, served, listed, rows, asking>>
  BY DEF D!ResolveDeleteNotice
<1>2. RemovalFits(D!Idle, calibre', theirs)
  BY IdleRemoval DEF RemovalFits
<1>3. QED
  BY <1>1, <1>2, IdleRemoval, DeleteFacts, RequestSteps

LEMMA WantFits ==
    ASSUME DeletesFit, NEW r \in Req, NEW bs \in SUBSET CalBook, D!HandleDecideDeletes(r, bs) \/ D!Review(r, bs)
    PROVE  DeletesFit'
<1>1. PICK q \in RemovalState : removal' = [removal EXCEPT ![r] = q] /\ q.at \in {"count", "ids", "reviewed"}
  <2>1. CASE D!HandleDecideDeletes(r, bs)
    <3> DEFINE es == {e \in listed : CopyOf[e] \in bs}
               v == IF es = {} THEN "count" ELSE "ids"
    <3>1. es \in SUBSET CalEntry /\ v \in RemovalStep /\ v \in {"count", "ids"}
      BY DeleteFacts DEF RemovalStep
    <3>2. removal' = [removal EXCEPT ![r] = DWants(v, es)]
      BY <2>1 DEF D!HandleDecideDeletes, DWants
    <3> HIDE DEF es, v
    <3>3. DWants(v, es) \in RemovalState /\ DWants(v, es).at = v
      BY <3>1, IdleRemoval DEF DWants, RemovalState
    <3>4. QED
      BY <3>1, <3>2, <3>3
  <2>2. CASE D!Review(r, bs)
    <3> DEFINE es == D!CalibreMatches(bs)
    <3>1. es \in SUBSET CalEntry
      BY DeleteFacts DEF D!CalibreMatches
    <3>2. removal' = [removal EXCEPT ![r] = DReviews(es)]
      BY <2>2 DEF D!Review, DReviews
    <3> HIDE DEF es
    <3>3. DReviews(es) \in RemovalState /\ DReviews(es).at = "reviewed"
      BY <3>1, IdleRemoval DEF DReviews, RemovalState, RemovalStep
    <3>4. QED
      BY <3>2, <3>3
  <2>3. QED
    BY <2>1, <2>2
<1>2. RemovalFits(q, calibre, theirs) /\ UNCHANGED <<calibre, theirs, served, listed, rows, asking>> /\ UNCHANGED D!bellVars
  BY <1>1 DEF RemovalFits, D!HandleDecideDeletes, D!Review
<1>3. QED
  BY <1>1, <1>2, RequestMoves

LEMMA IdsFits ==
    ASSUME DeletesFit, NEW r \in Req, D!PendingRequestIDs(r)
    PROVE  DeletesFit'
<1> DEFINE is == UNION {D!Pending(CopyOf[e]) : e \in removal[r].want}
           q == DCounts(removal[r], is)
<1>1. removal' = [removal EXCEPT ![r] = q] /\ UNCHANGED <<calibre, theirs, served, listed, rows, asking>> /\ UNCHANGED D!bellVars
  BY DEF D!PendingRequestIDs, DCounts
<1>2. is \in SUBSET (1..MaxRows) /\ removal[r] \in RemovalState
  BY DeleteFacts DEF D!Pending, RowsTyped
<1> HIDE DEF is
<1>3. q \in RemovalState /\ q.at = "titles"
  BY <1>2, DCountsFields
<1> HIDE DEF q
<1>4. RemovalFits(q, calibre, theirs)
  BY <1>3 DEF RemovalFits
<1>5. QED
  BY <1>1, <1>3, <1>4, RequestMoves

\* A request that ends here, with nothing removed now.
LEMMA IdleFits ==
    ASSUME DeletesFit, NEW r \in Req, removal' = [removal EXCEPT ![r] = D!Idle],
           UNCHANGED <<calibre, theirs, served, listed, rows, asking>> /\ UNCHANGED D!bellVars
    PROVE  DeletesFit'
  BY IdleRemoval, RequestMoves DEF RemovalFits

LEMMA AgreeFits ==
    ASSUME DeletesFit, NEW r \in Req, NEW bs \in SUBSET CalBook, D!HandleCalibreRemove(r, bs)
    PROVE  DeletesFit'
<1> DEFINE es == D!CalibreMatches(bs)
           q == DAgrees(removal[r], es)
<1>1. /\ removal' = [removal EXCEPT ![r] = q] \/ removal' = [removal EXCEPT ![r] = D!Idle]
      /\ UNCHANGED <<calibre, theirs, served, listed, rows, asking>> /\ UNCHANGED D!bellVars
  BY DEF D!HandleCalibreRemove, DAgrees
<1>2. es \in SUBSET CalEntry /\ removal[r] \in RemovalState
  BY DeleteFacts DEF D!CalibreMatches
<1> HIDE DEF es
<1>3. q \in RemovalState /\ q.at = "titles"
  BY <1>2, DAgreesFields
<1> HIDE DEF q
<1>4. RemovalFits(q, calibre, theirs)
  BY <1>3 DEF RemovalFits
<1>5. QED
  BY <1>1, <1>3, <1>4, RequestMoves, IdleFits

LEMMA CompareTitlesFits ==
    ASSUME DeletesFit, NEW r \in Req, D!Titles(r)
    PROVE  DeletesFit'
<1> DEFINE p == removal[r]
           es == p.want \cap D!Serves(served)
           q == DServes(p, served, es)
<1>1. /\ \/ (served = "same" \/ p.want \cap theirs = {}) /\ removal' = [removal EXCEPT ![r] = q]
         \/ removal' = [removal EXCEPT ![r] = D!Idle]
      /\ UNCHANGED <<calibre, theirs, served, listed, rows, asking>> /\ UNCHANGED D!bellVars
  BY DEF D!Titles, DServes
<1>2. p \in RemovalState /\ served \in {"same", "other"} /\ es \in SUBSET CalEntry
  BY DeleteFacts, RemovalFields
<1>3. q \in RemovalState /\ q.at = "remove" /\ q.want = p.want /\ q.left = es /\ q.on = served
  <2> HIDE DEF p, es
  <2>1. QED
    BY <1>2, DServesFields
<1> HIDE DEF q
<1>4. (served = "same" \/ p.want \cap theirs = {}) => RemovalFits(q, calibre, theirs)
  BY <1>3 DEF RemovalFits, D!Serves
<1>5. QED
  BY <1>1, <1>3, <1>4, RequestMoves, IdleFits

\* Of another library nothing is taken.
LEMMA TakenHere ==
    ASSUME DeletesFit, NEW r \in Req, removal[r].at = "remove", NEW part, D!Taken(r, part)
    PROVE  calibre' = calibre \ part /\ theirs' = theirs
<1>1. part # {} /\ part \subseteq removal[r].left /\ removal[r] \in RemovalState /\ RemovalFits(removal[r], calibre, theirs)
  BY DeleteFacts DEF D!Taken
<1>2. removal[r].on = "same"
  BY <1>1, RemovalFields DEF RemovalFits
<1>3. QED
  BY <1>2 DEF D!Taken

LEMMA BatchFits ==
    ASSUME DeletesFit, NEW r \in Req, D!Remove(r)
    PROVE  DeletesFit' /\ theirs' = theirs
<1> DEFINE p == removal[r]
<1>1. p.at = "remove" /\ UNCHANGED <<served, listed, rows, asking>> /\ UNCHANGED D!bellVars /\ p \in RemovalState /\ RemovalFits(p, calibre, theirs)
  BY DeleteFacts DEF D!Remove
<1>2. CASE p.left = {} /\ D!Go(r, "sync") /\ UNCHANGED <<calibre, theirs>>
  <2> DEFINE q == DGoes(p, "sync")
  <2>1. removal' = [removal EXCEPT ![r] = q]
    BY <1>2 DEF D!Go, DGoes
  <2>2. "sync" \in RemovalStep
    BY DEF RemovalStep
  <2>3. q \in RemovalState /\ q.at = "sync" /\ q.want = p.want /\ q.on = p.on
    <3> HIDE DEF p
    <3>1. QED
      BY <1>1, <2>2, DGoesFields
  <2> HIDE DEF q
  <2>4. RemovalFits(q, calibre, theirs)
    BY <1>1, <1>2, <2>3 DEF RemovalFits
  <2>5. QED
    BY <1>1, <1>2, <2>1, <2>3, <2>4, RequestMoves
<1>3. ASSUME NEW part \in SUBSET p.left, D!Taken(r, part),
             removal' = [removal EXCEPT ![r].left = p.left \ part] \/ removal' = [removal EXCEPT ![r] = D!Idle]
      PROVE  DeletesFit' /\ theirs' = theirs
  <2> DEFINE es == p.left \ part
             q == DLeaves(p, es)
  <2>1. calibre' = calibre \ part /\ theirs' = theirs
    BY <1>1, <1>3, TakenHere
  <2>2. es \in SUBSET CalEntry
    BY <1>1, RemovalFields
  <2>3. q \in RemovalState /\ q.at = p.at /\ q.want = p.want /\ q.left = es /\ q.on = p.on
    <3> HIDE DEF p, es
    <3>1. QED
      BY <1>1, <2>2, DLeavesFields
  <2>4. removal' = [removal EXCEPT ![r] = q] \/ removal' = [removal EXCEPT ![r] = D!Idle]
    BY <1>3 DEF DLeaves
  <2> HIDE DEF q
  <2>5. RemovalFits(q, calibre', theirs) /\ q.at # "resolve"
    BY <1>1, <2>1, <2>3 DEF RemovalFits
  <2>6. RemovalFits(D!Idle, calibre', theirs) /\ calibre' \subseteq calibre
    BY <2>1, IdleRemoval DEF RemovalFits
  <2>7. QED
    BY <1>1, <2>1, <2>3, <2>4, <2>5, <2>6, IdleRemoval, DeleteFacts, RequestSteps
<1>4. CASE removal' = [removal EXCEPT ![r] = D!Idle] /\ UNCHANGED <<calibre, theirs>>
  BY <1>1, <1>4, IdleFits
<1>5. QED
  BY <1>2, <1>3, <1>4 DEF D!Remove

LEMMA ReadFits ==
    ASSUME DeletesFit, D!Read
    PROVE  listed' \subseteq CalEntry /\ RowsTyped(rows') /\ (Waits(rows') => Waits(rows))
<1> DEFINE is == {i \in DOMAIN rows : rows[i].st = "pending" /\ rows[i].book \notin Elsewhere
                                        /\ ~\E e \in calibre : CopyOf[e] = rows[i].book}
<1>1. rows' = [i \in DOMAIN rows |-> IF i \in is THEN [rows[i] EXCEPT !.st = "lost"] ELSE rows[i]] /\ listed' = calibre
  BY DEF D!Read
<1> HIDE DEF is
<1>2. QED
  BY <1>1, DeleteFacts, RowsDecided

LEMMA AfterwardsFits ==
    ASSUME DeletesFit, NEW r \in Req, D!SyncAfter(r)
    PROVE  DeletesFit'
<1> DEFINE p == removal[r]
           q == IF p.kind = "hide" THEN D!Idle ELSE DGoes(p, "mark")
<1>1. /\ p.at = "sync" /\ removal' = [removal EXCEPT ![r] = q] /\ (D!Read \/ UNCHANGED <<listed, rows>>)
      /\ UNCHANGED <<calibre, theirs, served, asking>> /\ UNCHANGED D!bellVars /\ p \in RemovalState /\ RemovalFits(p, calibre, theirs)
  BY DeleteFacts DEF D!SyncAfter, DGoes
<1>2. q \in RemovalState /\ RemovalFits(q, calibre, theirs) /\ q.at # "resolve"
  <2>1. CASE p.kind = "hide"
    BY <2>1, IdleRemoval DEF RemovalFits
  <2>2. CASE p.kind # "hide"
    <3>1. "mark" \in RemovalStep
      BY DEF RemovalStep
    <3>2. /\ DGoes(p, "mark") \in RemovalState /\ DGoes(p, "mark").at = "mark" /\ DGoes(p, "mark").want = p.want
          /\ DGoes(p, "mark").on = p.on
      <4> HIDE DEF p
      <4>1. QED
        BY <1>1, <3>1, DGoesFields
    <3> HIDE DEF p
    <3>3. QED
      BY <1>1, <2>2, <3>2 DEF RemovalFits
  <2>3. QED
    BY <2>1, <2>2
<1> HIDE DEF q
<1>3. listed' \subseteq CalEntry /\ RowsTyped(rows') /\ (Waits(rows') => Waits(rows))
  BY <1>1, ReadFits, DeleteFacts
<1>4. QED
  BY <1>1, <1>2, <1>3, DeleteFacts, RequestSteps

LEMMA DeletesBegin ==
    D!Init => DeletesFit
<1> SUFFICES ASSUME D!Init
             PROVE  DeletesFit
  OBVIOUS
<1>1. /\ calibre = CalEntry /\ listed = CalEntry /\ theirs = Shared /\ served = "same" /\ rows = [i \in {} |-> 0]
      /\ asking = {} /\ ahead = MaxNotices /\ since = 0 /\ silent = FALSE /\ removal = [r \in Req |-> D!Idle]
  BY DEF D!Init, D!Empty
<1>2. \A r \in Req : removal[r] = D!Idle
  BY <1>1
<1>3. DOMAIN rows = {} /\ RowsTyped(rows) /\ ~Waits(rows)
  BY <1>1 DEF RowsTyped, Waits
<1>4. ahead \in 0..MaxNotices /\ since \in 0..MaxNotices /\ ~(ahead < MaxNotices)
  BY <1>1, RemovalAssumption
<1>5. silent \in BOOLEAN
  BY <1>1, Zenon
<1>6. D!BellOK /\ DCounted
  BY <1>4, <1>5, Zenon DEF D!BellOK, DCounted
<1>7. DeletesTyped
  <2>1. removal \in [Req -> RemovalState]
    BY <1>1, IdleRemoval
  <2>2. QED
    BY <1>1, <1>3, <1>6, <2>1, RemovalAssumption DEF DeletesTyped
<1>8. RemovalsFit /\ NoticeFits
  BY <1>2, <1>3, <1>6, IdleRemoval DEF RemovalsFit, RemovalFits, NoticeFits
<1>9. QED
  BY <1>7, <1>8 DEF DeletesFit

LEMMA DeletesGoOn ==
    DeletesFit /\ [D!Next]_deleteVars => DeletesFit' /\ theirs' = theirs
<1> SUFFICES ASSUME DeletesFit, [D!Next]_deleteVars
             PROVE  DeletesFit' /\ theirs' = theirs
  OBVIOUS
<1>1. ASSUME NEW e \in CalEntry, D!CalibreRemoves(e)
      PROVE  DeletesFit' /\ theirs' = theirs
  <2>1. calibre' = calibre \ {e} /\ UNCHANGED <<theirs, served, listed, rows, asking, removal>> /\ UNCHANGED D!bellVars
    BY <1>1 DEF D!CalibreRemoves
  <2>2. QED
    BY <2>1, DeleteFacts, ApartFits
<1>2. ASSUME NEW l \in D!Library, D!SaveServer(l)
      PROVE  DeletesFit' /\ theirs' = theirs
  <2>1. served' \in {"same", "other"} /\ UNCHANGED <<calibre, theirs, listed, rows, asking, removal>> /\ UNCHANGED D!bellVars
    BY <1>2 DEF D!SaveServer, D!Library
  <2>2. QED
    BY <2>1, DeleteFacts, ApartFits
<1>3. ASSUME NEW b \in CalBook, NEW u \in User, D!RequestDelete(b, u)
      PROVE  DeletesFit' /\ theirs' = theirs
  <2>1. theirs' = theirs
    BY <1>3 DEF D!RequestDelete
  <2>2. QED
    BY <1>3, <2>1, AskFits
<1>4. CASE D!Sync
  <2>1. D!Read /\ UNCHANGED <<calibre, theirs, served, asking, removal>> /\ UNCHANGED D!bellVars
    BY <1>4 DEF D!Sync
  <2>2. QED
    BY <2>1, ReadFits, DeleteFacts, ApartFits
<1>5. ASSUME NEW r \in Req, NEW b \in CalBook, NEW u \in User, D!CancelDelete(r, b, u)
      PROVE  DeletesFit' /\ theirs' = theirs
  <2>1. PICK i : D!SetRows({i}, "closed")
    BY <1>5 DEF D!CancelDelete
  <2>2. D!Go(r, "count") /\ UNCHANGED <<calibre, theirs, served, listed, asking>> /\ UNCHANGED D!bellVars
    BY <1>5 DEF D!CancelDelete
  <2>3. QED
    BY <2>1, <2>2, CountsNext, DecideFits
<1>6. ASSUME NEW r \in Req, NEW bs \in SUBSET CalBook, D!DecideDeletes(r, bs)
      PROVE  DeletesFit' /\ theirs' = theirs
  <2>1. /\ D!SetRows(UNION {D!Pending(b) : b \in bs}, "closed") /\ D!Go(r, "count")
        /\ UNCHANGED <<calibre, theirs, served, listed, asking>> /\ UNCHANGED D!bellVars
    BY <1>6 DEF D!DecideDeletes
  <2>2. QED
    BY <2>1, CountsNext, DecideFits
<1>7. ASSUME NEW r \in Req, D!DecideRequests(r)
      PROVE  DeletesFit' /\ theirs' = theirs
  <2> DEFINE q == DGoes(D!Idle, "count")
  <2>1. /\ D!SetRows({i \in removal[r].ids : rows[i].st \in {"pending", "lost"}}, "deleted")
        /\ UNCHANGED <<calibre, theirs, served, listed, asking>> /\ UNCHANGED D!bellVars
    BY <1>7 DEF D!DecideRequests
  <2>2. "count" \in RemovalStep
    BY DEF RemovalStep
  <2>3. removal' = [removal EXCEPT ![r] = q]
    BY <1>7 DEF D!DecideRequests, DGoes
  <2>4. q \in RemovalState /\ q.at = "count"
    BY <2>2, IdleRemoval, DGoesFields
  <2> HIDE DEF q
  <2>5. QED
    BY <2>1, <2>3, <2>4, DecideFits
<1>8. ASSUME NEW r \in Req, NEW bs \in SUBSET CalBook,
             D!HandleDecideDeletes(r, bs) \/ D!Review(r, bs) \/ D!HandleCalibreRemove(r, bs)
      PROVE  DeletesFit' /\ theirs' = theirs
  <2>1. theirs' = theirs
    BY <1>8 DEF D!HandleDecideDeletes, D!Review, D!HandleCalibreRemove
  <2>2. QED
    BY <1>8, <2>1, WantFits, AgreeFits
<1>9. ASSUME NEW r \in Req, \/ D!PendingRequestIDs(r) \/ D!Titles(r) \/ D!SyncAfter(r) \/ D!Count(r)
                            \/ D!ResolveDeleteNotice(r)
      PROVE  DeletesFit' /\ theirs' = theirs
  <2>1. theirs' = theirs
    BY <1>9 DEF D!PendingRequestIDs, D!Titles, D!SyncAfter, D!Count, D!ResolveDeleteNotice
  <2>2. QED
    BY <1>9, <2>1, IdsFits, CompareTitlesFits, AfterwardsFits, CountFits, ResolveFits
<1>10. ASSUME NEW r \in Req, D!Remove(r)
       PROVE  DeletesFit' /\ theirs' = theirs
  BY <1>10, BatchFits
<1>11. CASE UNCHANGED deleteVars
  <2>1. UNCHANGED <<calibre, theirs, served, listed, rows, asking, removal>> /\ UNCHANGED D!bellVars
    BY <1>11 DEF deleteVars, D!bellVars
  <2>2. QED
    BY <2>1, DeleteFacts, ApartFits
<1>12. ASSUME NEW u \in User, D!Notify(u)
       PROVE  DeletesFit' /\ theirs' = theirs
  BY <1>12, NotifyFits
<1>13. CASE D!Others
  <2>1. UNCHANGED <<calibre, theirs, served, listed, rows, asking, removal>> /\ D!BellNext
    BY <1>13 DEF D!Others
  <2>2. QED
    BY <2>1, DeleteFacts, ApartFits
<1>14. CASE D!Stop
  BY <1>14, StopFits
<1>15. QED
  BY <1>1, <1>2, <1>3, <1>4, <1>5, <1>6, <1>7, <1>8, <1>9, <1>10, <1>11, <1>12, <1>13, <1>14 DEF D!Next

LEMMA DeletesHold ==
    DeletesFit => D!TypeOK /\ D!WaitingIsTold /\ D!DeletedMeansRemoved
<1> SUFFICES ASSUME DeletesFit
             PROVE  D!TypeOK /\ D!WaitingIsTold /\ D!DeletedMeansRemoved
  OBVIOUS
<1>1. D!TypeOK
  <2>1. \A r \in Req : removal[r] \in RemovalState
    BY DeleteFacts
  <2>2. \A i \in DOMAIN rows : rows[i] \in D!Row
    BY DeleteFacts DEF RowsTyped, RequestRow, D!Row
  <2>3. \A r \in Req : /\ removal[r].at \in {"idle", "reviewed", "ids", "titles", "remove", "sync", "mark", "count", "resolve"}
                       /\ removal[r].kind \in {"delete", "hide"} /\ removal[r].on \in {"same", "other"}
                       /\ removal[r].want \subseteq CalEntry /\ removal[r].left \subseteq CalEntry
                       /\ removal[r].review \subseteq CalEntry /\ removal[r].ids \subseteq 1..MaxRows
    BY <2>1 DEF RemovalState, RemovalStep
  <2>4. QED
    BY <2>2, <2>3, DeleteFacts DEF D!TypeOK, D!Library, D!Rows, RowsTyped
<1>2. D!WaitingIsTold
  BY DeleteFacts DEF NoticeFits, Waits, D!WaitingIsTold, D!PendingDeletes
<1>3. D!DeletedMeansRemoved
  <2>1. ASSUME NEW r \in Req, D!DecideRequests(r)
        PROVE  removal[r].want \cap D!Serves(removal[r].on) = {}
    <3>1. removal[r].on \in {"same", "other"} /\ removal[r].at = "mark" /\ RemovalFits(removal[r], calibre, theirs)
      BY <2>1, DeleteFacts, RemovalFields DEF D!DecideRequests
    <3>2. QED
      BY <3>1 DEF RemovalFits, D!Serves
  <2>2. QED
    BY <2>1 DEF D!DeletedMeansRemoved
<1>4. QED
  BY <1>1, <1>2, <1>3

-----------------------------------------------------------------------------

DeletesFitHere == running = "deletes" => DeletesFit

\* Removals (deletes_handlers.go, calibresrv_handlers.go, notifications.go): for any entries,
\* books, people, requests, numbers two libraries share, and however many notices the bell keeps,
\* what waits for review is in the bell until somebody saw it, unless it could not be written, was
\* asked while the notice was being closed, or as many others came as are kept; when requests are
\* marked deleted none of the numbers is left, in any batch, in the library that was served; and a
\* library that is not NovelCheck's loses nothing.
THEOREM RemovalStaysSafe == Spec => RemovalIsSafe
<1>1. Init => DeletesFitHere
  BY DeletesBegin DEF Init, DeletesFitHere
<1>2. ASSUME [Next]_vars, running' = "deletes"
      PROVE  running = "deletes" /\ [D!Next]_deleteVars
  BY <1>2 DEF Next, vars
<1>3. DeletesFitHere /\ [Next]_vars => DeletesFitHere'
  BY <1>2, DeletesGoOn DEF DeletesFitHere
<1>4. DeletesFitHere => (running = "deletes" => D!TypeOK /\ D!WaitingIsTold)
  BY DeletesHold DEF DeletesFitHere
<1>5. DeletesFitHere /\ [Next]_vars => [running = "deletes" => D!DeletedMeansRemoved /\ D!OtherLibraryStays]_vars
  <2>1. ASSUME DeletesFitHere, [Next]_vars, running = "deletes"
        PROVE  (D!DeletedMeansRemoved /\ D!OtherLibraryStays) \/ UNCHANGED vars
    <3>1. running' = "deletes"
      BY <2>1 DEF Next, vars
    <3>2. DeletesFit /\ [D!Next]_deleteVars
      BY <1>2, <2>1, <3>1 DEF DeletesFitHere
    <3>3. QED
      BY <3>2, DeletesHold, DeletesGoOn DEF D!OtherLibraryStays
  <2>2. QED
    BY <2>1
<1>6. QED
  BY <1>1, <1>3, <1>4, <1>5, PTL DEF Spec, RemovalIsSafe

-----------------------------------------------------------------------------
(* Shelves.                                                                *)

CollRow == [kind : {"none", "manual", "ai", "idea", "deleted"}, season : BOOLEAN, books : SUBSET ShelfBook]
FillRow == [at : {"idle", "asked", "done"}, for : S!Shelf \cup {None}, skip : SUBSET ShelfBook, picks : SUBSET ShelfBook]

Placed ==
    /\ updated \in [Coll -> Nat]
    /\ \A c, d \in Coll : updated[c] = updated[d] /\ updated[c] # 0 => c = d

ShelfTyped ==
    /\ season \subseteq ShelfBook /\ fresh \in BOOLEAN
    /\ build \in [on : BOOLEAN, ids : SUBSET ShelfBook]
    /\ coll \in [Coll -> CollRow]
    /\ Placed
    /\ rejects \subseteq S!Shelf \X ShelfBook
    /\ taken \subseteq S!Shelf \X ShelfBook
    /\ overtook \subseteq taken
    /\ fill \in FillRow
    /\ ideas \in {"idle", "asked"} \cup Coll

\* The books that are to stay off, each with the shelf it was taken off.
Off == taken \ overtook

\* What was taken off is remembered, and of a collection that is not there nothing was.
Remembered ==
    /\ taken \subseteq rejects
    /\ \A c \in Coll : coll[c].kind \in {"none", "deleted"} => coll[c].books = {} /\ ~coll[c].season
    /\ \A c \in Coll, b \in ShelfBook : <<c, b>> \in taken => coll[c].kind # "none"

\* It is in no place the shelf is shown from, or will be when the build is done.
HiddenAt(n, b) ==
    /\ n \in Coll => b \notin coll[n].books
    /\ n = Season => /\ b \notin season
                     /\ build.on => b \notin build.ids
                     /\ \A c \in Coll : coll[c].season => b \notin coll[c].books

Hidden == \A n \in S!Shelf, b \in ShelfBook : <<n, b>> \in Off => HiddenAt(n, b)

\* A fill for the shelf leaves it out.
FillsFor(n) == fill.for = n \/ (n = Season /\ fill.for \in Coll /\ coll[fill.for].season)
SkipsBook(b) == /\ fill.at = "asked" => b \in fill.skip
                /\ fill.at = "done"  => b \notin fill.picks

LeftOut ==
    /\ fill.at # "idle" /\ fill.for \in Coll => coll[fill.for].kind # "none"
    /\ \A n \in S!Shelf, b \in ShelfBook : <<n, b>> \in Off /\ fill.at # "idle" /\ FillsFor(n) => SkipsBook(b)

\* The collection the ideas' loop is about to fill has no season and nothing taken off.
IdeaIsOpen ==
    ideas \in Coll => /\ ~coll[ideas].season /\ coll[ideas].kind # "none"
                      /\ \A b \in ShelfBook : <<ideas, b>> \notin Off

ShelvesFit == ShelfTyped /\ Remembered /\ Hidden /\ LeftOut /\ IdeaIsOpen

-----------------------------------------------------------------------------

LEMMA ShelvesAreApart ==
    /\ Season \notin Coll /\ None \notin Coll /\ None # Season /\ "idle" \notin Coll /\ "asked" \notin Coll
    /\ S!Shelf = Coll \cup {Season} /\ IsFiniteSet(Coll)
  BY ShelfAssumption DEF S!Shelf

LEMMA CollFields ==
    \A p \in CollRow : /\ p.kind \in {"none", "manual", "ai", "idea", "deleted"} /\ p.season \in BOOLEAN
                       /\ p.books \subseteq ShelfBook
  BY DEF CollRow

LEMMA FillFields ==
    \A p \in FillRow : /\ p.at \in {"idle", "asked", "done"} /\ p.for \in S!Shelf \cup {None}
                       /\ p.skip \subseteq ShelfBook /\ p.picks \subseteq ShelfBook
  BY DEF FillRow

\* What a collection becomes.
CMade(k, s, bs) == [kind |-> k, season |-> s, books |-> bs]
CHas(p, bs)     == [p EXCEPT !.books = bs]
CKept(p)        == [p EXCEPT !.kind = "ai"]
CDeleted(p)     == [p EXCEPT !.kind = "deleted"]

LEMMA CMadeFields ==
    ASSUME NEW k \in {"none", "manual", "ai", "idea", "deleted"}, NEW s \in BOOLEAN, NEW bs \in SUBSET ShelfBook
    PROVE  /\ CMade(k, s, bs) \in CollRow /\ CMade(k, s, bs).kind = k /\ CMade(k, s, bs).season = s
           /\ CMade(k, s, bs).books = bs
  BY DEF CollRow, CMade

LEMMA CHasFields ==
    ASSUME NEW p \in CollRow, NEW bs \in SUBSET ShelfBook
    PROVE  /\ CHas(p, bs) \in CollRow /\ CHas(p, bs).kind = p.kind /\ CHas(p, bs).season = p.season
           /\ CHas(p, bs).books = bs
  BY DEF CollRow, CHas

LEMMA CKeptFields ==
    ASSUME NEW p \in CollRow
    PROVE  /\ CKept(p) \in CollRow /\ CKept(p).kind = "ai" /\ CKept(p).season = p.season
           /\ CKept(p).books = p.books
  BY DEF CollRow, CKept

LEMMA CDeletedFields ==
    ASSUME NEW p \in CollRow
    PROVE  /\ CDeleted(p) \in CollRow /\ CDeleted(p).kind = "deleted" /\ CDeleted(p).season = p.season
           /\ CDeleted(p).books = p.books
  BY DEF CollRow, CDeleted

LEMMA GoneFields ==
    S!Gone \in CollRow /\ S!Gone.kind = "none" /\ S!Gone.season = FALSE /\ S!Gone.books = {}
<1>1. {} \in SUBSET ShelfBook /\ FALSE \in BOOLEAN
  OBVIOUS
<1>2. QED
  BY <1>1 DEF S!Gone, CollRow

LEMMA NoFillFields ==
    /\ S!NoFill \in FillRow /\ S!NoFill.at = "idle"
<1>1. {} \in SUBSET ShelfBook
  OBVIOUS
<1>2. QED
  BY <1>1 DEF S!NoFill, FillRow

LEMMA NoBuildFields ==
    /\ S!NoBuild \in [on : BOOLEAN, ids : SUBSET ShelfBook] /\ S!NoBuild.on = FALSE
<1>1. {} \in SUBSET ShelfBook /\ FALSE \in BOOLEAN
  OBVIOUS
<1>2. QED
  BY <1>1 DEF S!NoBuild

-----------------------------------------------------------------------------
(* The order of last changes, and the collection a season shows.           *)

\* Two places that are apart stay apart, whatever moves past the third.
LEMMA PlacesStayApart ==
    ASSUME NEW x \in Nat, NEW y \in Nat, NEW z \in Nat, x # y, x # z \/ x = 0, y # z \/ y = 0
    PROVE  /\ (IF x # 0 /\ (z = 0 \/ x < z) THEN x + 1 ELSE x) # (IF y # 0 /\ (z = 0 \/ y < z) THEN y + 1 ELSE y)
           /\ LET m == IF x > z THEN x - 1 ELSE x IN m # 0 => m # (IF y > z THEN y - 1 ELSE y)
<1>1. CASE x < y
  BY <1>1
<1>2. CASE y < x
  BY <1>2
<1>3. QED
  BY <1>1, <1>2

LEMMA TouchKeeps ==
    ASSUME Placed, NEW c \in Coll, S!Touch(c)
    PROVE  Placed'
<1>1. updated \in [Coll -> Nat] /\ \A d, e \in Coll : updated[d] = updated[e] /\ updated[d] # 0 => d = e
  BY DEF Placed
<1>2. \A d \in Coll : updated'[d] = IF d = c THEN 1 ELSE IF S!Before(d, c) THEN updated[d] + 1 ELSE updated[d]
  BY DEF S!Touch
<1>3. updated' \in [Coll -> Nat]
  <2>1. \A d \in Coll : (IF d = c THEN 1 ELSE IF S!Before(d, c) THEN updated[d] + 1 ELSE updated[d]) \in Nat
    BY <1>1
  <2>2. QED
    BY <2>1 DEF S!Touch
<1>4. ASSUME NEW d \in Coll, NEW e \in Coll, updated'[d] = updated'[e], updated'[d] # 0, d # e
      PROVE  FALSE
  <2>1. updated[d] \in Nat /\ updated[e] \in Nat /\ updated[c] \in Nat
    BY <1>1
  <2>2. ASSUME NEW x \in Coll, x # c, updated'[x] = 1
        PROVE  FALSE
    <3>1. updated[x] \in Nat /\ (updated[x] # updated[c] \/ updated[x] = 0)
      BY <1>1, <2>2
    <3>2. CASE S!Before(x, c)
      BY <3>2, <1>1, <1>2, <2>2 DEF S!Before
    <3>3. CASE ~S!Before(x, c)
      BY <3>1, <3>3, <1>1, <1>2, <2>1, <2>2 DEF S!Before
    <3>4. QED
      BY <3>2, <3>3
  <2>3. d # c /\ e # c
    BY <1>2, <1>4, <2>2
  <2>4. updated[d] # updated[e] \/ updated[d] = 0
    BY <1>1, <1>4
  <2>5. updated[d] # updated[c] \/ updated[d] = 0
    BY <1>1, <2>3
  <2>6. updated[e] # updated[c] \/ updated[e] = 0
    BY <1>1, <2>3
  <2>7. updated'[d] = IF S!Before(d, c) THEN updated[d] + 1 ELSE updated[d]
    BY <1>2, <2>3
  <2>8. updated'[e] = IF S!Before(e, c) THEN updated[e] + 1 ELSE updated[e]
    BY <1>2, <2>3
  <2>9. QED
    <3>1. CASE updated[d] = 0
      BY <1>4, <2>7, <3>1 DEF S!Before
    <3>2. CASE updated[d] # 0
      BY <1>4, <2>1, <2>4, <2>5, <2>6, <2>7, <2>8, <3>2, PlacesStayApart DEF S!Before
    <3>3. QED
      BY <3>1, <3>2
<1>5. QED
  BY <1>3, <1>4 DEF Placed

LEMMA LeaveKeeps ==
    ASSUME Placed, NEW c \in Coll, S!Leave(c)
    PROVE  Placed'
<1>1. updated \in [Coll -> Nat] /\ \A d, e \in Coll : updated[d] = updated[e] /\ updated[d] # 0 => d = e
  BY DEF Placed
<1>2. \A d \in Coll : updated'[d] = IF d = c THEN 0 ELSE IF updated[d] > updated[c] THEN updated[d] - 1 ELSE updated[d]
  BY DEF S!Leave
<1>3. updated' \in [Coll -> Nat]
  <2>1. \A d \in Coll : (IF d = c THEN 0 ELSE IF updated[d] > updated[c] THEN updated[d] - 1 ELSE updated[d]) \in Nat
    BY <1>1
  <2>2. QED
    BY <2>1 DEF S!Leave
<1>4. ASSUME NEW d \in Coll, NEW e \in Coll, updated'[d] = updated'[e], updated'[d] # 0, d # e
      PROVE  FALSE
  <2>1. updated[d] \in Nat /\ updated[e] \in Nat /\ updated[c] \in Nat
    BY <1>1
  <2>2. d # c /\ e # c
    BY <1>2, <1>4
  <2>3. updated[d] # updated[e] \/ updated[d] = 0
    BY <1>1, <1>4
  <2>4. updated[d] # updated[c] \/ updated[d] = 0
    BY <1>1, <2>2
  <2>5. updated[e] # updated[c] \/ updated[e] = 0
    BY <1>1, <2>2
  <2>6. updated'[d] = IF updated[d] > updated[c] THEN updated[d] - 1 ELSE updated[d]
    BY <1>2, <2>2
  <2>7. updated'[e] = IF updated[e] > updated[c] THEN updated[e] - 1 ELSE updated[e]
    BY <1>2, <2>2
  <2>8. QED
    <3>1. CASE updated[d] = 0
      BY <1>4, <2>1, <2>6, <3>1
    <3>2. CASE updated[d] # 0
      BY <1>4, <2>1, <2>3, <2>4, <2>5, <2>6, <2>7, <3>2, PlacesStayApart
    <3>3. QED
      BY <3>1, <3>2
<1>5. QED
  BY <1>3, <1>4 DEF Placed

\* Of a finite set some element has the least value: one with fewest below it.
LEMMA LeastValue ==
    ASSUME NEW es, IsFiniteSet(es), es # {}, NEW f \in [es -> Nat]
    PROVE  \E m \in es : \A x \in es : f[m] <= f[x]
<1> DEFINE Under(b) == {x \in es : f[x] < f[b]}
           unders == {Under(b) : b \in es}
<1>1. unders \subseteq SUBSET es /\ unders # {}
  <2>1. \A b \in es : Under(b) \in SUBSET es /\ Under(b) \in unders
    OBVIOUS
  <2>2. \A s \in unders : \E b \in es : s = Under(b)
    OBVIOUS
  <2> HIDE DEF unders, Under
  <2>3. QED
    BY <2>1, <2>2
<1>2. IsWellFoundedOn(StrictSubsetOrdering(es), SUBSET es)
  BY FS_StrictSubsetOrderingWellFounded, FS_FiniteSubsetsOfFinite
<1>3. PICK low \in unders : \A other \in unders : <<other, low>> \notin StrictSubsetOrdering(es)
  <2> HIDE DEF unders
  <2> QED
    BY <1>1, <1>2, WFMin
<1>4. PICK m \in es : low = Under(m)
  OBVIOUS
<1>5. ASSUME NEW x \in es, ~(f[m] <= f[x])
      PROVE  FALSE
  <2>1. \A z \in es : f[z] \in Nat
    OBVIOUS
  <2>2. f[x] < f[m] /\ ~(f[x] < f[x])
    BY <1>5, <2>1
  <2>3. x \in Under(m) /\ x \notin Under(x)
    BY <2>2
  <2>4. ASSUME NEW z \in Under(x)
        PROVE  z \in Under(m)
    <3>1. z \in es /\ f[z] < f[x]
      OBVIOUS
    <3>2. f[z] < f[m]
      BY <2>1, <2>2, <3>1
    <3>3. QED
      BY <3>1, <3>2
  <2>5. Under(x) \in unders /\ Under(x) # Under(m)
    BY <2>3
  <2>6. <<Under(x), low>> \in StrictSubsetOrdering(es)
    BY <2>4, <2>5, <1>1, <1>4 DEF StrictSubsetOrdering
  <2>7. QED
    BY <1>3, <2>5, <2>6
<1>6. QED
  BY <1>5

\* The collection shown is one of those built for the season, where there is one.
LEMMA SeasonIsBuilt ==
    ASSUME ShelfTyped
    PROVE  \/ S!SeasonCollection = None
           \/ /\ S!SeasonCollection \in Coll /\ coll[S!SeasonCollection].season
              /\ coll[S!SeasonCollection].kind \in {"manual", "ai"}
<1>1. CASE S!Built = {}
  BY <1>1 DEF S!SeasonCollection
<1>2. CASE S!Built # {}
  <2>1. S!Built \subseteq Coll /\ IsFiniteSet(S!Built)
    BY ShelvesAreApart, FS_Subset DEF S!Built
  <2>2. [c \in S!Built |-> updated[c]] \in [S!Built -> Nat]
    BY <2>1 DEF ShelfTyped, Placed
  <2>3. \E c \in S!Built : \A d \in S!Built : updated[c] <= updated[d]
    <3> DEFINE f == [c \in S!Built |-> updated[c]]
    <3>1. f \in [S!Built -> Nat] /\ \A c \in S!Built : f[c] = updated[c]
      BY <2>2
    <3> HIDE DEF f
    <3>2. \E c \in S!Built : \A d \in S!Built : f[c] <= f[d]
      BY <1>2, <2>1, <3>1, LeastValue
    <3>3. QED
      BY <3>1, <3>2
  <2>4. S!SeasonCollection \in S!Built
    BY <1>2, <2>3 DEF S!SeasonCollection
  <2>5. QED
    BY <2>4 DEF S!Built
<1>3. QED
  BY <1>1, <1>2

LEMMA NamesOfShelf ==
    ASSUME ShelvesFit, NEW n \in S!Shelf
    PROVE  /\ n \in S!ShelvesOf(n) /\ S!ShelvesOf(n) \subseteq S!Shelf
           /\ n \in Coll => (Season \in S!ShelvesOf(n) <=> coll[n].season) /\ S!ShelvesOf(n) \cap Coll = {n}
           /\ n = Season => S!ShelvesOf(n) \cap Coll = {S!SeasonCollection} \ {None}
<1>1. ShelfTyped
  BY DEF ShelvesFit
<1>2. CASE n = Season
  BY <1>1, <1>2, SeasonIsBuilt, ShelvesAreApart DEF S!ShelvesOf
<1>3. CASE n # Season
  <2>1. n \in Coll
    BY <1>3, ShelvesAreApart
  <2>2. S!ShelvesOf(n) = {n} \cup {Season : c \in {c \in {n} : coll[c].season}}
    BY <1>3 DEF S!ShelvesOf
  <2>3. S!ShelvesOf(n) = {n} \cup (IF coll[n].season THEN {Season} ELSE {})
    BY <2>2
  <2>4. QED
    BY <1>3, <2>1, <2>3, ShelvesAreApart
<1>4. QED
  BY <1>2, <1>3

-----------------------------------------------------------------------------

\* One collection becomes another row, by a person's hand, a fill or the ideas' loop.
LEMMA CollectionChanges ==
    ASSUME ShelvesFit, NEW c \in Coll, NEW w \in CollRow, coll' = [coll EXCEPT ![c] = w],
           w.kind # "none", w.season => coll[c].kind = "none" \/ coll[c].season,
           w.kind = "deleted" => w.books = {} /\ ~w.season,
           taken' \subseteq taken, overtook' \subseteq taken', Off' \subseteq Off,
           \A b \in w.books : <<c, b>> \notin Off' /\ (w.season => <<Season, b>> \notin Off'),
           Placed', fill' \in {fill, S!NoFill},
           ideas' \in {ideas, "idle"} \/ (ideas' = c /\ coll[c].kind = "none" /\ ~w.season),
           UNCHANGED <<fresh, season, build, rejects>>
    PROVE  ShelvesFit'
<1>1. ShelfTyped /\ Remembered /\ Hidden /\ LeftOut /\ IdeaIsOpen
  BY DEF ShelvesFit
<1>2. coll'[c] = w /\ (\A d \in Coll \ {c} : coll'[d] = coll[d]) /\ coll' \in [Coll -> CollRow]
  BY <1>1 DEF ShelfTyped
<1>3. \A n, b : <<n, b>> \in Off' => <<n, b>> \in Off
  OBVIOUS
<1>4. ShelfTyped'
  <2>1. fill' \in FillRow
    BY <1>1, NoFillFields DEF ShelfTyped
  <2>2. ideas' \in {"idle", "asked"} \cup Coll
    BY <1>1 DEF ShelfTyped
  <2>3. taken' \subseteq S!Shelf \X ShelfBook
    BY <1>1 DEF ShelfTyped
  <2>4. QED
    BY <1>1, <1>2, <2>1, <2>2, <2>3 DEF ShelfTyped
<1>5. Remembered'
  <2>1. taken' \subseteq rejects'
    BY <1>1 DEF Remembered
  <2>2. \A d \in Coll : coll'[d].kind \in {"none", "deleted"} => coll'[d].books = {} /\ ~coll'[d].season
    BY <1>1, <1>2 DEF Remembered
  <2>3. \A d \in Coll, b \in ShelfBook : <<d, b>> \in taken' => coll'[d].kind # "none"
    BY <1>1, <1>2 DEF Remembered
  <2>4. QED
    BY <2>1, <2>2, <2>3 DEF Remembered
<1>6. Hidden'
  <2>1. ASSUME NEW n \in S!Shelf, NEW b \in ShelfBook, <<n, b>> \in Off'
        PROVE  HiddenAt(n, b)'
    <3>1. HiddenAt(n, b)
      BY <1>1, <1>3, <2>1 DEF Hidden
    <3>2. n \in Coll => b \notin coll'[n].books
      <4>1. CASE n = c
        BY <2>1, <4>1, <1>2
      <4>2. CASE n # c
        BY <3>1, <4>2, <1>2 DEF HiddenAt
      <4>3. QED
        BY <4>1, <4>2
    <3>3. n = Season => \A d \in Coll : coll'[d].season => b \notin coll'[d].books
      <4>1. CASE n = Season /\ w.season
        BY <2>1, <3>1, <4>1, <1>2 DEF HiddenAt
      <4>2. CASE n = Season /\ ~w.season
        BY <3>1, <4>2, <1>2 DEF HiddenAt
      <4>3. QED
        BY <4>1, <4>2
    <3>4. n = Season => b \notin season' /\ (build'.on => b \notin build'.ids)
      BY <3>1 DEF HiddenAt
    <3>5. QED
      BY <3>2, <3>3, <3>4 DEF HiddenAt
  <2>2. QED
    BY <2>1 DEF Hidden
<1>7. LeftOut'
  <2>1. CASE fill' = S!NoFill
    BY <2>1, NoFillFields DEF LeftOut
  <2>2. CASE fill' = fill
    <3>1. fill.at # "idle" /\ fill.for \in Coll => coll'[fill.for].kind # "none"
      BY <1>1, <1>2 DEF LeftOut
    <3>2. ASSUME NEW n \in S!Shelf, NEW b \in ShelfBook, <<n, b>> \in Off', fill.at # "idle", FillsFor(n)'
          PROVE  SkipsBook(b)'
      <4>1. fill.for \in Coll => coll[fill.for].kind # "none"
        BY <1>1, <3>2 DEF LeftOut
      <4>2. fill.for \in Coll /\ coll'[fill.for].season => coll[fill.for].season
        BY <1>2, <4>1
      <4>3. FillsFor(n)
        BY <3>2, <2>2, <4>2 DEF FillsFor
      <4>4. SkipsBook(b)
        BY <1>1, <1>3, <3>2, <4>3 DEF LeftOut
      <4>5. QED
        BY <2>2, <4>4 DEF SkipsBook
    <3>3. QED
      BY <2>2, <3>1, <3>2 DEF LeftOut
  <2>3. QED
    BY <2>1, <2>2
<1>8. IdeaIsOpen'
  <2>1. CASE ideas' = "idle"
    BY <2>1, ShelvesAreApart DEF IdeaIsOpen
  <2>2. CASE ideas' = ideas /\ ideas \in Coll
    <3>1. ~coll[ideas].season /\ coll[ideas].kind # "none" /\ \A b \in ShelfBook : <<ideas, b>> \notin Off
      BY <1>1, <2>2 DEF IdeaIsOpen
    <3>2. ~coll'[ideas].season /\ coll'[ideas].kind # "none"
      BY <1>2, <2>2, <3>1
    <3>3. QED
      BY <1>3, <2>2, <3>1, <3>2 DEF IdeaIsOpen
  <2>3. CASE ideas' = c /\ coll[c].kind = "none" /\ ~w.season
    <3>1. \A b \in ShelfBook : <<c, b>> \notin Off
      BY <1>1, <2>3 DEF Remembered, Off
    <3>2. QED
      BY <1>2, <1>3, <2>3, <3>1 DEF IdeaIsOpen
  <2>4. QED
    BY <2>1, <2>2, <2>3 DEF IdeaIsOpen
<1>9. QED
  BY <1>4, <1>5, <1>6, <1>7, <1>8 DEF ShelvesFit

-----------------------------------------------------------------------------

LEMMA NewCollectionKeeps ==
    ASSUME ShelvesFit, NEW c \in Coll, NEW bs \in SUBSET ShelfBook, S!NewCollection(c, bs)
    PROVE  ShelvesFit'
<1>1. ShelfTyped /\ Remembered /\ coll[c].kind = "none" /\ coll' = [coll EXCEPT ![c] = CMade("manual", FALSE, bs)] /\ S!Touch(c)
      /\ UNCHANGED <<fresh, season, build, rejects, fill, ideas, taken, overtook>>
  BY DEF S!NewCollection, S!CreateCollection, S!Fresh, CMade, ShelvesFit
<1>2. CMade("manual", FALSE, bs) \in CollRow /\ CMade("manual", FALSE, bs).kind = "manual" /\ CMade("manual", FALSE, bs).season = FALSE
      /\ CMade("manual", FALSE, bs).books = bs
  BY CMadeFields
<1>3. \A b \in bs : <<c, b>> \notin Off'
  BY <1>1 DEF Remembered, Off
<1>4. overtook \subseteq taken /\ Off' = Off
  BY <1>1 DEF ShelfTyped, Off
<1>5. Placed'
  BY <1>1, TouchKeeps DEF ShelfTyped
<1> DEFINE w == CMade("manual", FALSE, bs)
<1> HIDE DEF w
<1>6. coll' = [coll EXCEPT ![c] = w] /\ w \in CollRow /\ w.kind = "manual" /\ w.season = FALSE /\ w.books = bs
  BY <1>1, <1>2 DEF w
<1>7. QED
  BY <1>1, <1>3, <1>4, <1>5, <1>6, CollectionChanges

LEMMA AddToCollectionKeeps ==
    ASSUME ShelvesFit, NEW c \in Coll, NEW b \in ShelfBook, S!AddToCollection(c, b)
    PROVE  ShelvesFit'
<1>1. ShelfTyped /\ Hidden /\ coll[c].kind \in {"manual", "ai", "idea"} /\ coll' = [coll EXCEPT ![c].books = @ \cup {b}] /\ S!Touch(c)
      /\ S!PutBack(c, {b}) /\ UNCHANGED <<fresh, season, build, rejects, fill, ideas>>
  BY DEF S!AddToCollection, S!Exists, ShelvesFit
<1> DEFINE p == coll[c]
           w == CHas(p, p.books \cup {b})
<1>2. p \in CollRow /\ p.books \subseteq ShelfBook
  BY <1>1, CollFields DEF ShelfTyped
<1>3. coll' = [coll EXCEPT ![c] = w]
  BY <1>1 DEF CHas
<1>4. p.kind \in {"manual", "ai", "idea"} /\ p = coll[c]
  BY <1>1
<1> HIDE DEF p
<1>5. w \in CollRow /\ w.kind = p.kind /\ w.season = p.season /\ w.books = p.books \cup {b}
  BY <1>2, CHasFields
<1> HIDE DEF w
<1>6. coll'[c] = w
  BY <1>1, <1>3 DEF ShelfTyped
<1>7. \E names : /\ c \in names /\ (w.season => Season \in names)
                 /\ taken' = taken \ (names \X {b}) /\ overtook' = overtook \ (names \X {b})
  <2> DEFINE names == {c} \cup {Season : x \in {x \in {c} : coll'[x].season}}
  <2>1. c \in names /\ (w.season => Season \in names)
    BY <1>6
  <2>2. taken' = taken \ (names \X {b}) /\ overtook' = overtook \ (names \X {b})
    BY <1>1 DEF S!PutBack
  <2> HIDE DEF names
  <2>3. QED
    BY <2>1, <2>2
<1>8. PICK names : /\ c \in names /\ (w.season => Season \in names)
                   /\ taken' = taken \ (names \X {b}) /\ overtook' = overtook \ (names \X {b})
  BY <1>7
<1>9. overtook \subseteq taken
  BY <1>1 DEF ShelfTyped
<1>10. taken' \subseteq taken /\ overtook' \subseteq taken' /\ Off' \subseteq Off
  BY <1>8, <1>9 DEF Off
<1>11. \A x \in names : <<x, b>> \notin taken'
  BY <1>8
<1>12. ASSUME NEW y \in w.books
       PROVE  <<c, y>> \notin Off' /\ (w.season => <<Season, y>> \notin Off')
  <2>1. CASE y = b
    BY <1>8, <1>11, <2>1 DEF Off
  <2>2. CASE y # b
    <3>1. y \in p.books /\ y \in ShelfBook
      BY <1>2, <1>5, <2>2
    <3>2. <<c, y>> \notin Off
      BY <1>1, <1>4, <3>1, ShelvesAreApart DEF Hidden, HiddenAt
    <3>3. w.season => <<Season, y>> \notin Off
      BY <1>1, <1>4, <1>5, <3>1, ShelvesAreApart DEF Hidden, HiddenAt
    <3>4. QED
      BY <1>10, <3>2, <3>3
  <2>3. QED
    BY <2>1, <2>2
<1>13. Placed'
  BY <1>1, TouchKeeps DEF ShelfTyped
<1>14. w.kind # "none" /\ w.kind # "deleted"
  BY <1>4, <1>5
<1>15. QED
  BY <1>1, <1>3, <1>4, <1>5, <1>10, <1>12, <1>13, <1>14, CollectionChanges

\* The books a collection has are not to be off it.
LEMMA OwnBooksStay ==
    ASSUME ShelvesFit, NEW c \in Coll, NEW y \in coll[c].books
    PROVE  <<c, y>> \notin Off /\ (coll[c].season => <<Season, y>> \notin Off)
<1>1. y \in ShelfBook
  BY CollFields DEF ShelvesFit, ShelfTyped
<1>2. QED
  BY <1>1, ShelvesAreApart DEF ShelvesFit, Hidden, HiddenAt

LEMMA RemoveFromCollectionKeeps ==
    ASSUME ShelvesFit, NEW c \in Coll, NEW b \in ShelfBook, S!RemoveFromCollection(c, b)
    PROVE  ShelvesFit'
<1>1. ShelfTyped /\ Remembered /\ b \in coll[c].books /\ coll' = [coll EXCEPT ![c].books = @ \ {b}]
      /\ UNCHANGED <<fresh, season, build, updated, rejects, fill, ideas, taken, overtook>>
  BY DEF S!RemoveFromCollection, ShelvesFit
<1> DEFINE p == coll[c]
           w == CHas(p, p.books \ {b})
<1>2. p \in CollRow /\ p.books \subseteq ShelfBook
  BY <1>1, CollFields DEF ShelfTyped
<1>3. coll' = [coll EXCEPT ![c] = w]
  BY <1>1 DEF CHas
<1>4. p.kind \notin {"none", "deleted"} /\ p = coll[c]
  BY <1>1 DEF Remembered
<1> HIDE DEF p
<1>5. w \in CollRow /\ w.kind = p.kind /\ w.season = p.season /\ w.books = p.books \ {b}
  BY <1>2, CHasFields
<1> HIDE DEF w
<1>6. overtook \subseteq taken /\ Off' = Off
  BY <1>1 DEF ShelfTyped, Off
<1>7. \A y \in w.books : <<c, y>> \notin Off' /\ (w.season => <<Season, y>> \notin Off')
  BY <1>4, <1>5, <1>6, OwnBooksStay
<1>8. Placed'
  BY <1>1 DEF ShelfTyped, Placed
<1>9. QED
  BY <1>1, <1>3, <1>4, <1>5, <1>6, <1>7, <1>8, CollectionChanges

LEMMA KeepIdeaKeeps ==
    ASSUME ShelvesFit, NEW c \in Coll, S!KeepIdea(c)
    PROVE  ShelvesFit'
<1>1. ShelfTyped /\ coll[c].kind = "idea" /\ coll' = [coll EXCEPT ![c].kind = "ai"] /\ S!Touch(c)
      /\ UNCHANGED <<fresh, season, build, rejects, fill, ideas, taken, overtook>>
  BY DEF S!KeepIdea, ShelvesFit
<1> DEFINE p == coll[c]
           w == CKept(p)
<1>2. p \in CollRow
  BY <1>1 DEF ShelfTyped
<1>3. coll' = [coll EXCEPT ![c] = w]
  BY <1>1 DEF CKept
<1>4. p = coll[c]
  OBVIOUS
<1> HIDE DEF p
<1>5. w \in CollRow /\ w.kind = "ai" /\ w.season = p.season /\ w.books = p.books
  BY <1>2, CKeptFields
<1> HIDE DEF w
<1>6. overtook \subseteq taken /\ Off' = Off
  BY <1>1 DEF ShelfTyped, Off
<1>7. \A y \in w.books : <<c, y>> \notin Off' /\ (w.season => <<Season, y>> \notin Off')
  BY <1>4, <1>5, <1>6, OwnBooksStay
<1>8. Placed'
  BY <1>1, TouchKeeps DEF ShelfTyped
<1>9. QED
  BY <1>1, <1>3, <1>4, <1>5, <1>6, <1>7, <1>8, CollectionChanges

LEMMA DeleteCollectionKeeps ==
    ASSUME ShelvesFit, NEW c \in Coll, S!DeleteCollection(c)
    PROVE  ShelvesFit'
<1> DEFINE w == [S!Gone EXCEPT !.kind = "deleted"]
<1>1. ShelfTyped /\ coll' = [coll EXCEPT ![c] = w] /\ S!Leave(c)
      /\ taken' = taken \ ({c} \X ShelfBook) /\ overtook' = overtook \ ({c} \X ShelfBook)
      /\ UNCHANGED <<fresh, season, build, rejects, fill, ideas>>
  BY DEF S!DeleteCollection, ShelvesFit
<1>2. w \in CollRow /\ w.kind = "deleted" /\ w.season = FALSE /\ w.books = {}
  <2>1. w = CDeleted(S!Gone)
    BY DEF CDeleted
  <2>2. QED
    BY <2>1, GoneFields, CDeletedFields
<1> HIDE DEF w
<1>3. taken' \subseteq taken /\ overtook' \subseteq taken' /\ Off' \subseteq Off
  BY <1>1 DEF ShelfTyped, Off
<1>4. Placed'
  BY <1>1, LeaveKeeps DEF ShelfTyped
<1>5. QED
  BY <1>1, <1>2, <1>3, <1>4, CollectionChanges

LEMMA MakeIdeasKeeps ==
    ASSUME ShelvesFit, NEW c \in Coll, S!MakeIdeas(c)
    PROVE  ShelvesFit'
<1> DEFINE w == CMade("idea", FALSE, {})
<1>1. ShelfTyped /\ coll[c].kind = "none" /\ coll' = [coll EXCEPT ![c] = w] /\ S!Touch(c) /\ ideas' = c
      /\ UNCHANGED <<fresh, season, build, rejects, fill, taken, overtook>>
  BY DEF S!MakeIdeas, S!CreateCollection, S!Fresh, CMade, ShelvesFit
<1>2. w \in CollRow /\ w.kind = "idea" /\ w.season = FALSE /\ w.books = {}
  BY CMadeFields
<1> HIDE DEF w
<1>3. overtook \subseteq taken /\ Off' = Off
  BY <1>1 DEF ShelfTyped, Off
<1>4. Placed'
  BY <1>1, TouchKeeps DEF ShelfTyped
<1>5. QED
  BY <1>1, <1>2, <1>3, <1>4, CollectionChanges

LEMMA FillIdeaKeeps ==
    ASSUME ShelvesFit, NEW bs \in SUBSET ShelfBook, S!FillIdea(bs)
    PROVE  ShelvesFit'
<1>1. ShelfTyped /\ Remembered /\ IdeaIsOpen /\ ideas \in Coll /\ ideas' = "idle"
      /\ UNCHANGED <<fresh, season, build, rejects, fill, taken, overtook>>
  BY DEF S!FillIdea, ShelvesFit
<1> DEFINE c == ideas
           p == coll[c]
           w == CHas(p, p.books \cup bs)
<1>2. overtook \subseteq taken /\ Off' = Off /\ p \in CollRow /\ p.books \subseteq ShelfBook /\ c \in Coll /\ p = coll[c]
  BY <1>1, CollFields DEF ShelfTyped, Off
<1>3. ~p.season /\ p.kind # "none" /\ \A b \in ShelfBook : <<c, b>> \notin Off
  BY <1>1 DEF IdeaIsOpen
<1>4. CASE S!Exists(c)
  <2>1. coll' = [coll EXCEPT ![c] = w] /\ S!Touch(c)
    BY <1>4 DEF S!FillIdea, CHas
  <2>2. p.kind # "deleted"
    BY <1>4 DEF S!Exists
  <2>3. w \in CollRow /\ w.kind = p.kind /\ w.season = p.season /\ w.books = p.books \cup bs
    <3> HIDE DEF p
    <3>1. QED
      BY <1>2, CHasFields
  <2> HIDE DEF w, p, c
  <2>4. Placed'
    BY <1>1, <1>2, <2>1, TouchKeeps DEF ShelfTyped
  <2>5. \A y \in w.books : <<c, y>> \notin Off'
    BY <1>2, <1>3, <2>3
  <2>6. QED
    BY <1>1, <1>2, <1>3, <2>1, <2>2, <2>3, <2>4, <2>5, CollectionChanges
<1>5. CASE ~S!Exists(c)
  <2>1. UNCHANGED <<coll, updated>>
    BY <1>5 DEF S!FillIdea
  <2>2. ShelfTyped'
    BY <1>1, <2>1 DEF ShelfTyped, Placed
  <2>3. Remembered' /\ Hidden' /\ LeftOut'
    BY <1>1, <2>1 DEF ShelvesFit, Remembered, Hidden, HiddenAt, LeftOut, FillsFor, SkipsBook, Off
  <2>4. IdeaIsOpen'
    BY <1>1, ShelvesAreApart DEF IdeaIsOpen
  <2>5. QED
    BY <2>2, <2>3, <2>4 DEF ShelvesFit
<1>6. QED
  BY <1>4, <1>5

LEMMA SaveFillKeeps ==
    ASSUME ShelvesFit, NEW c \in Coll, NEW ids \in SUBSET ShelfBook, S!SaveFill(c, ids)
    PROVE  ShelvesFit'
<1>1. ShelfTyped /\ Remembered /\ LeftOut /\ fill.at = "done" /\ ids # {} /\ ids \subseteq fill.picks /\ fill' = S!NoFill
      /\ UNCHANGED <<fresh, season, build, rejects, ideas, taken, overtook>>
  BY DEF S!SaveFill, ShelvesFit
<1>2. overtook \subseteq taken /\ Off' = Off
  BY <1>1 DEF ShelfTyped, Off
<1>3. CASE fill.for \in Coll
  <2>1. c = fill.for /\ coll[c].kind \in {"manual", "ai", "idea"} /\ coll' = [coll EXCEPT ![c].books = @ \cup ids] /\ S!Touch(c)
    BY <1>3 DEF S!SaveFill, S!Exists
  <2> DEFINE p == coll[c]
             w == CHas(p, p.books \cup ids)
  <2>2. p \in CollRow /\ p.books \subseteq ShelfBook
    BY <1>1, CollFields DEF ShelfTyped
  <2>3. coll' = [coll EXCEPT ![c] = w] /\ p = coll[c]
    BY <2>1 DEF CHas
  <2> HIDE DEF p
  <2>4. w \in CollRow /\ w.kind = p.kind /\ w.season = p.season /\ w.books = p.books \cup ids
    BY <2>2, CHasFields
  <2> HIDE DEF w
  <2>5. \A y \in ids : <<c, y>> \notin Off /\ (p.season => <<Season, y>> \notin Off)
    BY <1>1, <2>1, <2>3, ShelvesAreApart DEF LeftOut, FillsFor, SkipsBook
  <2>6. \A y \in p.books : <<c, y>> \notin Off /\ (p.season => <<Season, y>> \notin Off)
    BY <2>3, OwnBooksStay
  <2>7. \A y \in w.books : <<c, y>> \notin Off' /\ (w.season => <<Season, y>> \notin Off')
    BY <1>2, <2>4, <2>5, <2>6
  <2>8. Placed'
    BY <1>1, <2>1, TouchKeeps DEF ShelfTyped
  <2>9. w.kind # "none" /\ w.kind # "deleted"
    BY <2>1, <2>3, <2>4
  <2>10. QED
    BY <1>1, <1>2, <2>3, <2>4, <2>7, <2>8, <2>9, CollectionChanges
<1>4. CASE fill.for \notin Coll
  <2> DEFINE w == CMade("ai", fill.for = Season, ids)
  <2>1. coll[c].kind = "none" /\ coll' = [coll EXCEPT ![c] = w] /\ S!Touch(c)
    BY <1>4 DEF S!SaveFill, S!CreateCollection, S!Fresh, CMade
  <2>2. w \in CollRow /\ w.kind = "ai" /\ w.season = (fill.for = Season) /\ w.books = ids
    <3> DEFINE forSeason == fill.for = Season
    <3>1. forSeason \in BOOLEAN
      OBVIOUS
    <3> HIDE DEF forSeason
    <3>2. /\ CMade("ai", forSeason, ids) \in CollRow /\ CMade("ai", forSeason, ids).kind = "ai"
          /\ CMade("ai", forSeason, ids).season = forSeason /\ CMade("ai", forSeason, ids).books = ids
      BY <3>1, CMadeFields
    <3>3. QED
      BY <3>2 DEF forSeason
  <2> HIDE DEF w
  <2>3. \A y \in ids : <<c, y>> \notin Off
    BY <1>1, <2>1 DEF Remembered, Off
  <2>4. fill.for = Season => \A y \in ids : <<Season, y>> \notin Off
    BY <1>1, ShelvesAreApart DEF LeftOut, FillsFor, SkipsBook
  <2>5. Placed'
    BY <1>1, <2>1, TouchKeeps DEF ShelfTyped
  <2>6. \A y \in w.books : <<c, y>> \notin Off' /\ (w.season => <<Season, y>> \notin Off')
    BY <1>2, <2>2, <2>3, <2>4
  <2>7. QED
    BY <1>1, <1>2, <2>1, <2>2, <2>5, <2>6, CollectionChanges
<1>5. QED
  BY <1>3, <1>4

-----------------------------------------------------------------------------

\* The season's cache, and a change that shows only in the order.
LEMMA SeasonKeeps ==
    ASSUME ShelvesFit, UNCHANGED <<coll, rejects, fill, ideas, taken, overtook>>, Placed', fresh' \in BOOLEAN,
           \/ UNCHANGED <<season, build>>
           \/ build' = S!NoBuild /\ (season' = season \/ (build.on /\ season' = build.ids))
           \/ season' = season /\ build'.on = TRUE /\ build' \in [on : BOOLEAN, ids : SUBSET ShelfBook]
              /\ \A b \in build'.ids : <<Season, b>> \notin rejects
    PROVE  ShelvesFit'
<1>1. ShelfTyped /\ Remembered /\ Hidden /\ Off' = Off
  BY DEF ShelvesFit, Off
<1>2. ShelfTyped'
  <2>1. build \in [on : BOOLEAN, ids : SUBSET ShelfBook] /\ build.ids \subseteq ShelfBook
    BY <1>1 DEF ShelfTyped
  <2>2. build' \in [on : BOOLEAN, ids : SUBSET ShelfBook] /\ season' \subseteq ShelfBook
    BY <1>1, <2>1, NoBuildFields DEF ShelfTyped
  <2>3. QED
    BY <1>1, <2>2 DEF ShelfTyped
<1>3. Remembered' /\ LeftOut' /\ IdeaIsOpen'
  BY <1>1 DEF ShelvesFit, Remembered, LeftOut, FillsFor, SkipsBook, IdeaIsOpen
<1>4. Hidden'
  <2>1. ASSUME NEW n \in S!Shelf, NEW b \in ShelfBook, <<n, b>> \in Off
        PROVE  HiddenAt(n, b)'
    <3>1. HiddenAt(n, b) /\ <<n, b>> \in rejects
      BY <1>1, <2>1 DEF Hidden, Remembered, Off
    <3>2. n = Season => b \notin season' /\ (build'.on => b \notin build'.ids)
      BY <3>1, NoBuildFields DEF HiddenAt
    <3>3. QED
      BY <3>1, <3>2 DEF HiddenAt
  <2>2. QED
    BY <1>1, <2>1 DEF Hidden
<1>5. QED
  BY <1>2, <1>3, <1>4 DEF ShelvesFit

LEMMA SeasonStepKeeps ==
    ASSUME ShelvesFit,
           \/ S!Old \/ S!Store \/ S!Fail \/ (\E bs \in SUBSET ShelfBook : S!SeasonReady(bs)) \/ (\E c \in Coll : S!UpdateCollection(c))
    PROVE  ShelvesFit'
<1>1. ShelfTyped /\ Placed /\ fresh \in BOOLEAN
  BY DEF ShelvesFit, ShelfTyped
<1>2. CASE S!Old \/ S!Store \/ S!Fail
  <2>1. Placed' /\ fresh' \in BOOLEAN /\ UNCHANGED <<coll, rejects, fill, ideas, taken, overtook>>
    BY <1>1, <1>2 DEF S!Old, S!Store, S!Fail, Placed
  <2>2. UNCHANGED <<season, build>> \/ (build' = S!NoBuild /\ (season' = season \/ (build.on /\ season' = build.ids)))
    BY <1>2 DEF S!Old, S!Store, S!Fail
  <2>3. QED
    BY <2>1, <2>2, SeasonKeeps
<1>3. ASSUME NEW bs \in SUBSET ShelfBook, S!SeasonReady(bs)
      PROVE  ShelvesFit'
  <2> DEFINE unbarred == {b \in bs : <<Season, b>> \notin rejects}
  <2>1. build' = [on |-> TRUE, ids |-> unbarred] /\ unbarred \in SUBSET ShelfBook /\ \A b \in unbarred : <<Season, b>> \notin rejects
    BY <1>3 DEF S!SeasonReady
  <2>2. Placed' /\ fresh' \in BOOLEAN /\ UNCHANGED <<coll, rejects, fill, ideas, taken, overtook>> /\ season' = season
    BY <1>1, <1>3 DEF S!SeasonReady, Placed
  <2> HIDE DEF unbarred
  <2>3. build'.on = TRUE /\ build' \in [on : BOOLEAN, ids : SUBSET ShelfBook] /\ build'.ids = unbarred
    BY <2>1
  <2>4. QED
    BY <2>1, <2>2, <2>3, SeasonKeeps
<1>4. ASSUME NEW c \in Coll, S!UpdateCollection(c)
      PROVE  ShelvesFit'
  <2>1. S!Touch(c) /\ UNCHANGED <<fresh, season, build, coll, rejects, fill, ideas, taken, overtook>>
    BY <1>4 DEF S!UpdateCollection
  <2>2. Placed'
    BY <1>1, <2>1, TouchKeeps
  <2>3. QED
    BY <1>1, <2>1, <2>2, SeasonKeeps
<1>5. QED
  BY <1>2, <1>3, <1>4

-----------------------------------------------------------------------------

\* A fill begins, answers or is closed.
LEMMA FillChanges ==
    ASSUME ShelvesFit, fill' \in FillRow, UNCHANGED <<fresh, season, build, coll, updated, rejects, ideas, taken, overtook>>,
           fill'.at # "idle" /\ fill'.for \in Coll => coll[fill'.for].kind # "none",
           \A n \in S!Shelf, b \in ShelfBook : <<n, b>> \in Off /\ fill'.at # "idle" /\ FillsFor(n)' => SkipsBook(b)'
    PROVE  ShelvesFit'
<1>1. ShelfTyped /\ Off' = Off
  BY DEF ShelvesFit, Off
<1>2. ShelfTyped'
  BY <1>1 DEF ShelfTyped, Placed
<1>3. Remembered' /\ Hidden' /\ IdeaIsOpen'
  BY <1>1 DEF ShelvesFit, Remembered, Hidden, HiddenAt, IdeaIsOpen
<1>4. LeftOut'
  BY <1>1 DEF LeftOut
<1>5. QED
  BY <1>2, <1>3, <1>4 DEF ShelvesFit

\* What is off a shelf is among what a fill for it skips.
LEMMA OffIsRejected ==
    ASSUME ShelvesFit, NEW s \in S!Shelf, NEW n \in S!Shelf, NEW b \in ShelfBook, <<n, b>> \in Off,
           s = n \/ (n = Season /\ s \in Coll /\ coll[s].season)
    PROVE  b \in S!RejectsOf(s)
<1>1. <<n, b>> \in rejects
  BY DEF ShelvesFit, Remembered, Off
<1>2. n \in S!ShelvesOf(s)
  BY NamesOfShelf
<1>3. QED
  BY <1>1, <1>2 DEF S!RejectsOf

LEMMA StartFillKeeps ==
    ASSUME ShelvesFit, NEW s \in S!Shelf \cup {None}, S!StartFill(s)
    PROVE  ShelvesFit'
<1> DEFINE skip == S!FillExclude(s)
<1>1. fill' = [at |-> "asked", for |-> s, skip |-> skip, picks |-> {}] /\ UNCHANGED <<fresh, season, build, coll, updated, rejects, ideas, taken, overtook>>
      /\ (s \in Coll => S!Exists(s))
  BY DEF S!StartFill
<1>2. skip \in SUBSET ShelfBook
  BY CollFields DEF S!FillExclude, S!RejectsOf, ShelvesFit, ShelfTyped
<1>3. {} \in SUBSET ShelfBook
  OBVIOUS
<1>4. \A b : b \in S!RejectsOf(s) /\ s # None => b \in skip
  BY DEF S!FillExclude
<1> HIDE DEF skip
<1>5. fill' \in FillRow /\ fill'.at = "asked" /\ fill'.for = s /\ fill'.skip = skip
  BY <1>1, <1>2, <1>3 DEF FillRow
<1>6. ASSUME NEW n \in S!Shelf, NEW b \in ShelfBook, <<n, b>> \in Off, FillsFor(n)'
      PROVE  SkipsBook(b)'
  <2>1. s = n \/ (n = Season /\ s \in Coll /\ coll[s].season)
    BY <1>1, <1>5, <1>6 DEF FillsFor
  <2>2. s \in S!Shelf /\ s # None
    BY <2>1, ShelvesAreApart
  <2>3. b \in skip
    BY <1>4, <1>6, <2>1, <2>2, OffIsRejected
  <2>4. QED
    BY <1>5, <2>3 DEF SkipsBook
<1>7. s \in Coll => coll[s].kind # "none"
  BY <1>1 DEF S!Exists
<1>8. QED
  BY <1>1, <1>5, <1>6, <1>7, FillChanges

LEMMA FillDoneKeeps ==
    ASSUME ShelvesFit, NEW picks \in SUBSET ShelfBook, S!FillDone(picks) \/ S!CloseFill
    PROVE  ShelvesFit'
<1>1. UNCHANGED <<fresh, season, build, coll, updated, rejects, ideas, taken, overtook>> /\ fill \in FillRow /\ LeftOut
  BY DEF S!FillDone, S!CloseFill, ShelvesFit, ShelfTyped
<1>2. CASE fill' = S!NoFill
  BY <1>1, <1>2, NoFillFields, FillChanges
<1>3. CASE fill.at = "asked" /\ picks \cap fill.skip = {} /\ fill' = [fill EXCEPT !.at = "done", !.picks = picks]
  <2>1. fill' \in FillRow /\ fill'.at = "done" /\ fill'.for = fill.for /\ fill'.picks = picks
    BY <1>1, <1>3 DEF FillRow
  <2>2. ASSUME NEW n \in S!Shelf, NEW b \in ShelfBook, <<n, b>> \in Off, FillsFor(n)'
        PROVE  SkipsBook(b)'
    <3>1. FillsFor(n)
      BY <1>1, <2>1, <2>2 DEF FillsFor
    <3>2. b \in fill.skip
      BY <1>1, <1>3, <2>2, <3>1 DEF LeftOut, SkipsBook
    <3>3. QED
      BY <1>3, <2>1, <3>2 DEF SkipsBook
  <2>3. fill'.for \in Coll => coll[fill'.for].kind # "none"
    BY <1>1, <1>3, <2>1 DEF LeftOut
  <2>4. QED
    BY <1>1, <2>1, <2>2, <2>3, FillChanges
<1>4. QED
  BY <1>2, <1>3 DEF S!FillDone, S!Picks, S!CloseFill

LEMMA ShelvesRestartKeeps ==
    ASSUME ShelvesFit, S!Restart
    PROVE  ShelvesFit'
<1>1. fresh' = FALSE /\ build' = S!NoBuild /\ fill' = S!NoFill /\ ideas' = "idle" /\ Off' = Off
      /\ UNCHANGED <<season, coll, updated, rejects, taken, overtook>>
  BY DEF S!Restart, Off
<1>2. ShelfTyped'
  BY <1>1, NoFillFields, NoBuildFields DEF ShelvesFit, ShelfTyped, Placed
<1>3. Remembered'
  BY <1>1 DEF ShelvesFit, Remembered
<1>4. Hidden'
  BY <1>1, NoBuildFields DEF ShelvesFit, Hidden, HiddenAt
<1>5. LeftOut' /\ IdeaIsOpen'
  BY <1>1, NoFillFields, ShelvesAreApart DEF LeftOut, IdeaIsOpen
<1>6. QED
  BY <1>2, <1>3, <1>4, <1>5 DEF ShelvesFit

-----------------------------------------------------------------------------

\* A rejection, under each name the shelf has.
LEMMA RejectKeeps ==
    ASSUME ShelvesFit, NEW s \in S!Shelf, NEW b \in ShelfBook, S!RejectFromShelf(s, b)
    PROVE  ShelvesFit'
<1> DEFINE show  == IF s = Season THEN S!SeasonCollection ELSE s
           again == \E c \in Coll : c # show /\ coll[c].season /\ b \in coll[c].books
           busy  == build.on \/ fill.at # "idle" \/ ideas # "idle" \/ again
           names == S!ShelvesOf(s)
<1>1. ShelfTyped /\ Remembered /\ Hidden /\ LeftOut /\ IdeaIsOpen
  BY DEF ShelvesFit
<1>2. /\ b \in S!Shown(s)
      /\ rejects' = rejects \cup (names \X {b})
      /\ season' = IF Season \in names THEN season \ {b} ELSE season
      /\ coll' = IF show = None THEN coll ELSE [coll EXCEPT ![show].books = @ \ {b}]
      /\ taken' = taken \cup (names \X {b})
      /\ overtook' = IF busy THEN overtook \cup (names \X {b}) ELSE overtook
      /\ UNCHANGED <<fresh, build, updated, fill, ideas>>
  BY DEF S!RejectFromShelf, S!Names
<1>3. show = None \/ show \in Coll
  BY <1>1, SeasonIsBuilt, ShelvesAreApart
<1>4. names \subseteq S!Shelf /\ names \cap Coll = {show} \ {None}
  BY NamesOfShelf, ShelvesAreApart
<1>5. show \in Coll => coll[show].kind # "none"
  <2>1. CASE s = Season
    BY <1>1, <2>1, SeasonIsBuilt, ShelvesAreApart
  <2>2. CASE s # Season
    <3>1. s \in Coll /\ show = s
      BY <2>2, ShelvesAreApart
    <3>2. b \in coll[s].books
      BY <1>2, <3>1 DEF S!Shown
    <3>3. coll[s].kind # "none"
      BY <1>1, <3>1, <3>2 DEF Remembered
    <3>4. QED
      BY <3>1, <3>3
  <2>3. QED
    BY <2>1, <2>2
<1>6. ~busy => ~build.on /\ fill.at = "idle" /\ ideas = "idle" /\ \A c \in Coll : c = show \/ ~coll[c].season \/ b \notin coll[c].books
  OBVIOUS
<1> HIDE DEF show, busy, names
<1>7. /\ coll' \in [Coll -> CollRow]
      /\ \A c \in Coll : /\ coll'[c].kind = coll[c].kind /\ coll'[c].season = coll[c].season
                         /\ coll'[c].books \subseteq coll[c].books
      /\ show \in Coll => b \notin coll'[show].books
  <2>1. CASE show = None
    BY <1>1, <1>2, <2>1, ShelvesAreApart DEF ShelfTyped
  <2>2. CASE show # None
    <3> DEFINE p == coll[show]
               w == CHas(p, p.books \ {b})
    <3>1. show \in Coll /\ p \in CollRow /\ p.books \subseteq ShelfBook /\ p = coll[show]
      BY <1>1, <1>3, <2>2, CollFields DEF ShelfTyped
    <3>2. coll' = [coll EXCEPT ![show] = w]
      BY <1>2, <2>2 DEF CHas
    <3> HIDE DEF p
    <3>3. w \in CollRow /\ w.kind = p.kind /\ w.season = p.season /\ w.books = p.books \ {b}
      BY <3>1, CHasFields
    <3> HIDE DEF w
    <3>4. coll'[show] = w /\ (\A d \in Coll \ {show} : coll'[d] = coll[d]) /\ coll' \in [Coll -> CollRow]
      BY <1>1, <3>1, <3>2, <3>3 DEF ShelfTyped
    <3>5. QED
      BY <3>1, <3>3, <3>4
  <2>3. QED
    BY <2>1, <2>2
<1>8. \A n, y : <<n, y>> \in Off' => <<n, y>> \in Off \/ (~busy /\ n \in names /\ y = b)
  BY <1>2 DEF Off
<1>9. ShelfTyped'
  <2>1. overtook' \subseteq taken'
    BY <1>1, <1>2 DEF ShelfTyped
  <2>2. taken' \subseteq S!Shelf \X ShelfBook /\ rejects' \subseteq S!Shelf \X ShelfBook
    BY <1>1, <1>2, <1>4 DEF ShelfTyped
  <2>3. season' \subseteq ShelfBook /\ Placed'
    BY <1>1, <1>2 DEF ShelfTyped, Placed
  <2>4. QED
    BY <1>1, <1>2, <1>7, <2>1, <2>2, <2>3 DEF ShelfTyped
<1>10. Remembered'
  <2>1. taken' \subseteq rejects'
    BY <1>1, <1>2 DEF Remembered
  <2>2. \A c \in Coll : coll'[c].kind \in {"none", "deleted"} => coll'[c].books = {} /\ ~coll'[c].season
    BY <1>1, <1>7 DEF Remembered
  <2>3. ASSUME NEW c \in Coll, NEW y \in ShelfBook, <<c, y>> \in taken'
        PROVE  coll'[c].kind # "none"
    <3>1. <<c, y>> \in taken \/ c \in names
      BY <1>2, <2>3
    <3>2. CASE <<c, y>> \in taken
      BY <1>1, <1>7, <3>2 DEF Remembered
    <3>3. CASE c \in names
      BY <1>4, <1>5, <1>7, <3>3
    <3>4. QED
      BY <3>1, <3>2, <3>3
  <2>4. QED
    BY <2>1, <2>2, <2>3 DEF Remembered
<1>11. Hidden'
  <2>1. ASSUME NEW n \in S!Shelf, NEW y \in ShelfBook, <<n, y>> \in Off'
        PROVE  HiddenAt(n, y)'
    <3>1. CASE <<n, y>> \in Off
      <4>1. HiddenAt(n, y)
        BY <1>1, <3>1 DEF Hidden
      <4>2. QED
        BY <1>2, <1>7, <4>1 DEF HiddenAt
    <3>2. CASE ~busy /\ n \in names /\ y = b
      <4>1. n \in Coll => b \notin coll'[n].books
        BY <1>4, <1>7, <3>2
      <4>2. n = Season => b \notin season' /\ ~build'.on
        BY <1>2, <1>6, <3>2
      <4>3. ASSUME NEW c \in Coll, coll'[c].season
            PROVE  b \notin coll'[c].books
        BY <1>6, <1>7, <3>2, <4>3
      <4>4. QED
        BY <3>2, <4>1, <4>2, <4>3 DEF HiddenAt
    <3>3. QED
      BY <1>8, <2>1, <3>1, <3>2
  <2>2. QED
    BY <2>1 DEF Hidden
<1>12. LeftOut'
  <2>1. fill.at # "idle" /\ fill.for \in Coll => coll'[fill.for].kind # "none"
    BY <1>1, <1>7 DEF LeftOut
  <2>2. ASSUME NEW n \in S!Shelf, NEW y \in ShelfBook, <<n, y>> \in Off', fill.at # "idle", FillsFor(n)'
        PROVE  SkipsBook(y)'
    <3>1. <<n, y>> \in Off
      BY <1>6, <1>8, <2>2
    <3>2. FillsFor(n)
      BY <1>2, <1>7, <2>2 DEF FillsFor
    <3>3. SkipsBook(y)
      BY <1>1, <2>2, <3>1, <3>2 DEF LeftOut
    <3>4. QED
      BY <1>2, <3>3 DEF SkipsBook
  <2>3. QED
    BY <1>2, <2>1, <2>2 DEF LeftOut
<1>13. IdeaIsOpen'
  <2>1. CASE ideas \in Coll
    <3>1. ~coll[ideas].season /\ coll[ideas].kind # "none" /\ \A y \in ShelfBook : <<ideas, y>> \notin Off
      BY <1>1, <2>1 DEF IdeaIsOpen
    <3>2. busy
      BY <1>6, <2>1, ShelvesAreApart
    <3>3. \A y \in ShelfBook : <<ideas, y>> \notin Off'
      BY <1>8, <3>1, <3>2
    <3>4. QED
      BY <1>2, <1>7, <2>1, <3>1, <3>3 DEF IdeaIsOpen
  <2>2. CASE ideas \notin Coll
    BY <1>2, <2>2 DEF IdeaIsOpen
  <2>3. QED
    BY <2>1, <2>2
<1>14. QED
  BY <1>9, <1>10, <1>11, <1>12, <1>13 DEF ShelvesFit

-----------------------------------------------------------------------------

LEMMA ShelvesStart ==
    ASSUME S!Init
    PROVE  ShelvesFit
<1>1. fresh = FALSE /\ season = {} /\ build = S!NoBuild /\ coll = [c \in Coll |-> S!Gone] /\ updated = [c \in Coll |-> 0]
      /\ rejects = {} /\ fill = S!NoFill /\ ideas = "idle" /\ taken = {} /\ overtook = {}
  BY DEF S!Init
<1>2. S!Gone \in CollRow /\ S!Gone.kind = "none" /\ S!Gone.season = FALSE /\ S!Gone.books = {}
  BY GoneFields
<1>3. ShelfTyped
  BY <1>1, <1>2, NoFillFields, NoBuildFields DEF ShelfTyped, Placed
<1>4. Remembered
  BY <1>1, <1>2 DEF Remembered
<1>5. Hidden /\ LeftOut /\ IdeaIsOpen
  BY <1>1, NoFillFields, ShelvesAreApart DEF Hidden, LeftOut, IdeaIsOpen, Off
<1>6. QED
  BY <1>3, <1>4, <1>5 DEF ShelvesFit

LEMMA ShelvesGoOn ==
    ASSUME ShelvesFit, [S!Next]_(S!vars)
    PROVE  ShelvesFit'
<1>1. CASE S!Old \/ S!Store \/ S!Fail \/ S!CloseFill \/ S!Restart
  BY <1>1, SeasonStepKeeps, FillDoneKeeps, ShelvesRestartKeeps
<1>2. CASE \E b \in ShelfBook, s \in S!Shelf : S!RejectFromShelf(s, b)
  BY <1>2, RejectKeeps
<1>3. CASE \E s \in S!Shelf \cup {None} : S!StartFill(s)
  BY <1>3, StartFillKeeps
<1>4. ASSUME NEW bs \in SUBSET ShelfBook, S!SeasonReady(bs) \/ S!FillDone(bs) \/ S!FillIdea(bs)
      PROVE  ShelvesFit'
  BY <1>4, SeasonStepKeeps, FillDoneKeeps, FillIdeaKeeps
<1>5. ASSUME NEW c \in Coll,
             \/ S!UpdateCollection(c) \/ S!KeepIdea(c) \/ S!DeleteCollection(c) \/ S!MakeIdeas(c)
             \/ \E b \in ShelfBook : S!AddToCollection(c, b) \/ S!RemoveFromCollection(c, b)
             \/ \E bs \in SUBSET ShelfBook : S!NewCollection(c, bs) \/ S!SaveFill(c, bs)
      PROVE  ShelvesFit'
  BY <1>5, SeasonStepKeeps, KeepIdeaKeeps, DeleteCollectionKeeps, MakeIdeasKeeps, AddToCollectionKeeps, RemoveFromCollectionKeeps,
     NewCollectionKeeps, SaveFillKeeps
<1>6. CASE UNCHANGED S!vars
  <2>1. ShelfTyped'
    BY <1>6 DEF S!vars, ShelvesFit, ShelfTyped, Placed
  <2>2. Remembered' /\ Hidden' /\ LeftOut' /\ IdeaIsOpen'
    BY <1>6 DEF S!vars, ShelvesFit, Remembered, Hidden, HiddenAt, LeftOut, FillsFor, SkipsBook, IdeaIsOpen, Off
  <2>3. QED
    BY <2>1, <2>2 DEF ShelvesFit
<1>7. QED
  BY <1>1, <1>2, <1>3, <1>4, <1>5, <1>6 DEF S!Next

LEMMA OffIsNotShown ==
    ASSUME ShelvesFit
    PROVE  S!TypeOK /\ S!RejectedStaysOff
<1>1. ShelfTyped /\ Hidden
  BY DEF ShelvesFit
<1>2. S!TypeOK
  BY <1>1 DEF ShelfTyped, Placed, CollRow, FillRow, S!TypeOK
<1>3. ASSUME NEW t \in Off
      PROVE  t[2] \notin S!Shown(t[1])
  <2>1. PICK n \in S!Shelf, b \in ShelfBook : t = <<n, b>>
    BY <1>1 DEF ShelfTyped, Off
  <2>2. HiddenAt(n, b)
    BY <1>1, <2>1 DEF Hidden
  <2>3. CASE n \in Coll
    BY <2>1, <2>2, <2>3 DEF HiddenAt, S!Shown
  <2>4. CASE n = Season
    <3>1. b \notin season /\ \A c \in Coll : coll[c].season => b \notin coll[c].books
      BY <2>2, <2>4 DEF HiddenAt
    <3>2. S!Shown(n) = season \/ \E c \in Coll : coll[c].season /\ S!Shown(n) = coll[c].books
      BY <1>1, <2>4, SeasonIsBuilt, ShelvesAreApart DEF S!Shown
    <3>3. QED
      BY <2>1, <3>1, <3>2
  <2>5. QED
    BY <2>3, <2>4, ShelvesAreApart
<1>4. QED
  BY <1>2, <1>3 DEF S!RejectedStaysOff, Off

\* Shelves (store/shelfrejects.go, RejectFromShelf; seasoncache.go; collection_handlers.go): however
\* many collections and books there are, a book taken off a shelf is not shown there again before
\* a person adds it, through builds of the cache, fills, saves, the weekly ideas and restarts,
\* unless it was taken off while a build or a fill was under way, or off one of two collections.
THEOREM RejectionsAreKept == Spec => []RejectedStaysOff
<1> DEFINE Fit == running = "shelves" => ShelvesFit
<1>1. Init => Fit
  BY ShelvesStart DEF Init
<1>2. Fit /\ [Next]_vars => Fit'
  <2>1. ASSUME [Next]_vars, running' = "shelves"
        PROVE  running = "shelves" /\ [S!Next]_(S!vars)
    BY <2>1 DEF Next, vars, shelfVars, S!vars
  <2>2. QED
    BY <2>1, ShelvesGoOn
<1>3. Fit => RejectedStaysOff
  BY OffIsNotShown DEF RejectedStaysOff
<1>4. QED
  BY <1>1, <1>2, <1>3, PTL DEF Spec

-----------------------------------------------------------------------------
(* Discover.                                                               *)

RefreshStep == {"idle", "begin", "fill", "classics", "choose", "count", "end"} \cup L!Lists
RatedSoFar  == [day : L!Days \cup {L!Never}, count : Nat]
Active(p)   == p \notin {"idle", "begin"}

DiscoverTyped ==
    /\ today \in L!Days /\ refreshing \in BOOLEAN /\ refused \in BOOLEAN /\ fetched \in BOOLEAN
    /\ DOMAIN items = L!List
    /\ \A l \in L!List : items[l] \in {{}, Answers[l]}
    /\ status \in [ListedBook -> {"pending", "queued", "analyzed"}]
    /\ last \in L!Days \cup {L!Never}
    /\ nytLast \in L!Days \cup {L!Never}
    /\ rated \in RatedSoFar
    /\ at \in [Caller -> RefreshStep]
    /\ sent \subseteq ListedBook
    /\ chosen \subseteq ListedBook

\* Who refreshes holds the flag, and nobody else does.
Alone ==
    /\ \A c \in Caller : Active(at[c]) => refreshing
    /\ \A c, d \in Caller : Active(at[c]) /\ Active(at[d]) => c = d

\* What was recorded of today is what was sent today.
Ledger ==
    /\ rated.day = today => rated.count = Cardinality(sent)
    /\ rated.day # today => sent = {}
    /\ rated.day <= today \/ rated.day = L!Never
    /\ rated.count <= Cardinality(ListedBook)
    /\ Cardinality(sent) <= Daily
    /\ \A b \in sent : status[b] # "pending"

\* What is chosen and not counted yet is new, and fits what is left of the day.
Marked ==
    \A c \in Caller : at[c] = "count" =>
        /\ chosen \cap sent = {}
        /\ Cardinality(chosen) + Cardinality(sent) <= Daily
        /\ \A b \in chosen : status[b] # "pending"

DiscoverFit == DiscoverTyped /\ Alone /\ Ledger /\ Marked

-----------------------------------------------------------------------------

LEMMA ListsAreApart ==
    /\ \A l \in L!Lists : l \notin {"idle", "begin", "fill", "classics", "choose", "count", "end"}
    /\ \A i \in DOMAIN Weekly : Weekly[i] \in L!Lists /\ i \in 1..Len(Weekly)
    /\ \A i \in 1..Len(Weekly) : Weekly[i] \in L!Lists
    /\ Weekly[1] \in L!Lists
    /\ L!Lists \subseteq L!List /\ Fallback \in L!List /\ Classics \in L!List
    /\ Len(Weekly) \in Nat
  BY ListAssumption DEF L!Lists, L!List

LEMMA CountedTheSame ==
    \A s : L!Cardinality(s) = Cardinality(s)
  BY DEF L!Cardinality, Cardinality

LEMMA DaysAreNumbers ==
    /\ L!Days \subseteq Nat /\ L!Never \in Nat /\ L!Never \notin L!Days /\ MaxDay \in Nat
    /\ \A d \in L!Days : d <= MaxDay /\ d # L!Never
    /\ \A d \in L!Days : d < MaxDay => d + 1 \in L!Days
    /\ 0 \in L!Days
  BY ListAssumption DEF L!Days, L!Never

LEMMA ListedAreFinite ==
    /\ \A s \in SUBSET ListedBook : IsFiniteSet(s) /\ Cardinality(s) \in Nat /\ Cardinality(s) <= Cardinality(ListedBook)
    /\ Cardinality(ListedBook) \in Nat /\ Daily \in Nat
    /\ Cardinality({}) = 0
  BY ListAssumption, FS_Subset, FS_CardinalityType, FS_EmptySet

\* A caller takes a step that neither chooses nor counts.
LEMMA CallerMoves ==
    ASSUME DiscoverFit, NEW c \in Caller, NEW v \in RefreshStep \ {"count"},
           at' = [at EXCEPT ![c] = v],
           Active(v) => refreshing' /\ (Active(at[c]) \/ ~refreshing),
           Active(v) \/ refreshing' = refreshing \/ (refreshing' = FALSE /\ Active(at[c])),
           UNCHANGED <<today, status, rated, chosen, sent>>
    PROVE  at' \in [Caller -> RefreshStep] /\ Alone' /\ Ledger' /\ Marked'
<1>1. at \in [Caller -> RefreshStep] /\ Alone /\ Ledger /\ Marked /\ refreshing \in BOOLEAN
  BY DEF DiscoverFit, DiscoverTyped
<1>2. at' \in [Caller -> RefreshStep]
  BY <1>1
<1>3. at'[c] = v /\ \A d \in Caller \ {c} : at'[d] = at[d]
  BY <1>1
<1>4. Alone'
  <2>1. \A d \in Caller \ {c} : Active(at[d]) => ~Active(at[c]) /\ ~Active(v)
    BY <1>1 DEF Alone
  <2>2. ASSUME NEW d \in Caller, Active(at'[d])
        PROVE  refreshing'
    <3>1. CASE d = c
      BY <2>2, <3>1, <1>3
    <3>2. CASE d # c
      BY <2>2, <3>2, <1>3, <2>1, <1>1 DEF Alone
    <3>3. QED
      BY <3>1, <3>2
  <2>3. \A d, e \in Caller : Active(at'[d]) /\ Active(at'[e]) => d = e
    BY <2>1, <1>3, <1>1 DEF Alone
  <2>4. QED
    BY <2>2, <2>3 DEF Alone, Active
<1>5. Ledger'
  BY <1>1 DEF Ledger
<1>6. Marked'
  BY <1>1, <1>3 DEF Marked
<1>7. QED
  BY <1>2, <1>4, <1>5, <1>6

-----------------------------------------------------------------------------

LEMMA StartKeeps ==
    ASSUME DiscoverFit, NEW c \in Caller, L!Start(c)
    PROVE  DiscoverFit'
<1>1. DiscoverTyped /\ ~Active(at[c]) /\ at' = [at EXCEPT ![c] = "begin"] /\ "begin" \in RefreshStep \ {"count"} /\ ~Active("begin")
      /\ refreshing' = refreshing /\ UNCHANGED <<today, status, rated, chosen, sent, items, last, nytLast, refused, fetched>>
  BY DEF L!Start, Active, RefreshStep, DiscoverFit
<1>2. at' \in [Caller -> RefreshStep] /\ Alone' /\ Ledger' /\ Marked'
  BY <1>1, CallerMoves
<1>3. DiscoverTyped'
  BY <1>1, <1>2 DEF DiscoverTyped
<1>4. QED
  BY <1>2, <1>3 DEF DiscoverFit

LEMMA BeginKeeps ==
    ASSUME DiscoverFit, NEW c \in Caller, NEW key \in BOOLEAN, L!Begin(c, key)
    PROVE  DiscoverFit'
<1>1. DiscoverTyped /\ ~Active(at[c]) /\ UNCHANGED <<today, status, rated, chosen, sent, last, nytLast>>
  BY DEF L!Begin, Active, DiscoverFit
<1>2. DOMAIN items' = L!List /\ \A l \in L!List : items'[l] \in {{}, Answers[l]}
  <2>1. items' = items \/ items' = [items EXCEPT ![Fallback] = {}]
    BY DEF L!Begin
  <2>2. QED
    BY <1>1, <2>1 DEF DiscoverTyped
<1>3. refused' \in BOOLEAN
  <2>1. refused' = refused \/ refused' = FALSE
    BY DEF L!Begin
  <2>2. QED
    BY <1>1, <2>1 DEF DiscoverTyped
<1>4. CASE refreshing
  <2>1. at' = [at EXCEPT ![c] = "idle"] /\ refreshing' = refreshing /\ fetched' = fetched
    BY <1>4 DEF L!Begin, L!Free
  <2>2. "idle" \in RefreshStep \ {"count"} /\ ~Active("idle")
    BY DEF RefreshStep, Active
  <2>3. at' \in [Caller -> RefreshStep] /\ Alone' /\ Ledger' /\ Marked'
    BY <1>1, <2>1, <2>2, CallerMoves
  <2>4. DiscoverTyped'
    BY <1>1, <1>2, <1>3, <2>1, <2>3 DEF DiscoverTyped
  <2>5. QED
    BY <2>3, <2>4 DEF DiscoverFit
<1>5. CASE ~refreshing
  <2>1. PICK v \in {"fill", "classics", Weekly[1]} : at' = [at EXCEPT ![c] = v]
    <3>1. at' = [at EXCEPT ![c] = IF ~key THEN "fill" ELSE IF L!SkipsLists(c, key) THEN "classics" ELSE Weekly[1]]
      BY <1>5 DEF L!Begin, L!Free
    <3>2. QED
      BY <3>1
  <2>2. v \in RefreshStep \ {"count"} /\ Active(v)
    BY ListsAreApart DEF RefreshStep, Active
  <2>3. refreshing' = TRUE
    BY <1>5 DEF L!Begin, L!Free
  <2>4. fetched' \in BOOLEAN
    BY <1>5 DEF L!Begin, L!Free, L!SkipsLists
  <2>5. at' \in [Caller -> RefreshStep] /\ Alone' /\ Ledger' /\ Marked'
    BY <1>1, <1>5, <2>1, <2>2, <2>3, CallerMoves
  <2>6. DiscoverTyped'
    BY <1>1, <1>2, <1>3, <2>3, <2>4, <2>5 DEF DiscoverTyped
  <2>7. QED
    BY <2>5, <2>6 DEF DiscoverFit
<1>6. QED
  BY <1>4, <1>5

LEMMA ThenMoves ==
    ASSUME DiscoverFit, NEW c \in Caller, NEW i \in DOMAIN Weekly, NEW got \in BOOLEAN, L!Then(c, i, got)
    PROVE  /\ \E v \in {"fill", "classics"} \cup L!Lists : at' = [at EXCEPT ![c] = v]
           /\ nytLast' \in {nytLast, today}
<1>1. CASE i < Len(Weekly)
  <2>1. i + 1 \in 1..Len(Weekly)
    BY <1>1, ListsAreApart
  <2>2. Weekly[i + 1] \in L!Lists
    BY <2>1, ListsAreApart
  <2>3. QED
    BY <1>1, <2>2 DEF L!Then
<1>2. CASE ~(i < Len(Weekly))
  BY <1>2 DEF L!Then
<1>3. QED
  BY <1>1, <1>2

LEMMA NYTListKeeps ==
    ASSUME DiscoverFit, NEW c \in Caller, NEW i \in DOMAIN Weekly, L!NYTList(c, i)
    PROVE  DiscoverFit'
<1>1. DiscoverTyped /\ Alone /\ UNCHANGED <<today, status, rated, chosen, sent, last, refreshing>>
  BY DEF L!NYTList, DiscoverFit
<1>2. at[c] \in L!Lists /\ Active(at[c])
  BY ListsAreApart DEF L!NYTList, Active
<1>3. fetched \in BOOLEAN /\ refused \in BOOLEAN
  BY <1>1 DEF DiscoverTyped
<1>4. /\ fetched' \in BOOLEAN
      /\ refused' \in BOOLEAN
      /\ \E v \in {"fill", "classics"} \cup L!Lists : at' = [at EXCEPT ![c] = v]
      /\ nytLast' \in {nytLast, today}
  <2>1. CASE fetched' = TRUE /\ refused' = (refused /\ ~L!Cleared(c, i, TRUE)) /\ L!Then(c, i, TRUE)
    BY <2>1, <1>3, ThenMoves
  <2>2. CASE fetched' = fetched /\ refused' = (refused /\ ~L!Cleared(c, i, fetched)) /\ L!Then(c, i, fetched)
    BY <2>2, <1>3, ThenMoves
  <2>3. CASE /\ fetched' = fetched /\ refused' = ~fetched
             /\ at' = [at EXCEPT ![c] = IF fetched THEN "classics" ELSE "fill"]
             /\ nytLast' = IF fetched THEN today ELSE nytLast
    BY <2>3, <1>3
  <2>4. QED
    BY <2>1, <2>2, <2>3 DEF L!NYTList
<1>5. DOMAIN items' = L!List /\ \A l \in L!List : items'[l] \in {{}, Answers[l]}
  <2>1. \/ \E s : items' = [items EXCEPT ![Weekly[i]] = Answers[Weekly[i]], ![Fallback] = IF s THEN {} ELSE @]
        \/ \E s : items' = [items EXCEPT ![Fallback] = IF s THEN {} ELSE @]
    BY DEF L!NYTList
  <2>2. DOMAIN items = L!List /\ Weekly[i] \in L!List /\ Fallback \in L!List
    BY <1>1, ListsAreApart DEF DiscoverTyped
  <2>3. ASSUME NEW s, items' = [items EXCEPT ![Weekly[i]] = Answers[Weekly[i]], ![Fallback] = IF s THEN {} ELSE @]
        PROVE  DOMAIN items' = L!List /\ \A l \in L!List : items'[l] \in {{}, items[l], Answers[l]}
    BY <2>2, <2>3
  <2>4. ASSUME NEW s, items' = [items EXCEPT ![Fallback] = IF s THEN {} ELSE @]
        PROVE  DOMAIN items' = L!List /\ \A l \in L!List : items'[l] \in {{}, items[l], Answers[l]}
    BY <2>2, <2>4
  <2>5. DOMAIN items' = L!List /\ \A l \in L!List : items'[l] \in {{}, items[l], Answers[l]}
    BY <2>1, <2>3, <2>4
  <2>6. QED
    BY <1>1, <2>5 DEF DiscoverTyped
<1>6. PICK v \in {"fill", "classics"} \cup L!Lists : at' = [at EXCEPT ![c] = v]
  BY <1>4
<1>7. v \in RefreshStep \ {"count"} /\ Active(v)
  BY ListsAreApart DEF RefreshStep, Active
<1>8. refreshing
  BY <1>1, <1>2 DEF Alone
<1>9. at' \in [Caller -> RefreshStep] /\ Alone' /\ Ledger' /\ Marked'
  BY <1>1, <1>2, <1>6, <1>7, <1>8, CallerMoves
<1>10. DiscoverTyped'
  BY <1>1, <1>4, <1>5, <1>9 DEF DiscoverTyped
<1>11. QED
  BY <1>9, <1>10 DEF DiscoverFit

LEMMA FillKeeps ==
    ASSUME DiscoverFit, NEW c \in Caller, L!OLTrending(c) \/ L!OLSubject(c)
    PROVE  DiscoverFit'
<1>1. DiscoverTyped /\ Alone /\ UNCHANGED <<today, status, rated, chosen, sent, last, nytLast, refreshing, refused, fetched>>
  BY DEF L!OLTrending, L!OLSubject, DiscoverFit
<1>2. Active(at[c]) /\ refreshing
  BY <1>1 DEF L!OLTrending, L!OLSubject, Active, Alone
<1>3. PICK v \in {"classics", "choose"} : at' = [at EXCEPT ![c] = v]
  BY DEF L!OLTrending, L!OLSubject
<1>4. v \in RefreshStep \ {"count"} /\ Active(v)
  BY DEF RefreshStep, Active
<1>5. at' \in [Caller -> RefreshStep] /\ Alone' /\ Ledger' /\ Marked'
  BY <1>1, <1>2, <1>3, <1>4, CallerMoves
<1>6. DOMAIN items' = L!List /\ \A l \in L!List : items'[l] \in {{}, Answers[l]}
  <2>1. items' = items \/ (\E k \in L!List : items' = [items EXCEPT ![k] = Answers[k]])
    BY ListsAreApart DEF L!OLTrending, L!OLSubject, L!SaveDiscoverList
  <2>2. QED
    BY <1>1, <2>1 DEF DiscoverTyped
<1>7. DiscoverTyped'
  BY <1>1, <1>5, <1>6 DEF DiscoverTyped
<1>8. QED
  BY <1>5, <1>7 DEF DiscoverFit

LEMMA FinishKeeps ==
    ASSUME DiscoverFit, NEW c \in Caller, L!Finish(c) \/ L!Cancel(c)
    PROVE  DiscoverFit'
<1>1. DiscoverTyped /\ UNCHANGED <<today, status, rated, chosen, sent, items, nytLast, refused>> /\ refreshing' = FALSE /\ fetched' = FALSE
      /\ at' = [at EXCEPT ![c] = "idle"] /\ last' \in {last, today}
  BY DEF L!Finish, L!Cancel, DiscoverFit
<1>2. Active(at[c])
  BY ListsAreApart DEF L!Finish, L!Cancel, Active
<1>3. "idle" \in RefreshStep \ {"count"} /\ ~Active("idle")
  BY DEF RefreshStep, Active
<1>4. at' \in [Caller -> RefreshStep] /\ Alone' /\ Ledger' /\ Marked'
  BY <1>1, <1>2, <1>3, CallerMoves
<1>5. DiscoverTyped'
  BY <1>1, <1>4 DEF DiscoverTyped
<1>6. QED
  BY <1>4, <1>5 DEF DiscoverFit

-----------------------------------------------------------------------------

LEMMA DoneIsSent ==
    ASSUME DiscoverFit
    PROVE  L!Done = Cardinality(sent) /\ L!Done <= Daily /\ L!Left = Daily - Cardinality(sent)
<1>1. L!Done = Cardinality(sent)
  BY ListedAreFinite DEF DiscoverFit, Ledger, L!Done
<1>2. Cardinality(sent) <= Daily
  BY DEF DiscoverFit, Ledger
<1>3. QED
  BY <1>1, <1>2 DEF L!Left

LEMMA ChooseKeeps ==
    ASSUME DiscoverFit, NEW c \in Caller, L!Choose(c)
    PROVE  DiscoverFit'
<1>1. DiscoverTyped /\ Alone /\ Ledger /\ Marked /\ UNCHANGED <<today, items, refreshing, last, nytLast, rated, refused, fetched, sent>>
  BY DEF L!Choose, DiscoverFit
<1>2. PICK ids \in SUBSET L!Listed :
        /\ L!Cardinality(ids) = L!Left \/ (ids = L!Listed /\ L!Cardinality(ids) < L!Left)
        /\ chosen' = ids
        /\ status' = [b \in ListedBook |-> IF b \in ids THEN "queued" ELSE status[b]]
        /\ at' = [at EXCEPT ![c] = IF ids = {} THEN "end" ELSE "count"]
  BY DEF L!Choose
<1>3. ids \subseteq ListedBook /\ \A b \in ids : status[b] = "pending"
  BY <1>2 DEF L!Listed
<1>4. Cardinality(ids) + Cardinality(sent) <= Daily
  <2>1. Cardinality(ids) \in Nat /\ Cardinality(sent) \in Nat /\ Daily \in Nat
    BY <1>1, <1>3, ListedAreFinite DEF DiscoverTyped
  <2>2. Cardinality(ids) <= L!Left
    <3>1. Cardinality(ids) = L!Left \/ Cardinality(ids) < L!Left
      BY <1>2, CountedTheSame
    <3>2. L!Left \in Int
      BY <2>1, DoneIsSent
    <3>3. QED
      BY <2>1, <3>1, <3>2
  <2>3. QED
    BY <2>1, <2>2, DoneIsSent
<1>5. status' \in [ListedBook -> {"pending", "queued", "analyzed"}]
      /\ \A b \in ListedBook : status[b] # "pending" => status'[b] # "pending"
  BY <1>1, <1>2 DEF DiscoverTyped
<1>6. PICK v \in {"end", "count"} : at' = [at EXCEPT ![c] = v]
  BY <1>2
<1>7. at'[c] = v /\ (\A d \in Caller \ {c} : at'[d] = at[d]) /\ at' \in [Caller -> RefreshStep]
  BY <1>1, <1>6 DEF DiscoverTyped, RefreshStep
<1>8. Active(at[c]) /\ Active(v)
  BY DEF L!Choose, Active
<1>9. DiscoverTyped'
  BY <1>1, <1>2, <1>3, <1>5, <1>7 DEF DiscoverTyped
<1>10. Alone'
  <2>1. \A d \in Caller : Active(at'[d]) <=> Active(at[d])
    BY <1>7, <1>8
  <2>2. QED
    BY <1>1, <2>1 DEF Alone, Active
<1>11. Ledger'
  BY <1>1, <1>5 DEF Ledger, DiscoverTyped
<1>12. Marked'
  <2>1. chosen' \cap sent = {}
    BY <1>1, <1>2, <1>3 DEF Ledger
  <2>2. \A b \in chosen' : status'[b] # "pending"
    BY <1>2, <1>3
  <2>3. QED
    BY <1>1, <1>2, <1>4, <2>1, <2>2 DEF Marked
<1>13. QED
  BY <1>9, <1>10, <1>11, <1>12 DEF DiscoverFit

LEMMA QueueRatingsKeeps ==
    ASSUME DiscoverFit, NEW c \in Caller, L!QueueRatings(c)
    PROVE  DiscoverFit'
<1>1. DiscoverTyped /\ Alone /\ Ledger /\ Marked /\ at[c] = "count"
      /\ UNCHANGED <<today, items, status, refreshing, last, nytLast, refused, fetched>>
      /\ at' = [at EXCEPT ![c] = "end"] /\ sent' = sent \cup chosen /\ chosen' = {}
      /\ rated' = [day |-> today, count |-> L!Done + L!Cardinality(chosen)]
  BY DEF L!QueueRatings, DiscoverFit
<1>2. sent \subseteq ListedBook /\ chosen \subseteq ListedBook /\ today \in L!Days
  BY <1>1 DEF DiscoverTyped
<1>3. chosen \cap sent = {} /\ Cardinality(chosen) + Cardinality(sent) <= Daily /\ \A b \in chosen : status[b] # "pending"
  BY <1>1 DEF Marked
<1>4. Cardinality(sent') = Cardinality(sent) + Cardinality(chosen) /\ Cardinality(sent') \in Nat
      /\ Cardinality(sent') <= Cardinality(ListedBook)
  <2>1. IsFiniteSet(sent) /\ IsFiniteSet(chosen) /\ Cardinality(sent) \in Nat /\ Cardinality(chosen) \in Nat
    BY <1>2, ListedAreFinite
  <2>2. Cardinality(sent \cup chosen) = Cardinality(sent) + Cardinality(chosen) - Cardinality(sent \cap chosen)
    BY <2>1, FS_Union
  <2>3. Cardinality(sent \cap chosen) = 0
    <3>1. sent \cap chosen = {}
      BY <1>3
    <3>2. QED
      BY <3>1, FS_EmptySet
  <2>4. sent' \in SUBSET ListedBook
    BY <1>1, <1>2
  <2>5. Cardinality(sent') \in Nat /\ Cardinality(sent') <= Cardinality(ListedBook)
    BY <2>4, ListedAreFinite
  <2>6. QED
    BY <1>1, <2>1, <2>2, <2>3, <2>5
<1>5. rated'.day = today /\ rated'.count = Cardinality(sent')
  <2>1. L!Cardinality(chosen) = Cardinality(chosen) /\ L!Done = Cardinality(sent)
    BY CountedTheSame, DoneIsSent
  <2>2. QED
    BY <1>1, <1>4, <2>1
<1>6. rated' \in RatedSoFar
  <2>1. L!Done + L!Cardinality(chosen) \in Nat
    BY <1>1, <1>4, <1>5
  <2>2. QED
    BY <1>1, <1>2, <2>1 DEF RatedSoFar
<1>7. at'[c] = "end" /\ (\A d \in Caller \ {c} : at'[d] = at[d]) /\ at' \in [Caller -> RefreshStep]
  BY <1>1 DEF DiscoverTyped, RefreshStep
<1>8. DiscoverTyped'
  BY <1>1, <1>2, <1>6, <1>7 DEF DiscoverTyped
<1>9. Alone'
  <2>1. \A d \in Caller : Active(at'[d]) <=> Active(at[d])
    BY <1>1, <1>7 DEF Active
  <2>2. QED
    BY <1>1, <2>1 DEF Alone, Active
<1>10. Ledger'
  <2>1. \A b \in sent' : status'[b] # "pending"
    BY <1>1, <1>3 DEF Ledger
  <2>2. Cardinality(sent') <= Daily
    BY <1>2, <1>3, <1>4, ListedAreFinite
  <2>3. rated'.day <= today'
    BY <1>1, <1>2, <1>5, DaysAreNumbers
  <2>4. QED
    BY <1>1, <1>4, <1>5, <2>1, <2>2, <2>3 DEF Ledger
<1>11. Marked'
  <2>1. \A d \in Caller : at'[d] # "count"
    BY <1>1, <1>7 DEF Alone, Active
  <2>2. QED
    BY <2>1 DEF Marked
<1>12. QED
  BY <1>8, <1>9, <1>10, <1>11 DEF DiscoverFit

LEMMA NextDayKeeps ==
    ASSUME DiscoverFit, L!NextDay
    PROVE  DiscoverFit'
<1>1. DiscoverTyped /\ Alone /\ Ledger /\ (\A c \in Caller : at[c] # "count") /\ today < MaxDay /\ today' = today + 1 /\ sent' = {}
      /\ UNCHANGED <<items, status, refreshing, last, nytLast, rated, refused, at, fetched, chosen>>
  BY DEF L!NextDay, DiscoverFit
<1>2. today \in L!Days /\ rated.day \in L!Days \cup {L!Never} /\ rated.count \in Nat
  BY <1>1 DEF DiscoverTyped, RatedSoFar
<1>3. today' \in L!Days
  BY <1>1, <1>2, DaysAreNumbers
<1>4. DiscoverTyped'
  BY <1>1, <1>3 DEF DiscoverTyped
<1>5. Alone'
  BY <1>1 DEF Alone
<1>6. Ledger'
  <2>1. today \in Nat /\ rated.day \in Nat
    BY <1>2, DaysAreNumbers
  <2>2. rated.day <= today \/ rated.day = L!Never
    BY <1>1 DEF Ledger
  <2>3. L!Never # today + 1
    BY <1>1, <1>3, DaysAreNumbers
  <2>4. rated.day # today + 1 /\ (rated.day <= today + 1 \/ rated.day = L!Never)
    BY <2>1, <2>2, <2>3
  <2>5. rated.count <= Cardinality(ListedBook)
    BY <1>1 DEF Ledger
  <2>6. Cardinality(sent') <= Daily
    BY <1>1, ListedAreFinite
  <2>7. QED
    BY <1>1, <2>4, <2>5, <2>6 DEF Ledger
<1>7. Marked'
  BY <1>1 DEF Marked
<1>8. QED
  BY <1>4, <1>5, <1>6, <1>7 DEF DiscoverFit

LEMMA RateKeeps ==
    ASSUME DiscoverFit, NEW b \in ListedBook, L!Rate(b)
    PROVE  DiscoverFit'
<1>1. DiscoverTyped /\ Alone /\ Ledger /\ Marked /\ status' = [status EXCEPT ![b] = "analyzed"]
      /\ UNCHANGED <<today, items, refreshing, last, nytLast, rated, refused, at, fetched, chosen, sent>>
  BY DEF L!Rate, DiscoverFit
<1>2. status' \in [ListedBook -> {"pending", "queued", "analyzed"}]
      /\ \A k \in ListedBook : status[k] # "pending" => status'[k] # "pending"
  BY <1>1 DEF DiscoverTyped
<1>3. DiscoverTyped'
  BY <1>1, <1>2 DEF DiscoverTyped
<1>4. Alone'
  BY <1>1 DEF Alone
<1>5. Ledger'
  BY <1>1, <1>2 DEF Ledger, DiscoverTyped
<1>6. Marked'
  BY <1>1, <1>2 DEF Marked, DiscoverTyped
<1>7. QED
  BY <1>3, <1>4, <1>5, <1>6 DEF DiscoverFit

LEMMA DiscoverRestartKeeps ==
    ASSUME DiscoverFit, L!Restart
    PROVE  DiscoverFit'
<1>1. DiscoverTyped /\ Ledger /\ refreshing' = FALSE /\ fetched' = FALSE /\ chosen' = {} /\ at' = [c \in Caller |-> "idle"]
      /\ UNCHANGED <<today, status, last, nytLast, rated, refused, sent>>
  BY DEF L!Restart, DiscoverFit
<1>2. DOMAIN items' = L!List /\ \A l \in L!List : items'[l] \in {{}, Answers[l]}
  <2>1. items' = items \/ (\E k \in L!List : items' = [items EXCEPT ![k] = {}])
    BY DEF L!Restart
  <2>2. QED
    BY <1>1, <2>1 DEF DiscoverTyped
<1>3. \A c \in Caller : at'[c] = "idle"
  BY <1>1
<1>4. at' \in [Caller -> RefreshStep]
  BY <1>1 DEF RefreshStep
<1>5. DiscoverTyped'
  BY <1>1, <1>2, <1>4 DEF DiscoverTyped
<1>6. Alone'
  BY <1>3 DEF Alone, Active
<1>7. Ledger'
  BY <1>1 DEF Ledger
<1>8. Marked'
  BY <1>3 DEF Marked
<1>9. QED
  BY <1>5, <1>6, <1>7, <1>8 DEF DiscoverFit

-----------------------------------------------------------------------------

LEMMA DiscoverStarts ==
    ASSUME L!Init
    PROVE  DiscoverFit
<1>1. today = 0 /\ items = [l \in L!List |-> {}] /\ status = [b \in ListedBook |-> "pending"] /\ refreshing = FALSE
      /\ last = L!Never /\ nytLast = L!Never /\ rated = [day |-> L!Never, count |-> 0] /\ refused = FALSE
      /\ at = [c \in Caller |-> "idle"] /\ fetched = FALSE /\ chosen = {} /\ sent = {}
  BY DEF L!Init
<1>2. DiscoverTyped
  BY <1>1, DaysAreNumbers DEF DiscoverTyped, RatedSoFar, RefreshStep
<1>3. Alone
  BY <1>1 DEF Alone, Active
<1>4. Ledger
  BY <1>1, DaysAreNumbers, ListedAreFinite DEF Ledger
<1>5. Marked
  BY <1>1 DEF Marked
<1>6. QED
  BY <1>2, <1>3, <1>4, <1>5 DEF DiscoverFit

LEMMA DiscoverGoesOn ==
    ASSUME DiscoverFit, [L!Next]_(L!vars)
    PROVE  DiscoverFit'
<1>1. CASE L!NextDay
  BY <1>1, NextDayKeeps
<1>2. CASE L!Restart
  BY <1>2, DiscoverRestartKeeps
<1>3. CASE \E b \in ListedBook : L!Rate(b)
  BY <1>3, RateKeeps
<1>4. ASSUME NEW c \in Caller,
             \/ L!Start(c) \/ (\E key \in BOOLEAN : L!Begin(c, key)) \/ L!OLTrending(c) \/ L!OLSubject(c) \/ L!Choose(c)
             \/ L!QueueRatings(c) \/ L!Finish(c) \/ L!Cancel(c) \/ \E i \in DOMAIN Weekly : L!NYTList(c, i)
      PROVE  DiscoverFit'
  BY <1>4, StartKeeps, BeginKeeps, FillKeeps, ChooseKeeps, QueueRatingsKeeps, FinishKeeps, NYTListKeeps
<1>5. CASE UNCHANGED L!vars
  BY <1>5 DEF L!vars, DiscoverFit, DiscoverTyped, Alone, Ledger, Marked
<1>6. QED
  BY <1>1, <1>2, <1>3, <1>4, <1>5 DEF L!Next

LEMMA AllowanceHolds ==
    ASSUME DiscoverFit
    PROVE  L!TypeOK /\ L!OneRefresh /\ L!DailyAllowance
<1>1. DiscoverTyped /\ Alone /\ Ledger
  BY DEF DiscoverFit
<1>2. L!TypeOK
  <2>1. rated \in [day : L!Days \cup {L!Never}, count : 0..L!Cardinality(ListedBook)]
    <3>1. rated.count <= Cardinality(ListedBook) /\ rated \in RatedSoFar
      BY <1>1 DEF Ledger, DiscoverTyped
    <3>2. rated.count \in 0..L!Cardinality(ListedBook)
      BY <3>1, CountedTheSame, ListedAreFinite DEF RatedSoFar
    <3>3. QED
      BY <3>1, <3>2 DEF RatedSoFar
  <2>2. at \in [Caller -> L!Place]
    BY <1>1 DEF DiscoverTyped, RefreshStep, L!Place
  <2>3. QED
    BY <1>1, <2>1, <2>2 DEF DiscoverTyped, L!TypeOK
<1>3. L!OneRefresh
  <2>1. DEFINE Refreshers == {c \in Caller : at[c] \notin {"idle", "begin"}}
  <2>2. CASE Refreshers = {}
    <3>1. Cardinality(Refreshers) = 0
      BY <2>2, FS_EmptySet
    <3>2. QED
      BY <3>1, CountedTheSame DEF L!OneRefresh
  <2>3. CASE Refreshers # {}
    <3>1. PICK c \in Caller : c \in Refreshers
      BY <2>3
    <3>2. Refreshers = {c}
      BY <1>1, <3>1 DEF Alone, Active
    <3>3. Cardinality(Refreshers) = 1
      BY <3>2, FS_Singleton
    <3>4. QED
      BY <3>3, CountedTheSame DEF L!OneRefresh
  <2>4. QED
    BY <2>2, <2>3
<1>4. L!DailyAllowance
  BY <1>1, CountedTheSame DEF Ledger, L!DailyAllowance
<1>5. QED
  BY <1>2, <1>3, <1>4

\* Discover (discover/service.go, Refresh and its lock; queueRatings; store/discover.go): for every
\* number of lists, of books and of callers, and every allowance, one refresh at a time fetches
\* the lists, and the books a day's refreshes hand the worker stay within the day's allowance.
THEOREM AllowanceIsKept == Spec => []DailyAllowance
<1> DEFINE Fit == running = "discover" => DiscoverFit
<1>1. Init => Fit
  BY DiscoverStarts DEF Init
<1>2. Fit /\ [Next]_vars => Fit'
  <2>1. ASSUME [Next]_vars, running' = "discover"
        PROVE  running = "discover" /\ [L!Next]_(L!vars)
    BY <2>1 DEF Next, vars, discoverVars, L!vars
  <2>2. QED
    BY <2>1, DiscoverGoesOn
<1>3. Fit => DailyAllowance
  BY AllowanceHolds DEF DailyAllowance
<1>4. QED
  BY <1>1, <1>2, <1>3, PTL DEF Spec
=============================================================================
