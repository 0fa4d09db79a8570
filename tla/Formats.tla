------------------------------ MODULE Formats ------------------------------
(***************************************************************************)
(* Format cleanup (api/formatjob.go, formats_handlers.go, formatruns.go,   *)
(* formatconvert.go, store/formats.go, formatlog.go, calibresrv): remove   *)
(* the formats a parent does not keep, put removed ones back, convert to   *)
(* EPUB. A request lists the files from NovelCheck's last sync, then       *)
(* begins the one job; the job asks Calibre once what it has, then goes    *)
(* file by file, each a call that may fail or whose answer may be lost.    *)
(* Meanwhile others work in Calibre.                                       *)
(***************************************************************************)
EXTENDS FiniteSets, Naturals

CONSTANTS
    Entry,      \* Calibre's books
    Format,     \* their formats; the first to convert to is Epub
    Epub,
    Admin       \* requests; each that begins a job is a goroutine from then on

File == Entry \X Format
Library == {"same", "other"}    \* the one NovelCheck reads, and one whose books have other titles

VARIABLES
    has,        \* Calibre's formats
    seen,       \* catalog_books: the formats of the last sync
    same,       \* NovelCheck reads the folder of the library that Calibre serves
    bin,        \* Calibre's recycle bin
    log,        \* format_removals that can be undone
    running,    \* formatJob.st.Running
    stop,       \* formatJob.stop
    run,        \* each request and its goroutine
    blind       \* history: the job's files went to a bin NovelCheck cannot read

vars == <<has, seen, same, bin, log, running, stop, run, blind>>

Idle == [at |-> "idle", kind |-> "remove", keep |-> {}, left |-> {}, book |-> {}, on |-> "same", have |-> [e \in Entry |-> {}],
         file |-> CHOOSE f \in File : TRUE, checked |-> FALSE]

TypeOK ==
    /\ has \in [Entry -> SUBSET Format] /\ seen \in [Entry -> SUBSET Format]
    /\ same \in BOOLEAN /\ running \in BOOLEAN /\ stop \in BOOLEAN
    /\ bin \subseteq File /\ log \subseteq File
    /\ \A a \in Admin :
         /\ run[a].at \in {"idle", "listed", "check", "next", "log", "trash", "mark", "poll", "sync"}
         /\ run[a].kind \in {"remove", "restore", "convert"}
         /\ run[a].keep \subseteq Format /\ run[a].left \subseteq File /\ run[a].book \subseteq Entry /\ run[a].file \in File
         /\ run[a].on \in Library /\ run[a].have \in [Entry -> SUBSET Format] /\ run[a].checked \in BOOLEAN
    /\ blind \in BOOLEAN

Init ==
    /\ has = [e \in Entry |-> Format] /\ seen = has
    /\ same \in BOOLEAN
    /\ bin = {} /\ log = {} /\ running = FALSE /\ stop = FALSE
    /\ run = [a \in Admin |-> Idle]
    /\ blind = FALSE

-----------------------------------------------------------------------------
(* Calibre and the settings.                                               *)

EditCalibre(e, fs) ==
    /\ fs # has[e]
    /\ has' = [has EXCEPT ![e] = fs]
    /\ UNCHANGED <<seen, same, bin, log, running, stop, run, blind>>

EmptyBin ==
    /\ bin # {} /\ bin' = {}
    /\ UNCHANGED <<has, seen, same, log, running, stop, run, blind>>

Sync ==
    /\ same /\ seen' = has
    /\ UNCHANGED <<has, same, bin, log, running, stop, run, blind>>

\* UndoDays are over.
Forget(f) ==
    /\ f \in log /\ log' = log \ {f}
    /\ UNCHANGED <<has, seen, same, bin, running, stop, run, blind>>

-----------------------------------------------------------------------------
(* The handlers: is a job running, what is there to do; then begin.        *)

\* A book with a kept format loses the others.
FormatCleanup(keep) == {f \in File : f[2] \in seen[f[1]] \ keep /\ seen[f[1]] \cap keep # {}}

\* The best format to convert from, of a book with no EPUB.
ToConvert == {f \in File : f[2] \in seen[f[1]] /\ Epub \notin seen[f[1]]}

List(a, kind, keep, files) ==
    /\ run[a].at = "idle" /\ ~running
    /\ files # {}
    /\ run' = [run EXCEPT ![a] = [Idle EXCEPT !.at = "listed", !.kind = kind, !.keep = keep, !.left = files]]
    /\ UNCHANGED <<has, seen, same, bin, log, running, stop, blind>>

\* The loser of two is told that a job is running.
Begin(a) ==
    /\ run[a].at = "listed"
    /\ running' = TRUE
    /\ stop' = (running /\ stop)
    /\ run' = [run EXCEPT ![a] = IF running THEN Idle ELSE [@ EXCEPT !.at = "check"]]
    /\ UNCHANGED <<has, seen, same, bin, log, blind>>

AskStop ==
    /\ stop' = TRUE
    /\ UNCHANGED <<has, seen, same, bin, log, running, run, blind>>

End(a) ==
    /\ running' = FALSE
    /\ run' = [run EXCEPT ![a] = [Idle EXCEPT !.at = "sync"]]
    /\ blind' = FALSE

\* On to the next file.
Back(a, checked) == run' = [run EXCEPT ![a].at = "next", ![a].file = Idle.file, ![a].checked = checked]

-----------------------------------------------------------------------------
(* The job.                                                                *)

TitlesAgree(served) == served = "same"

\* checkTitles: the client has the settings of now, whichever library they name; a book of
\* another title, or no answer, ends the job.
CheckTitles(a, served) ==
    /\ run[a].at = "check"
    /\ \/ /\ TitlesAgree(served)
          /\ run' = [run EXCEPT ![a].at = "next", ![a].on = served, ![a].have = has]
          /\ UNCHANGED <<running, blind>>
       \/ End(a)
    /\ UNCHANGED <<has, seen, same, bin, log, stop>>

\* What is left of the book that is being cleaned up; a stop is seen between books.
Rest(a) == {f \in run[a].left : f[1] \in run[a].book}

Now(a, f) ==
    /\ run[a].at = "next" /\ f \in run[a].left
    /\ IF Rest(a) = {} THEN ~stop ELSE f \in Rest(a)

Took(a, f) ==
    LET left == run[a].left \ {f} IN
    [run[a] EXCEPT !.left = left,
                   !.book = {e \in {f[1]} : run[a].kind = "remove" /\ \E g \in left : g[1] = e}]

Skip(a, f) == run' = [run EXCEPT ![a] = Took(a, f)]
Hold(a, f, at) == run' = [run EXCEPT ![a] = [Took(a, f) EXCEPT !.at = at, !.file = f]]

\* Mutant: the list of the last sync is believed.
ConfirmedByList(a, f) == TRUE

\* The book still has a kept format, and the file.
Confirmed(a, f) == run[a].have[f[1]] \cap run[a].keep # {} /\ f[2] \in run[a].have[f[1]]

\* A different library's book would go; the job's client is the one that was checked.
RemoveFormat(a, f) ==
    /\ Now(a, f) /\ run[a].kind = "remove"
    /\ IF Confirmed(a, f)
       THEN \/ Skip(a, f) /\ UNCHANGED <<has, bin>>                      \* Calibre refused
            \/ /\ has' = [has EXCEPT ![f[1]] = @ \ {f[2]}]
               /\ bin' = IF f[2] \in has[f[1]] THEN bin \cup {f} ELSE bin
               /\ \/ Hold(a, f, "log")
                  \/ Skip(a, f)                                          \* the answer is lost
       ELSE Skip(a, f) /\ UNCHANGED <<has, bin>>
    /\ UNCHANGED <<seen, same, log, running, stop, blind>>

LogFormatRemoval(a) ==
    /\ run[a].at = "log"
    /\ log' = log \cup {run[a].file}
    /\ blind' = (blind \/ ~same)
    /\ IF run[a].checked THEN Back(a, TRUE) ELSE run' = [run EXCEPT ![a].at = "trash"]
    /\ UNCHANGED <<has, seen, same, bin, running, stop>>

\* The bin is there, where NovelCheck reads.
InTrash(f) == same /\ f \in bin

\* After the first file: Undo needs what Calibre keeps.
WaitForTrash(a) ==
    /\ run[a].at = "trash"
    /\ IF InTrash(run[a].file)
       THEN Back(a, TRUE) /\ UNCHANGED <<running, blind>>
       ELSE End(a)
    /\ UNCHANGED <<has, seen, same, bin, log, stop>>

\* Back already, gone from the bin, or sent back.
AddFormat(a, f) ==
    LET back == run[a].have[f[1]] IN
    /\ Now(a, f) /\ run[a].kind = "restore"
    /\ \/ f[2] \in back /\ has' = has /\ Hold(a, f, "mark")
       \/ f[2] \notin back /\ has' = has /\ Skip(a, f)
       \/ f[2] \notin back /\ InTrash(f) /\ has' = [has EXCEPT ![f[1]] = @ \cup {f[2]}]
          /\ (Skip(a, f) \/ Hold(a, f, "mark"))
    /\ UNCHANGED <<seen, same, bin, log, running, stop, blind>>

MarkRestored(a) ==
    /\ run[a].at = "mark"
    /\ log' = log \ {run[a].file}
    /\ Back(a, FALSE)
    /\ UNCHANGED <<has, seen, same, bin, running, stop, blind>>

\* Calibre converts by itself, and adds the EPUB when it is asked for the finished job.
StartConversion(a, f) ==
    /\ Now(a, f) /\ run[a].kind = "convert"
    /\ \/ /\ Epub \notin run[a].have[f[1]] /\ f[2] \in run[a].have[f[1]]
          /\ Hold(a, f, "poll")
       \/ Skip(a, f)
    /\ UNCHANGED <<has, seen, same, bin, log, running, stop, blind>>

ConversionStatus(a) ==
    /\ run[a].at = "poll"
    /\ has' = has \/ has' = [has EXCEPT ![run[a].file[1]] = @ \cup {Epub}]
    /\ Back(a, FALSE)
    /\ UNCHANGED <<seen, same, bin, log, running, stop, blind>>

Finish(a) ==
    /\ run[a].at = "next" /\ Rest(a) = {} /\ (run[a].left = {} \/ stop)
    /\ End(a)
    /\ UNCHANGED <<has, seen, same, bin, log, stop>>

AfterFormatJob(a) ==
    /\ run[a].at = "sync"
    /\ seen' = IF same THEN has ELSE seen
    /\ run' = [run EXCEPT ![a] = Idle]
    /\ UNCHANGED <<has, same, bin, log, running, stop, blind>>

\* A restart forgets the job; what was removed and not logged cannot be undone from here.
Restart ==
    /\ running' = FALSE /\ stop' = FALSE
    /\ run' = [a \in Admin |-> Idle]
    /\ blind' = FALSE
    /\ UNCHANGED <<has, seen, same, bin, log>>

Next ==
    \/ \E e \in Entry, fs \in SUBSET Format : EditCalibre(e, fs)
    \/ EmptyBin \/ Sync \/ AskStop \/ Restart
    \/ \E f \in File : Forget(f)
    \/ \E a \in Admin :
         \/ \E keep \in SUBSET Format : keep # {} /\ List(a, "remove", keep, FormatCleanup(keep))
         \/ \E fs \in SUBSET log : List(a, "restore", {}, fs)            \* one file, or those of a run
         \/ \E es \in SUBSET Entry : List(a, "convert", {}, {f \in ToConvert : f[1] \in es})
         \/ Begin(a) \/ (\E l \in Library : CheckTitles(a, l)) \/ LogFormatRemoval(a) \/ WaitForTrash(a) \/ MarkRestored(a)
         \/ ConversionStatus(a) \/ Finish(a) \/ AfterFormatJob(a)
         \/ \E f \in File : RemoveFormat(a, f) \/ AddFormat(a, f) \/ StartConversion(a, f)

Spec == Init /\ [][Next]_vars

-----------------------------------------------------------------------------

\* "One background job at a time": no two goroutines are removing, putting back or converting,
\* though two requests found no job running.
OneJob == Cardinality({a \in Admin : run[a].at \notin {"idle", "listed", "sync"}}) <= 1

\* "Only from books calibre confirms still have a kept format": as long as nobody else changes
\* the book's kept formats while the job runs, a cleanup leaves it one, however old the list.
KeptFormatStays ==
    \A a \in Admin, f \in File :
       LET kept == has[f[1]] \cap run[a].keep IN
       RemoveFormat(a, f) /\ has' # has /\ kept = run[a].have[f[1]] \cap run[a].keep
         => has'[f[1]] \cap run[a].keep # {}

\* "A Content server serving a different library is never touched", whatever is saved in the
\* settings before and while the job runs.
OtherLibraryUntouched ==
    \A a \in Admin, f \in File : (RemoveFormat(a, f) \/ AddFormat(a, f)) /\ has' # has => run[a].on = "same"

\* "Undo needs calibre to keep what it removes": where NovelCheck cannot see the recycle bin,
\* no file is removed after the first.
OneFileBlind == blind => \A a \in Admin : run[a].at # "next"
=============================================================================
