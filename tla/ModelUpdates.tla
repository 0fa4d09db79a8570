---------------------------- MODULE ModelUpdates ----------------------------
(***************************************************************************)
(* The models of the family's own Ollama (aitools/aitools.go,              *)
(* ollama/pull.go, updates.go, models.go, their handlers): a daily check   *)
(* and a button on the admin page compare what is installed with the       *)
(* library and announce what is new; a model is downloaded again, one      *)
(* download at a time; a model nobody uses may be deleted. Who runs Ollama *)
(* may do both without NovelCheck.                                         *)
(***************************************************************************)
EXTENDS Naturals, Functions

CONSTANTS
    Model,          \* the models of the AIs that are set up
    Listed,         \* those that modelsInUse knows of
    Checker,        \* the daily loop, the button
    MaxVersion      \* bound: versions of a model in the library

Version == 1..MaxVersion

VARIABLES
    library,    \* each model's newest version
    installed,  \* each model's version on the server, or 0
    pull,       \* the download
    check,      \* each checker
    updates,    \* what the admin page offers: model to version
    seen,       \* what was announced, as the settings say
    page,       \* models whose download the page waits for, or is about to report
    mixed,      \* history: a check came to announce during another one, or was cut off then
    told,       \* history: how often each version was announced until then, up to twice
    unsaved,    \* history: what a check announced until then and could not save as announced
    late        \* history: offered models installed while the check was out, or by others since

vars == <<library, installed, pull, check, updates, seen, page, told, mixed, unsaved, late>>

Nothing == [m \in {} |-> 0]
NoCheck == [at |-> "idle", local |-> Nothing, todo |-> {}, found |-> Nothing, seen |-> Nothing, left |-> {},
            late |-> {}]
NoPull  == [active |-> FALSE, model |-> "", step |-> "none", done |-> FALSE, failed |-> FALSE, least |-> 0]

Put(f, m, v) == [x \in DOMAIN f \cup {m} |-> IF x = m THEN v ELSE f[x]]

VersionsOf(f) == DOMAIN f \subseteq Model /\ \A m \in DOMAIN f : f[m] \in Version

TypeOK ==
    /\ library \in [Model -> Version] /\ installed \in [Model -> 0..MaxVersion]
    /\ pull.model \in Model \cup {""} /\ pull.step \in {"none", "pulling", "written", "refused"}
    /\ pull.active = (pull.step # "none") /\ pull.least \in 0..MaxVersion /\ ~(pull.done /\ pull.failed)
    /\ \A c \in Checker : check[c].at \in {"idle", "local", "ask", "seen", "announce"} /\ VersionsOf(check[c].found)
                         /\ check[c].late \subseteq Model
    /\ VersionsOf(updates) /\ VersionsOf(seen)
    /\ page \subseteq Model /\ late \subseteq Model /\ mixed \in BOOLEAN
    /\ unsaved \subseteq Model \X Version
    /\ told \in [Model \X Version -> 0..2]

Init ==
    /\ library = [m \in Model |-> 1] /\ installed = [m \in Model |-> 1]
    /\ pull = NoPull /\ check = [c \in Checker |-> NoCheck]
    /\ updates = Nothing /\ seen = Nothing /\ page = {}
    /\ told = [x \in Model \X Version |-> 0] /\ mixed = FALSE
    /\ unsaved = {} /\ late = {}

-----------------------------------------------------------------------------
(* A check.                                                                *)

CheckUpdates(c) ==
    /\ check[c].at = "idle"
    /\ check' = [check EXCEPT ![c] = [NoCheck EXCEPT !.at = "local"]]
    /\ UNCHANGED <<library, installed, pull, updates, seen, page, told, mixed, unsaved, late>>

\* What is installed is read once; if the server does not answer there is nothing to compare.
LocalDigests(c, ok) ==
    /\ check[c].at = "local"
    /\ check' = [check EXCEPT ![c].at = "ask", ![c].local = IF ok THEN installed ELSE Nothing,
                              ![c].todo = IF ok THEN {m \in Model : installed[m] # 0} ELSE {}]
    /\ UNCHANGED <<library, installed, pull, updates, seen, page, told, mixed, unsaved, late>>

Differs(c, m) == library[m] # check[c].local[m]

\* The library is asked about one model after the other; one it does not answer for is left out.
RemoteDigest(c, m, ok) ==
    /\ check[c].at = "ask" /\ m \in check[c].todo
    /\ check' = [check EXCEPT ![c].todo = @ \ {m}, ![c].local = Restrict(@, DOMAIN @ \ {m}),
                              ![c].found = IF ok /\ Differs(c, m) THEN Put(@, m, library[m]) ELSE @]
    /\ UNCHANGED <<library, installed, pull, updates, seen, page, told, mixed, unsaved, late>>

\* What was announced is counted until checks are mixed.
Counts ==
    /\ told' = IF mixed' THEN [x \in Model \X Version |-> 0] ELSE told
    /\ unsaved' = IF mixed' THEN {} ELSE unsaved

Announcing(c) == check[c].at \in {"seen", "announce"}
Comparing(c)  == check[c].at = "ask" \/ Announcing(c)

\* The page's list becomes what this check found, which announce goes through.
Keep(c) ==
    /\ check[c].at = "ask" /\ check[c].todo = {}
    /\ updates' = check[c].found
    /\ check' = [check EXCEPT ![c].at = "seen", ![c].left = DOMAIN check[c].found,
                              ![c].local = Nothing, ![c].late = {}]
    /\ mixed' = (mixed \/ \E d \in Checker \ {c} : Comparing(d))
    /\ late' = check[c].late \cap DOMAIN check[c].found
    /\ Counts
    /\ UNCHANGED <<library, installed, pull, seen, page>>

\* announce reads what was announced before.
ReadSeen(c) ==
    /\ check[c].at = "seen"
    /\ check' = [check EXCEPT ![c].at = "announce", ![c].seen = seen]
    /\ UNCHANGED <<library, installed, pull, updates, seen, page, told, mixed, unsaved, late>>

Known(c, m) == m \in DOMAIN check[c].seen /\ check[c].seen[m] = check[c].found[m]

Announce(c, m) ==
    /\ check[c].at = "announce" /\ m \in check[c].left
    /\ IF Known(c, m)
       THEN /\ check' = [check EXCEPT ![c].left = @ \ {m}]
            /\ UNCHANGED told
       ELSE /\ check' = [check EXCEPT ![c].left = @ \ {m}, ![c].seen = Put(@, m, check[c].found[m])]
            /\ told' = [told EXCEPT ![<<m, check[c].found[m]>>] = IF ~mixed /\ @ < 2 THEN @ + 1 ELSE @]
    /\ UNCHANGED <<library, installed, pull, updates, seen, page, mixed, unsaved, late>>

Remembered(c) == check[c].seen

Forgotten(c) == {<<m, check[c].seen[m]>> : m \in {n \in DOMAIN check[c].seen : n \in DOMAIN seen => seen[n] # check[c].seen[n]}}

\* One statement; nobody hears of it when it fails.
WriteSeen(c, ok) ==
    /\ check[c].at = "announce" /\ check[c].left = {}
    /\ seen' = IF ok THEN Remembered(c) ELSE seen
    /\ unsaved' = IF ok \/ mixed THEN unsaved ELSE unsaved \cup Forgotten(c)
    /\ check' = [check EXCEPT ![c] = NoCheck]
    /\ UNCHANGED <<library, installed, pull, updates, page, told, mixed, late>>

-----------------------------------------------------------------------------
(* A download, and the page that waits for it.                             *)

\* One at a time; the page that asked shows its progress.
StartPull(m) ==
    /\ ~pull.active
    /\ pull' = [NoPull EXCEPT !.active = TRUE, !.model = m, !.step = "pulling", !.least = library[m]]
    /\ page' = page \cup {m}
    /\ UNCHANGED <<library, installed, check, updates, seen, told, mixed, unsaved, late>>

\* A model comes while a check asks about what was there before.
Missed(m) == check' = [c \in Checker |-> IF check[c].at = "ask" THEN [check[c] EXCEPT !.late = @ \cup {m}] ELSE check[c]]

\* Ollama has the model: it is the version the library had.
ServerInstalls ==
    /\ pull.step = "pulling"
    /\ installed' = [installed EXCEPT ![pull.model] = library[pull.model]]
    /\ pull' = [pull EXCEPT !.step = "written"]
    /\ Missed(pull.model)
    /\ UNCHANGED <<library, updates, seen, page, told, mixed, unsaved, late>>

\* Mutant: an answer that ends early is taken for the model.
AnyEnd == pull.step \in {"pulling", "written"}

Succeeded == pull.step = "written"

Success ==
    /\ Succeeded
    /\ pull' = [pull EXCEPT !.active = FALSE, !.step = "none", !.done = TRUE]
    /\ UNCHANGED <<library, installed, check, updates, seen, page, told, mixed, unsaved, late>>

\* The answer ends, says an error, or takes too long; a notice comes first.
PullFails ==
    /\ pull.step \in {"pulling", "written"}
    /\ pull' = [pull EXCEPT !.step = "refused", !.least = 0]
    /\ UNCHANGED <<library, installed, check, updates, seen, page, told, mixed, unsaved, late>>

PullEnds ==
    /\ pull.step = "refused"
    /\ pull' = [pull EXCEPT !.active = FALSE, !.step = "none", !.failed = TRUE]
    /\ UNCHANGED <<library, installed, check, updates, seen, page, told, mixed, unsaved, late>>

\* The page sees that the download is done and says so; it may be closed before. The list is
\* shortened in place, and who is going through it to announce may miss some of it.
Updated(m) ==
    /\ m \in page /\ pull.done /\ pull.model = m
    /\ updates' = Restrict(updates, DOMAIN updates \ {m})
    /\ page' = page \ {m}
    /\ \E ms \in SUBSET Model :
         check' = [c \in Checker |-> IF Announcing(c) /\ m \in DOMAIN updates THEN [check[c] EXCEPT !.left = @ \ ms] ELSE check[c]]
    /\ UNCHANGED <<library, installed, pull, seen, told, mixed, unsaved, late>>

Gone(m) ==
    /\ installed[m] # 0
    /\ installed' = [installed EXCEPT ![m] = 0]
    /\ pull' = IF pull.model = m THEN [pull EXCEPT !.least = 0] ELSE pull
    /\ UNCHANGED <<library, check, updates, seen, page, told, mixed, unsaved, late>>

\* A model NovelCheck is set to use is refused; one that is being downloaded is not.
Delete(m) == m \notin Listed /\ Gone(m)

\* Others, on the Ollama machine.
OthersDelete(m) == Gone(m)

OthersPull(m) ==
    /\ installed[m] # library[m]
    /\ installed' = [installed EXCEPT ![m] = library[m]]
    /\ Missed(m) /\ late' = late \cup ({m} \cap DOMAIN updates)
    /\ UNCHANGED <<library, pull, updates, seen, page, told, mixed, unsaved>>

NewVersion(m) ==
    /\ library[m] < MaxVersion
    /\ library' = [library EXCEPT ![m] = @ + 1]
    /\ UNCHANGED <<installed, pull, check, updates, seen, page, told, mixed, unsaved, late>>

\* The process ends: checks, the download and the list are gone; what was announced is saved.
Restart ==
    /\ \E c \in Checker : check[c].at # "idle"
    /\ mixed' = (mixed \/ \E c \in Checker : Announcing(c))
    /\ pull' = NoPull /\ check' = [c \in Checker |-> NoCheck]
    /\ updates' = Nothing /\ page' = {} /\ late' = {}
    /\ Counts
    /\ UNCHANGED <<library, installed, seen>>

Next ==
    \/ \E c \in Checker :
         \/ CheckUpdates(c) \/ Keep(c) \/ ReadSeen(c)
         \/ \E ok \in BOOLEAN : LocalDigests(c, ok) \/ WriteSeen(c, ok) \/ \E m \in Model : RemoteDigest(c, m, ok)
         \/ \E m \in Model : Announce(c, m)
    \/ \E m \in Model : StartPull(m) \/ Updated(m) \/ Delete(m) \/ OthersDelete(m) \/ OthersPull(m) \/ NewVersion(m)
    \/ ServerInstalls \/ Success \/ PullFails \/ PullEnds \/ Restart

Spec == Init /\ [][Next]_vars

-----------------------------------------------------------------------------

\* A version is announced once, as CheckUpdates promises ("announces new
\* versions once each"), unless checks overlapped or one was cut off, or what
\* was announced of this version could not be saved.
AnnouncedOnce == ~mixed => \A x \in Model \X Version : told[x] <= 1 \/ x \in unsaved

\* A download that is done left at least the version there was when it began,
\* unless the model was deleted since.
DoneIsInstalled == pull.done => installed[pull.model] >= pull.least

\* An update the page offers is not what is installed, unless the model came
\* while the check that found it was out, others have installed it since, or
\* the page that asked for it has not said so yet.
OfferedIsNewer ==
    \A m \in DOMAIN updates : updates[m] = installed[m] => m \in late \cup page
=============================================================================
