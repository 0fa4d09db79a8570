------------------------------ MODULE MCBooks ------------------------------
(* What is said of a book, to whom it is shown, and the AIs that say it,   *)
(* side by side for TLC: rules that hide books, the family's own filters,  *)
(* suggestions, the questions put to an AI, the local models and their     *)
(* speed test. They share no state here, so `running` says which of them   *)
(* takes this behaviour's steps, and the others stay as they began.        *)
EXTENDS Integers, Sequences, FiniteSets, TLC

CONSTANTS
    Item, Always, Group, Writer, Parent, Ages,
    FilterKey, Words, Admin, MaxFlags, MaxIds,
    x1, x2, y,      \* books of the values for TLC
    Novel, InSeries, Numbered, By, Peppers, AlikeNovels, OthersRead, Said, Allowed, View,
    Asker, StartsWith, MaySave, MaxSaves,
    LocalModel, Listed, Checker, LastVersion,
    Machine, TestedModels, Biggest, Tester, Page, MaxTests

\* No age group is one that a parent may set.
ASSUME RulesAssumption == 0 \in Ages

ASSUME FiltersAssumption == MaxFlags \in Nat /\ MaxIds \in Nat

\* Every setting has a value of its kind, before and after a save.
Settings ==
    [base : STRING, model : Seq(STRING), fallback : Seq(STRING),
     on : BOOLEAN, backupBase : STRING, backupModels : Seq(STRING)]
ASSUME SettingsAssumption ==
    /\ StartsWith \in Settings /\ MaxSaves \in Nat
    /\ \A new \in MaySave :
         /\ DOMAIN new \subseteq DOMAIN StartsWith
         /\ [k \in DOMAIN StartsWith |-> IF k \in DOMAIN new THEN new[k] ELSE StartsWith[k]] \in Settings

ASSUME UpdatesAssumption == LastVersion \in Nat \ {0}

ASSUME TestsAssumption == Machine # {} /\ MaxTests \in Nat

\* What is known of the books, what a reader may say of them and what the rules may allow.
ASSUME SuggestAssumption ==
    /\ IsFiniteSet(Novel)
    /\ InSeries \in [Novel -> STRING] /\ By \in [Novel -> STRING]
    /\ Numbered \in [Novel -> Int] /\ Peppers \in [Novel -> Int] /\ OthersRead \in [Novel -> Nat]
    /\ Said \subseteq Novel \X {"none", "queued", "reading"}
                        \X {"none", "up", "read", "down", "story", "author", "series", "spicy"}
    /\ Allowed \subseteq SUBSET Novel

\* Values for TLC: three books of an author, two of them a series.
OneAuthor   == (x1 :> "a") @@ (x2 :> "a") @@ (y :> "a")
TwoInSeries == (x1 :> "s") @@ (x2 :> "s") @@ (y :> "")
Volumes     == (x1 :> 1) @@ (x2 :> 2) @@ (y :> 0)
HotAndMild  == (x1 :> 3) @@ (x2 :> 3) @@ (y :> 1)
OneRead     == (x1 :> 0) @@ (x2 :> 1) @@ (y :> 0)
TwoAlike    == {{x2, y}}
AllOrLess   == {{x1, x2, y}, {x1, y}}

\* Values for TLC: a vote of each kind on one book, and a like on another.
VotesAndLikes ==
    ({x1} \X {"none"} \X {"none", "down", "story", "author", "series", "spicy"})
    \cup {<<x1, "queued", "none">>, <<y, "none", "none">>, <<y, "none", "up">>}

\* Values for TLC: one AI is set up; the settings page, the switch to a local AI, and the backup's page.
OneAI ==
    [base |-> "cloud", model |-> <<"m">>, fallback |-> <<>>,
     on |-> FALSE, backupBase |-> "", backupModels |-> <<>>]
SettingsPages ==
    {[base |-> "ollama", model |-> <<"n">>, fallback |-> <<"m">>],
     [model |-> <<"n">>, fallback |-> <<>>],
     [on |-> TRUE, backupBase |-> "cloud", backupModels |-> <<"m", "n">>],
     [on |-> FALSE, backupBase |-> "", backupModels |-> <<>>]}

\* Values for TLC: the main AI has one model, the Deep Scan machine another.
OneEach == ("main" :> {"m"}) @@ ("deep" :> {"n"})

VARIABLES
    running,
    book, rules, profile, save, begun, found,
    flags, next, version, edit, rated, ask, knew, raced, lost, stale,
    visible, queue, votes, mode, set, picking, call, view,
    setting, writing, question, notice, whole, cut, saves,
    library, installed, pull, check, updates, seen, waiting, told, mixed, unsaved, late,
    benching, tester, results, clock, loaded, look, newest, ours, unanswered

hideVars    == <<book, rules, profile, save, begun, found>>
filterVars  == <<flags, next, version, edit, rated, ask, knew, raced, lost, stale>>
suggestVars == <<visible, queue, votes, mode, set, picking, call, view>>
askVars     == <<setting, writing, question, notice, whole, cut, saves>>
updateVars  == <<library, installed, pull, check, updates, seen, waiting, told, mixed, unsaved, late>>
testVars    == <<benching, tester, results, clock, loaded, look, newest, ours, unanswered>>

H == INSTANCE HideRules WITH page <- profile
C == INSTANCE CustomFilters WITH Key <- FilterKey, book <- rated
S == INSTANCE Suggestions WITH
        Book <- Novel, Series <- InSeries, Index <- Numbered, Author <- By, Spice <- Peppers,
        Alike <- AlikeNovels, Family <- OthersRead, Page <- View, Says <- Said, Rules <- Allowed,
        running <- picking, page <- view
Q == INSTANCE AskAI WITH Start <- StartsWith, Saves <- MaySave, save <- writing, ask <- question
U == INSTANCE ModelUpdates WITH Model <- LocalModel, MaxVersion <- LastVersion, page <- waiting
T == INSTANCE SpeedTest WITH ModelsOf <- TestedModels, lost <- unanswered

vars == <<running, hideVars, filterVars, suggestVars, askVars, updateVars, testVars>>

Init ==
    /\ running \in {"hide", "filters", "suggest", "ask", "updates", "tests"}
    /\ H!Init /\ C!Init /\ S!Init /\ Q!Init /\ U!Init /\ T!Init
    /\ running # "hide" => rules = {}

Next ==
    /\ UNCHANGED running
    /\ \/ /\ running = "hide" /\ H!Next
          /\ UNCHANGED <<filterVars, suggestVars, askVars, updateVars, testVars>>
       \/ /\ running = "filters" /\ C!Next
          /\ UNCHANGED <<hideVars, suggestVars, askVars, updateVars, testVars>>
       \/ /\ running = "suggest" /\ S!Next
          /\ UNCHANGED <<hideVars, filterVars, askVars, updateVars, testVars>>
       \/ /\ running = "ask" /\ Q!Next
          /\ UNCHANGED <<hideVars, filterVars, suggestVars, updateVars, testVars>>
       \/ /\ running = "updates" /\ U!Next
          /\ UNCHANGED <<hideVars, filterVars, suggestVars, askVars, testVars>>
       \/ /\ running = "tests" /\ T!Next
          /\ UNCHANGED <<hideVars, filterVars, suggestVars, askVars, updateVars>>

Spec == Init /\ [][Next]_vars

-----------------------------------------------------------------------------

\* Hide rules: a book whose first check found something a kid's rules hide is not shown to
\* that kid.
FirstCheckHides == running = "hide" => H!TypeOK /\ H!FirstCheckHides

\* Filters: one saved since a book's rating makes the book offered for a new one.
SavedBeforeIsOffered == running = "filters" => C!TypeOK /\ C!SavedBeforeIsOffered

\* Suggestions: for a reader who likes something, a vote against outweighs what speaks for a
\* book.
RuledOutIsOut == running = "suggest" => S!TypeOK /\ S!RuledOutIsOut

\* Questions: one fails only when every model was asked or stands behind a server that is
\* down, and who read the settings while nobody saved asks what the saves said.
AsksAllThatWasSaved ==
    running = "ask" => Q!TypeOK /\ Q!FailedMeansAllTried /\ Q!AsksWhatWasSaved

\* Local models: a new version is announced once, unless checks overlapped, one was cut off or
\* what was announced could not be saved; a download that is done left at least the version there
\* was when it began; and an update the page offers is not what is installed, but for a download
\* that was not reported and what came during the check or was installed by others.
UpdatesAreTrue ==
    running = "updates" => U!TypeOK /\ U!AnnouncedOnce /\ U!DoneIsInstalled /\ U!OfferedIsNewer

\* Speed tests: none that was saved is lost to another one, and a model loaded only for a look
\* at the graphics card is unloaded again.
TestsLeaveTheirResult ==
    running = "tests" => T!TypeOK /\ T!BenchKept /\ T!MeasuredIsUnloaded
=============================================================================
