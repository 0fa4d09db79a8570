---------------------------- MODULE Books_proofs ----------------------------
(***************************************************************************)
(* What the parts of MCBooks keep, for any values of the constants. Each   *)
(* part shares no state with the others, so each has its invariant, true   *)
(* while the part runs.                                                    *)
(*                                                                         *)
(* Hide rules: what a book's first check found is in the book, or the save *)
(* that is under way has still to insert it before it stamps the book as   *)
(* checked. Filters: a filter that the book's question did not name leaves *)
(* the book's version behind, or some request is about to raise it from at *)
(* least there. Questions: between saves the settings are what the last    *)
(* one said, who reads them then has read so many of it, and the models    *)
(* before the one asked now were asked or stand behind a server that is    *)
(* down. Local models: no download or check knows of more than the library *)
(* has, what is announced is newer than what was told and saved, and who   *)
(* announces remembers all that was but what could not be saved. Speed     *)
(* tests: who writes the results has read what is saved, and who loaded a  *)
(* model for a look is still there to unload it. Suggestions need no such  *)
(* invariant but a sum: taken one signal at a time, likes of at most 1240  *)
(* points each do not make up for a vote that takes 60000.                 *)
(***************************************************************************)
EXTENDS MCBooks, FiniteSetTheorems, WellFoundedInduction, TLAPS

-----------------------------------------------------------------------------
(* Hide rules.                                                             *)

SaveStep  == {"idle", "asked", "rate", "clear", "insert", "stamp"}
SaveState == [at : SaveStep, items : SUBSET Item, checks : BOOLEAN, keep : BOOLEAN]
BookRow   == [status : {"pending", "analyzed"}, by : {"nobody", "ai", "hand"}, approved : BOOLEAN,
              age : Ages, checked : BOOLEAN, content : SUBSET Item]
PageState == [at : {"idle", "clear", "insert"}, left : SUBSET H!Rule]

HideTyped ==
    /\ book \in BookRow /\ rules \in SUBSET H!Rule /\ profile \in PageState
    /\ save \in [Writer -> SaveState]
    /\ begun \in 0..2 /\ found \in SUBSET Item

\* What a save of the first check has still to insert, and what the book has of it.
SaveFits(p, content) ==
    /\ p.at = "insert" => found \subseteq content \cup p.items
    /\ p.at = "stamp" => found \subseteq content

\* No check, no stamp; and no stamp of the first check before its items.
FirstCheckFits ==
    /\ begun = 0 => ~book.checked /\ \A w \in Writer : save[w].at \notin {"insert", "stamp"}
    /\ begun = 1 => \A w \in Writer : SaveFits(save[w], book.content)
    /\ begun = 1 /\ book.checked => found \subseteq book.content

HideFit == HideTyped /\ FirstCheckFits

\* What a save becomes.
SAsked(k)       == [H!Idle EXCEPT !.at = "asked", !.keep = k]
SAnswered(v, is) == [at |-> v, items |-> is, checks |-> TRUE, keep |-> FALSE]
SRates(is, c)   == [at |-> "rate", items |-> is, checks |-> c, keep |-> FALSE]
SGoes(p, v)     == [p EXCEPT !.at = v]
SLess(p, is, v) == [p EXCEPT !.items = is, !.at = v]

LEMMA IdleSave == H!Idle \in SaveState /\ H!Idle.at = "idle"
<1>1. "idle" \in SaveStep /\ {} \in SUBSET Item /\ FALSE \in BOOLEAN
  BY DEF SaveStep
<1>2. QED
  BY <1>1 DEF H!Idle, SaveState

LEMMA SAskedFields ==
    ASSUME NEW k \in BOOLEAN
    PROVE  SAsked(k) \in SaveState /\ SAsked(k).at = "asked"
  BY IdleSave DEF SaveState, SaveStep, SAsked

LEMMA SAnsweredFields ==
    ASSUME NEW v \in SaveStep, NEW is \in SUBSET Item
    PROVE  SAnswered(v, is) \in SaveState /\ SAnswered(v, is).at = v
  BY DEF SaveState, SAnswered

LEMMA SRatesFields ==
    ASSUME NEW is \in SUBSET Item, NEW c \in BOOLEAN
    PROVE  SRates(is, c) \in SaveState /\ SRates(is, c).at = "rate"
<1>1. FALSE \in BOOLEAN
  OBVIOUS
<1>2. QED
  BY <1>1 DEF SaveState, SaveStep, SRates

LEMMA SGoesFields ==
    ASSUME NEW p \in SaveState, NEW v \in SaveStep
    PROVE  SGoes(p, v) \in SaveState /\ SGoes(p, v).at = v /\ SGoes(p, v).items = p.items
  BY DEF SaveState, SGoes

LEMMA SLessFields ==
    ASSUME NEW p \in SaveState, NEW is \in SUBSET Item, NEW v \in SaveStep
    PROVE  SLess(p, is, v) \in SaveState /\ SLess(p, is, v).at = v /\ SLess(p, is, v).items = is
  BY DEF SaveState, SLess

LEMMA HideFacts ==
    ASSUME HideTyped
    PROVE  /\ book \in BookRow /\ rules \in SUBSET H!Rule /\ profile \in PageState
           /\ save \in [Writer -> SaveState] /\ begun \in 0..2 /\ found \in SUBSET Item
           /\ book.status \in {"pending", "analyzed"} /\ book.by \in {"nobody", "ai", "hand"} /\ book.approved \in BOOLEAN
           /\ book.age \in Ages /\ book.checked \in BOOLEAN /\ book.content \in SUBSET Item
           /\ profile.at \in {"idle", "clear", "insert"} /\ profile.left \in SUBSET H!Rule
           /\ \A w \in Writer : /\ save[w] \in SaveState /\ save[w].at \in SaveStep /\ save[w].items \in SUBSET Item
                                /\ save[w].checks \in BOOLEAN /\ save[w].keep \in BOOLEAN
  BY DEF HideTyped, BookRow, PageState, SaveState

LEMMA EmptyPage == H!NoPage \in PageState
<1>1. {} \in SUBSET H!Rule
  OBVIOUS
<1>2. QED
  BY <1>1 DEF H!NoPage, PageState

\* A save moves on, and neither the book's items nor its stamp change.
LEMMA SaveMoves ==
    ASSUME HideFit, NEW w \in Writer, NEW p \in SaveState, save' = [save EXCEPT ![w] = p],
           p.at \notin {"insert", "stamp"},
           book' \in BookRow, book'.content = book.content, book'.checked = book.checked,
           UNCHANGED <<rules, profile, begun, found>>
    PROVE  HideFit'
<1>1. HideTyped'
  BY DEF HideFit, HideTyped
<1>2. \A v \in Writer : save'[v] = IF v = w THEN p ELSE save[v]
  BY DEF HideFit, HideTyped
<1>3. FirstCheckFits'
  BY <1>2 DEF HideFit, FirstCheckFits, SaveFits
<1>4. QED
  BY <1>1, <1>3 DEF HideFit

LEMMA RerateFits ==
    ASSUME HideFit, NEW w \in Writer, H!Rerate(w)
    PROVE  HideFit'
<1> DEFINE k == book.status = "analyzed" /\ H!KeepsRating
           p == SAsked(k)
<1>1. k \in BOOLEAN
  BY DEF H!KeepsRating
<1>2. save' = [save EXCEPT ![w] = p] /\ UNCHANGED <<book, rules, profile, begun, found>>
  BY DEF H!Rerate, SAsked
<1> HIDE DEF k
<1>3. p \in SaveState /\ p.at = "asked"
  BY <1>1, SAskedFields
<1> HIDE DEF p
<1>4. book' \in BookRow
  BY <1>2 DEF HideFit, HideTyped
<1>5. QED
  BY <1>2, <1>3, <1>4, SaveMoves

LEMMA AnswerFits ==
    ASSUME HideFit, NEW w \in Writer, NEW is \in SUBSET Item, H!Answer(w, is)
    PROVE  HideFit'
<1> DEFINE v == IF save[w].keep THEN "clear" ELSE "rate"
           p == SAnswered(v, is)
<1>1. save[w] \in SaveState /\ save[w].keep \in BOOLEAN /\ save \in [Writer -> SaveState]
  BY HideFacts DEF HideFit
<1>2. v \in SaveStep /\ v \notin {"insert", "stamp"}
  BY DEF SaveStep
<1>3. save' = [save EXCEPT ![w] = p] /\ UNCHANGED <<book, rules, profile, begun, found>>
  BY <1>1 DEF H!Answer, SAnswered
<1> HIDE DEF v
<1>4. p \in SaveState /\ p.at = v
  BY <1>2, SAnsweredFields
<1> HIDE DEF p
<1>5. book' \in BookRow
  BY <1>3 DEF HideFit, HideTyped
<1>6. QED
  BY <1>2, <1>3, <1>4, <1>5, SaveMoves

LEMMA VerdictFits ==
    ASSUME HideFit, NEW w \in Writer, NEW is \in SUBSET Item, NEW listed \in BOOLEAN, H!SetVerdict(w, is, listed)
    PROVE  HideFit'
<1> DEFINE c == listed /\ H!Counts(is)
           some == IF c THEN is ELSE {}
           p == SRates(some, c)
<1>1. c \in BOOLEAN /\ some \in SUBSET Item
  OBVIOUS
<1>2. save' = [save EXCEPT ![w] = p] /\ UNCHANGED <<book, rules, profile, begun, found>>
  BY DEF H!SetVerdict, SRates
<1> HIDE DEF c, some
<1>3. p \in SaveState /\ p.at = "rate"
  BY <1>1, SRatesFields
<1> HIDE DEF p
<1>4. book' \in BookRow
  BY <1>2 DEF HideFit, HideTyped
<1>5. QED
  BY <1>2, <1>3, <1>4, SaveMoves

LEMMA AnalysisFits ==
    ASSUME HideFit, NEW w \in Writer, H!SaveAnalysis(w)
    PROVE  HideFit'
<1> DEFINE p == IF save[w].checks THEN SGoes(save[w], "clear") ELSE H!Idle
           b == IF w \in Parent THEN "hand" ELSE "ai"
<1>1. save[w] \in SaveState /\ save[w].items \in SUBSET Item /\ save[w].checks \in BOOLEAN /\ save[w].keep \in BOOLEAN
      /\ save \in [Writer -> SaveState] /\ book \in BookRow
  BY HideFacts DEF HideFit
<1>3. save' = [save EXCEPT ![w] = p] /\ book' = [book EXCEPT !.status = "analyzed", !.by = b]
      /\ UNCHANGED <<rules, profile, begun, found>>
  BY DEF H!SaveAnalysis, SGoes
<1>4. "clear" \in SaveStep
  BY DEF SaveStep
<1>5. p \in SaveState /\ p.at \notin {"insert", "stamp"}
  BY <1>1, <1>4, SGoesFields, IdleSave
<1>6. b \in {"nobody", "ai", "hand"}
  OBVIOUS
<1> HIDE DEF p, b
<1>7. book' \in BookRow /\ book'.content = book.content /\ book'.checked = book.checked
  BY <1>1, <1>3, <1>6 DEF BookRow
<1>8. QED
  BY <1>3, <1>5, <1>7, SaveMoves

LEMMA ClearFits ==
    ASSUME HideFit, NEW w \in Writer, H!ClearContent(w)
    PROVE  HideFit'
<1> DEFINE v == IF save[w].items = {} THEN "stamp" ELSE "insert"
           p == SGoes(save[w], v)
<1>1. save[w] \in SaveState /\ save[w].items \in SUBSET Item /\ save[w].checks \in BOOLEAN /\ save[w].keep \in BOOLEAN
      /\ save \in [Writer -> SaveState] /\ book \in BookRow /\ begun \in 0..2 /\ found \in SUBSET Item
  BY HideFacts DEF HideFit
<1>2. v \in SaveStep
  BY DEF SaveStep
<1>3. save' = [save EXCEPT ![w] = p] /\ book' = [book EXCEPT !.content = {}] /\ UNCHANGED <<rules, profile>>
      /\ found' = (IF begun = 0 THEN save[w].items ELSE {}) /\ begun' = (IF begun < 2 THEN begun + 1 ELSE 2)
  BY <1>1 DEF H!ClearContent, SGoes
<1>4. v = "stamp" => save[w].items = {}
  OBVIOUS
<1>5. v \in {"stamp", "insert"}
  OBVIOUS
<1> HIDE DEF v
<1>6. p \in SaveState /\ p.at = v /\ p.items = save[w].items
  BY <1>1, <1>2, SGoesFields
<1> HIDE DEF p
<1>7. {} \in SUBSET Item
  OBVIOUS
<1>8. book' \in BookRow /\ book'.content = {} /\ book'.checked = book.checked
  BY <1>1, <1>3, <1>7 DEF BookRow
<1>9. HideTyped'
  BY <1>1, <1>3, <1>6, <1>8 DEF HideFit, HideTyped
<1>10. \A u \in Writer : save'[u] = IF u = w THEN p ELSE save[u]
  BY <1>1, <1>3
<1>11. FirstCheckFits'
  <2>1. CASE begun = 0
    <3>1. ~book.checked /\ \A u \in Writer : save[u].at \notin {"insert", "stamp"}
      BY <2>1 DEF HideFit, FirstCheckFits
    <3>2. begun' = 1 /\ found' = save[w].items
      BY <2>1, <1>3
    <3>3. QED
      BY <3>1, <3>2, <1>4, <1>6, <1>8, <1>10 DEF FirstCheckFits, SaveFits
  <2>2. CASE begun # 0
    BY <2>2, <1>1, <1>3 DEF FirstCheckFits
  <2>3. QED
    BY <2>1, <2>2
<1>12. QED
  BY <1>9, <1>11 DEF HideFit

LEMMA InsertFits ==
    ASSUME HideFit, NEW w \in Writer, NEW i \in Item, H!InsertContent(w, i)
    PROVE  HideFit'
<1> DEFINE v == IF save[w].items = {i} THEN "stamp" ELSE "insert"
           p == SLess(save[w], save[w].items \ {i}, v)
<1>1. save[w] \in SaveState /\ save[w].items \in SUBSET Item /\ save[w].checks \in BOOLEAN /\ save[w].keep \in BOOLEAN
      /\ save \in [Writer -> SaveState] /\ book \in BookRow /\ begun \in 0..2 /\ found \in SUBSET Item
      /\ book.content \in SUBSET Item
  BY HideFacts DEF HideFit
<1>2. v \in SaveStep /\ v \in {"stamp", "insert"} /\ (v = "stamp" => save[w].items = {i})
  BY DEF SaveStep
<1>3. save' = [save EXCEPT ![w] = p] /\ book' = [book EXCEPT !.content = book.content \cup {i}]
      /\ UNCHANGED <<rules, profile, begun, found>>
  BY <1>1 DEF H!InsertContent, SLess
<1>4. save[w].at = "insert"
  BY <1>1 DEF H!InsertContent, SLess
<1> HIDE DEF v
<1>5. p \in SaveState /\ p.at = v /\ p.items = save[w].items \ {i}
  BY <1>1, <1>2, SLessFields
<1> HIDE DEF p
<1>6. book.content \cup {i} \in SUBSET Item
  BY <1>1
<1>7. book' \in BookRow /\ book'.content = book.content \cup {i} /\ book'.checked = book.checked
  BY <1>1, <1>3, <1>6 DEF BookRow
<1>8. HideTyped'
  BY <1>1, <1>3, <1>5, <1>7 DEF HideFit, HideTyped
<1>9. \A u \in Writer : save'[u] = IF u = w THEN p ELSE save[u]
  BY <1>1, <1>3
<1>10. begun = 1 => SaveFits(save[w], book.content)
  BY DEF HideFit, FirstCheckFits
<1>11. begun = 1 => found \subseteq book.content \cup save[w].items
  BY <1>10, <1>4 DEF SaveFits
<1>12. begun # 0
  BY <1>4 DEF HideFit, FirstCheckFits
<1>13. ASSUME begun = 1
       PROVE  \A u \in Writer : SaveFits(save[u], book.content \cup {i})
  BY <1>13 DEF HideFit, FirstCheckFits, SaveFits
<1>14. begun = 1 => /\ p.at = "insert" => found \subseteq book.content \cup {i} \cup p.items
                    /\ p.at = "stamp" => found \subseteq book.content \cup {i}
  BY <1>2, <1>5, <1>11
<1>15. FirstCheckFits'
  <2>1. begun' = 1 => \A u \in Writer : SaveFits(save[u], book.content)'
    BY <1>3, <1>7, <1>9, <1>13, <1>14 DEF SaveFits
  <2>2. begun' = 1 /\ book'.checked => found' \subseteq book'.content
    BY <1>3, <1>7 DEF HideFit, FirstCheckFits
  <2>3. QED
    BY <2>1, <2>2, <1>3, <1>12 DEF FirstCheckFits
<1>16. QED
  BY <1>8, <1>15 DEF HideFit

LEMMA StampFits ==
    ASSUME HideFit, NEW w \in Writer, H!Stamp(w)
    PROVE  HideFit'
<1>1. save \in [Writer -> SaveState] /\ book \in BookRow /\ TRUE \in BOOLEAN
  BY HideFacts DEF HideFit
<1>2. book' = [book EXCEPT !.checked = TRUE] /\ save' = [save EXCEPT ![w] = H!Idle] /\ save[w].at = "stamp"
      /\ UNCHANGED <<rules, profile, begun, found>>
  BY DEF H!Stamp
<1>3. book' \in BookRow /\ book'.content = book.content
  BY <1>1, <1>2 DEF BookRow
<1>4. HideTyped'
  BY <1>1, <1>2, <1>3, IdleSave DEF HideFit, HideTyped
<1>5. \A u \in Writer : save'[u] = IF u = w THEN H!Idle ELSE save[u]
  BY <1>1, <1>2
<1>6. begun # 0 /\ (begun = 1 => found \subseteq book.content)
  BY <1>2 DEF HideFit, FirstCheckFits, SaveFits
<1>7. FirstCheckFits'
  BY <1>2, <1>3, <1>5, <1>6, IdleSave DEF HideFit, FirstCheckFits, SaveFits
<1>8. QED
  BY <1>4, <1>7 DEF HideFit

\* What parents decide about the book and the kid leaves saves and items alone.
LEMMA ParentsFit ==
    ASSUME HideFit, book' \in BookRow, book'.content = book.content, book'.checked = book.checked,
           rules' \in SUBSET H!Rule, profile' \in PageState, UNCHANGED <<save, begun, found>>
    PROVE  HideFit'
<1>1. HideTyped'
  BY DEF HideFit, HideTyped
<1>2. FirstCheckFits'
  BY DEF HideFit, FirstCheckFits, SaveFits
<1>3. QED
  BY <1>1, <1>2 DEF HideFit

LEMMA DecisionFits ==
    ASSUME HideFit,
           \/ \E yes \in BOOLEAN : H!SetApproved(yes)
           \/ \E age \in Ages : H!SetBookAge(age)
           \/ \E keys \in SUBSET H!Rule : H!UpdateUserProfile(keys)
           \/ H!ClearRules
           \/ \E r \in H!Rule : H!InsertRule(r)
    PROVE  HideFit'
<1>0. book \in BookRow /\ rules \in SUBSET H!Rule /\ profile \in PageState /\ profile.left \in SUBSET H!Rule
  BY HideFacts DEF HideFit
<1>1. ASSUME NEW yes \in BOOLEAN, H!SetApproved(yes)
      PROVE  HideFit'
  <2>1. book' \in BookRow /\ book'.content = book.content /\ book'.checked = book.checked
    BY <1>0, <1>1 DEF H!SetApproved, BookRow
  <2>2. UNCHANGED <<rules, profile, save, begun, found>>
    BY <1>1 DEF H!SetApproved
  <2>3. QED
    BY <1>0, <2>1, <2>2, ParentsFit
<1>2. ASSUME NEW age \in Ages, H!SetBookAge(age)
      PROVE  HideFit'
  <2>1. book' \in BookRow /\ book'.content = book.content /\ book'.checked = book.checked
    BY <1>0, <1>2 DEF H!SetBookAge, BookRow
  <2>2. UNCHANGED <<rules, profile, save, begun, found>>
    BY <1>2 DEF H!SetBookAge
  <2>3. QED
    BY <1>0, <2>1, <2>2, ParentsFit
<1>3. ASSUME NEW keys \in SUBSET H!Rule, H!UpdateUserProfile(keys)
      PROVE  HideFit'
  <2>1. profile' \in PageState
    BY <1>3 DEF H!UpdateUserProfile, PageState
  <2>2. UNCHANGED <<book, rules, save, begun, found>>
    BY <1>3 DEF H!UpdateUserProfile
  <2>3. QED
    BY <1>0, <2>1, <2>2, ParentsFit
<1>4. ASSUME H!ClearRules
      PROVE  HideFit'
  <2>1. profile' = H!NoPage \/ profile' = [profile EXCEPT !.at = "insert"]
    BY <1>4 DEF H!ClearRules
  <2>2. profile' \in PageState
    BY <1>0, <2>1, EmptyPage DEF PageState
  <2>3. rules' \in SUBSET H!Rule /\ UNCHANGED <<book, save, begun, found>>
    BY <1>4 DEF H!ClearRules
  <2>4. QED
    BY <1>0, <2>2, <2>3, ParentsFit
<1>5. ASSUME NEW r \in H!Rule, H!InsertRule(r)
      PROVE  HideFit'
  <2>1. profile' = H!NoPage \/ profile' = [profile EXCEPT !.left = profile.left \ {r}]
    BY <1>5 DEF H!InsertRule
  <2>2. profile.left \ {r} \in SUBSET H!Rule
    BY <1>0
  <2>3. profile' \in PageState
    BY <1>0, <2>1, <2>2, EmptyPage DEF PageState
  <2>4. rules' \in SUBSET H!Rule /\ UNCHANGED <<book, save, begun, found>>
    BY <1>0, <1>5 DEF H!InsertRule
  <2>5. QED
    BY <1>0, <2>3, <2>4, ParentsFit
<1>6. QED
  BY <1>1, <1>2, <1>3, <1>4, <1>5

LEMMA HideRestarts ==
    ASSUME HideFit, H!Restart
    PROVE  HideFit'
<1>1. \A w \in Writer : save'[w] = H!Idle
  BY DEF H!Restart
<1>2. save' \in [Writer -> SaveState]
  BY IdleSave DEF H!Restart
<1>3. UNCHANGED <<book, rules, begun, found>> /\ profile' = H!NoPage
  BY DEF H!Restart
<1>4. HideTyped'
  BY <1>2, <1>3, EmptyPage DEF HideFit, HideTyped
<1>5. FirstCheckFits'
  BY <1>1, <1>3, IdleSave DEF HideFit, FirstCheckFits, SaveFits
<1>6. QED
  BY <1>4, <1>5 DEF HideFit

LEMMA HideBegins ==
    ASSUME H!Init
    PROVE  HideFit
<1>0. FALSE \in BOOLEAN /\ {} \in SUBSET Item /\ 0 \in Ages
  BY RulesAssumption
<1>1. book = [status |-> "pending", by |-> "nobody", approved |-> FALSE, age |-> 0, checked |-> FALSE, content |-> {}]
  BY DEF H!Init
<1>2. book \in BookRow /\ ~book.checked
  BY <1>0, <1>1 DEF BookRow
<1>3. \A w \in Writer : save[w] = H!Idle
  BY DEF H!Init
<1>4. save \in [Writer -> SaveState] /\ profile \in PageState /\ rules \in SUBSET H!Rule
  BY IdleSave, EmptyPage DEF H!Init
<1>5. begun \in 0..2 /\ found \in SUBSET Item
  BY <1>0 DEF H!Init
<1>6. HideTyped
  BY <1>2, <1>4, <1>5 DEF HideTyped
<1>7. FirstCheckFits
  BY <1>2, <1>3, IdleSave DEF H!Init, FirstCheckFits, SaveFits
<1>8. QED
  BY <1>6, <1>7 DEF HideFit

LEMMA HideGoesOn ==
    ASSUME HideFit, [H!Next]_(H!vars)
    PROVE  HideFit'
<1>1. CASE H!Next
  <2>1. ASSUME NEW w \in Writer,
               \/ H!Rerate(w) \/ H!SaveAnalysis(w) \/ H!ClearContent(w) \/ H!Stamp(w)
               \/ \E is \in SUBSET Item : H!Answer(w, is) \/ \E l \in BOOLEAN : H!SetVerdict(w, is, l)
               \/ \E i \in Item : H!InsertContent(w, i)
        PROVE  HideFit'
    BY <2>1, RerateFits, AnalysisFits, ClearFits, StampFits, AnswerFits, VerdictFits, InsertFits
  <2>2. QED
    BY <1>1, <2>1, DecisionFits, HideRestarts DEF H!Next
<1>2. CASE UNCHANGED H!vars
  BY <1>2 DEF H!vars, HideFit, HideTyped, FirstCheckFits, SaveFits
<1>3. QED
  BY <1>1, <1>2

LEMMA HideHolds ==
    ASSUME HideFit
    PROVE  H!TypeOK /\ H!FirstCheckHides
<1>1. H!TypeOK
  BY DEF HideFit, HideTyped, H!TypeOK, BookRow, PageState, SaveState, SaveStep
<1>2. ASSUME begun = 1, book.age = 0, ~book.approved, H!NeedsCheck, H!VisibilityClause
      PROVE  found \cap H!Hidden = {}
  <2>1. book.checked /\ book.content \cap H!Hidden = {}
    BY <1>2 DEF H!VisibilityClause, H!ContentRuleConds
  <2>2. found \subseteq book.content
    BY <1>2, <2>1 DEF HideFit, FirstCheckFits
  <2>3. QED
    BY <2>1, <2>2
<1>3. QED
  BY <1>1, <1>2 DEF H!FirstCheckHides

\* Hide rules (store/content.go, setBookContent; store/filters.go, visibilityClause): however many
\* items, writers and parents there are, a kid whose rules hide what a book's first check found is
\* not shown the book, in the middle of saving that check, after it, or after it was cut off.
THEOREM WhatAFirstCheckFoundIsHidden == Spec => []FirstCheckHides
<1> DEFINE Fit == running = "hide" => HideFit
<1>1. Init => Fit
  BY HideBegins DEF Init
<1>2. Fit /\ [Next]_vars => Fit'
  <2>1. ASSUME [Next]_vars, running' = "hide"
        PROVE  running = "hide" /\ [H!Next]_(H!vars)
    BY <2>1 DEF Next, vars, hideVars, H!vars
  <2>2. QED
    BY <2>1, HideGoesOn
<1>3. Fit => FirstCheckHides
  BY HideHolds DEF FirstCheckHides
<1>4. QED
  BY <1>1, <1>2, <1>3, PTL DEF Spec

-----------------------------------------------------------------------------
(* The family's own filters.                                               *)

Filter    == [id : 1..MaxIds, key : FilterKey, words : Words]
EditState == [at : {"idle", "update", "bump", "write"}, of : SUBSET Filter, read : 0..MaxIds + 1]
RatedBook == [version : 0..MaxIds + 1, marks : SUBSET (1..MaxIds)]
FilterAsk == [at : {"idle", "asked", "flags"}, names : SUBSET Filter, raced : SUBSET Filter, marks : SUBSET FilterKey]

FiltersTyped ==
    /\ flags \in SUBSET Filter /\ next \in 1..MaxIds + 1 /\ version \in 0..MaxIds + 1
    /\ edit \in [Admin -> EditState] /\ rated \in RatedBook /\ ask \in FilterAsk
    /\ knew \in SUBSET Filter /\ raced \in SUBSET Filter /\ lost \in SUBSET Filter /\ stale \in BOOLEAN

\* A number is handed out once, a key is given once.
OneOfEach(fs, n) ==
    /\ \A f, g \in fs : f # g => f.id # g.id /\ f.key # g.key
    /\ \A f \in fs : f.id < n

\* The question that is out names every filter there is, but those changed since.
Named == ask.at = "asked" => flags \subseteq ask.names \cup ask.raced

\* The version went up only.
NotAhead ==
    /\ rated.version <= version
    /\ \A a \in Admin : edit[a].at = "write" => edit[a].read <= version

\* A request is about to raise the version above v, for f.
Raises(e, f, v) == f \in e.of /\ (e.at = "bump" \/ (e.at = "write" /\ v <= e.read))

Heard(f) == f \in knew \/ f \in raced \/ f \in lost

\* A filter that the book's question did not name makes it offered, or soon will.
Pends(f) == rated.version < version \/ \E a \in Admin : Raises(edit[a], f, rated.version)

FiltersFit ==
    /\ FiltersTyped /\ OneOfEach(flags, next) /\ Named
    /\ stale \/ (NotAhead /\ \A f \in flags : Heard(f) \/ Pends(f))

LEMMA FiltersFacts ==
    ASSUME FiltersFit
    PROVE  /\ flags \subseteq Filter /\ next \in Nat /\ version \in Nat /\ version \in 0..MaxIds + 1
           /\ edit \in [Admin -> EditState] /\ rated \in RatedBook /\ ask \in FilterAsk
           /\ rated.version \in Nat /\ \A a \in Admin : edit[a] \in EditState /\ edit[a].read \in Nat
           /\ MaxIds \in Nat /\ 1..MaxIds \subseteq Nat
<1>1. MaxIds \in Nat
  BY FiltersAssumption
<1>2. FiltersTyped
  BY DEF FiltersFit
<1>3. flags \subseteq Filter /\ next \in Nat /\ version \in Nat /\ version \in 0..MaxIds + 1
  BY <1>1, <1>2 DEF FiltersTyped
<1>4. edit \in [Admin -> EditState] /\ rated \in RatedBook /\ ask \in FilterAsk
  BY <1>2 DEF FiltersTyped
<1>5. rated.version \in 0..MaxIds + 1
  BY <1>4 DEF RatedBook
<1>6. \A a \in Admin : edit[a] \in EditState /\ edit[a].read \in 0..MaxIds + 1
  BY <1>4 DEF EditState
<1>7. rated.version \in Nat /\ \A a \in Admin : edit[a] \in EditState /\ edit[a].read \in Nat
  BY <1>1, <1>5, <1>6
<1>8. QED
  BY <1>1, <1>3, <1>4, <1>7

\* A request's next state.
EBump(e, fs) == [e EXCEPT !.at = "bump", !.of = fs]
EUpdate(e, fs) == [e EXCEPT !.at = "update", !.of = fs]
EWrite(e, v) == [e EXCEPT !.at = "write", !.read = v]
EIdle == [at |-> "idle", of |-> {}, read |-> 0]

LEMMA EditFields ==
    ASSUME NEW e \in EditState, NEW fs \in SUBSET Filter, NEW v \in 0..MaxIds + 1
    PROVE  /\ EBump(e, fs) \in EditState /\ EBump(e, fs).at = "bump" /\ EBump(e, fs).of = fs
           /\ EUpdate(e, fs) \in EditState /\ EUpdate(e, fs).at = "update"
           /\ EWrite(e, v) \in EditState /\ EWrite(e, v).at = "write" /\ EWrite(e, v).of = e.of /\ EWrite(e, v).read = v
  BY DEF EditState, EBump, EUpdate, EWrite

LEMMA IdleEdit == EIdle \in EditState /\ EIdle.at = "idle" /\ C!NoEdit = EIdle
<1>1. {} \in SUBSET Filter
  OBVIOUS
<1>2. 0 \in 0..MaxIds + 1
  BY FiltersAssumption
<1>3. QED
  BY <1>1, <1>2 DEF EditState, EIdle, C!NoEdit

\* A question's next state.
AskRaced(s, fs) == [s EXCEPT !.raced = @ \cup fs]
AskIdle == [at |-> "idle", names |-> {}, raced |-> {}, marks |-> {}]
AskNames(fs) == [AskIdle EXCEPT !.at = "asked", !.names = fs]
AskMarks(ms) == [AskIdle EXCEPT !.at = "flags", !.marks = ms]

LEMMA AskFields ==
    ASSUME NEW s \in FilterAsk, NEW fs \in SUBSET Filter, NEW ms \in SUBSET FilterKey
    PROVE  /\ AskRaced(s, fs) \in FilterAsk /\ AskRaced(s, fs).at = s.at
           /\ AskRaced(s, fs).names = s.names /\ AskRaced(s, fs).raced = s.raced \cup fs
           /\ AskNames(fs) \in FilterAsk /\ AskNames(fs).at = "asked" /\ AskNames(fs).names = fs
           /\ AskMarks(ms) \in FilterAsk /\ AskMarks(ms).at = "flags"
           /\ AskIdle \in FilterAsk /\ AskIdle.at = "idle" /\ C!NoAsk = AskIdle
<1>1. {} \in SUBSET Filter /\ {} \in SUBSET FilterKey
  OBVIOUS
<1>2. AskRaced(s, fs) \in FilterAsk /\ AskRaced(s, fs).at = s.at
  BY DEF FilterAsk, AskRaced
<1>3. AskRaced(s, fs).names = s.names /\ AskRaced(s, fs).raced = s.raced \cup fs
  BY DEF FilterAsk, AskRaced
<1>4. AskIdle \in FilterAsk /\ AskIdle.at = "idle" /\ C!NoAsk = AskIdle
  BY <1>1 DEF FilterAsk, AskIdle, C!NoAsk
<1>5. AskNames(fs) \in FilterAsk /\ AskNames(fs).at = "asked" /\ AskNames(fs).names = fs
  BY <1>1 DEF FilterAsk, AskIdle, AskNames
<1>6. AskMarks(ms) \in FilterAsk /\ AskMarks(ms).at = "flags"
  BY <1>1 DEF FilterAsk, AskIdle, AskMarks
<1>7. QED
  BY <1>2, <1>3, <1>4, <1>5, <1>6

\* One request takes a step.
LEMMA EditMoves ==
    ASSUME FiltersFit, NEW a \in Admin, NEW e \in EditState, edit' = [edit EXCEPT ![a] = e]
    PROVE  /\ edit' \in [Admin -> EditState] /\ edit'[a] = e
           /\ \A b \in Admin : b # a => edit'[b] = edit[b]
  BY FiltersFacts

\* The filters that were there keep what is said of them, if they are still there.
LEMMA NowKeeps ==
    ASSUME FiltersFit, C!Now(flags')
    PROVE  /\ knew' \in SUBSET Filter /\ raced' \in SUBSET Filter /\ lost' \in SUBSET Filter
           /\ \A f \in flags' : Heard(f) => Heard(f)'
<1>1. knew' = knew \cap flags' /\ raced' = raced \cap flags' /\ lost' = lost \cap flags'
  BY DEF C!Now
<1>2. knew \subseteq Filter /\ raced \subseteq Filter /\ lost \subseteq Filter
  BY DEF FiltersFit, FiltersTyped
<1>3. QED
  BY <1>1, <1>2 DEF Heard

LEMMA RaceKeeps ==
    ASSUME FiltersFit, NEW fs \in SUBSET Filter, C!Race(fs), flags' \subseteq flags \cup fs
    PROVE  ask' \in FilterAsk /\ Named'
<1>1. ask \in FilterAsk
  BY FiltersFacts
<1>2. CASE ask.at = "asked"
  <2>1. ask' = AskRaced(ask, fs)
    BY <1>2 DEF C!Race, AskRaced
  <2>2. flags \subseteq ask.names \cup ask.raced
    BY <1>2 DEF FiltersFit, Named
  <2>3. QED
    BY <1>1, <2>1, <2>2, AskFields DEF Named
<1>3. CASE ask.at # "asked"
  <2>1. ask' = ask
    BY <1>3 DEF C!Race
  <2>2. QED
    BY <1>1, <1>3, <2>1 DEF Named
<1>4. QED
  BY <1>2, <1>3

\* A request that had raised nothing takes a step, and the book and the version stay.
LEMMA QuietKeeps ==
    ASSUME FiltersFit, ~stale, NEW a \in Admin, edit[a].at \notin {"bump", "write"},
           edit'[a].at \notin {"write"}, \A b \in Admin : b # a => edit'[b] = edit[b],
           UNCHANGED <<version, rated>>
    PROVE  NotAhead' /\ \A f : Pends(f) => Pends(f)'
<1>1. NotAhead
  BY DEF FiltersFit
<1>2. NotAhead'
  <2>1. rated'.version <= version'
    BY <1>1 DEF NotAhead
  <2>2. \A b \in Admin : edit'[b].at = "write" => edit'[b].read <= version'
    BY <1>1 DEF NotAhead
  <2>3. QED
    BY <2>1, <2>2 DEF NotAhead
<1>3. ASSUME NEW f, Pends(f) PROVE Pends(f)'
  <2>1. CASE rated.version < version
    BY <2>1 DEF Pends
  <2>2. CASE \E b \in Admin : Raises(edit[b], f, rated.version)
    <3>1. PICK b \in Admin : Raises(edit[b], f, rated.version)
      BY <2>2
    <3>2. b # a
      BY <3>1 DEF Raises
    <3>3. Raises(edit'[b], f, rated'.version)
      BY <3>1, <3>2
    <3>4. QED
      BY <3>3 DEF Pends
  <2>3. QED
    BY <1>3, <2>1, <2>2 DEF Pends
<1>4. QED
  BY <1>2, <1>3

LEMMA AddFits ==
    ASSUME FiltersFit, NEW a \in Admin, NEW k \in FilterKey, NEW w \in Words, C!AddCustomFlag(a, k, w)
    PROVE  FiltersFit'
<1> DEFINE new == [id |-> next, key |-> k, words |-> w]
<1>0. /\ flags \subseteq Filter /\ next \in Nat /\ edit \in [Admin -> EditState] /\ edit[a] \in EditState
      /\ version \in 0..MaxIds + 1 /\ rated \in RatedBook /\ MaxIds \in Nat /\ stale \in BOOLEAN
  BY FiltersFacts DEF FiltersFit, FiltersTyped
<1>1. /\ edit[a] = EIdle /\ next \in 1..MaxIds /\ k \notin {f.key : f \in flags}
      /\ flags' = flags \cup {new} /\ next' = next + 1
      /\ edit' = [edit EXCEPT ![a].at = "bump", ![a].of = {new}]
      /\ C!Race({new}) /\ C!Now(flags') /\ UNCHANGED <<version, rated, stale>>
  BY IdleEdit DEF C!AddCustomFlag, C!Ids, C!Keys
<1>2. new \in Filter /\ new.id = next /\ new.key = k
  BY <1>1 DEF Filter
<1> HIDE DEF new
<1>3. edit' = [edit EXCEPT ![a] = EBump(edit[a], {new})]
  BY <1>0, <1>1 DEF EBump
<1>4. EBump(edit[a], {new}) \in EditState /\ EBump(edit[a], {new}).at = "bump" /\ EBump(edit[a], {new}).of = {new}
  <2>1. {new} \in SUBSET Filter /\ 0 \in 0..MaxIds + 1
    BY <1>0, <1>2
  <2>2. QED
    BY <1>0, <2>1, EditFields
<1>5. /\ edit' \in [Admin -> EditState] /\ edit'[a].at = "bump" /\ edit'[a].of = {new}
      /\ \A b \in Admin : b # a => edit'[b] = edit[b]
  BY <1>3, <1>4, EditMoves
<1>6. flags' \in SUBSET Filter /\ next' \in 1..MaxIds + 1
  BY <1>0, <1>1, <1>2
<1>7. ask' \in FilterAsk /\ Named'
  BY <1>1, <1>2, RaceKeeps
<1>8. knew' \in SUBSET Filter /\ raced' \in SUBSET Filter /\ lost' \in SUBSET Filter /\ \A f \in flags' : Heard(f) => Heard(f)'
  BY <1>1, NowKeeps
<1>9. OneOfEach(flags', next')
  <2>1. OneOfEach(flags, next)
    BY DEF FiltersFit
  <2>2. \A f \in flags : f.id \in Nat /\ f.key # k
    BY <1>0, <1>1 DEF Filter
  <2>3. \A f \in flags' : f.id < next'
    BY <1>0, <1>1, <1>2, <2>1, <2>2 DEF OneOfEach
  <2>4. \A f \in flags : f.id # next
    BY <1>0, <2>1, <2>2 DEF OneOfEach
  <2>5. \A f, g \in flags' : f # g => f.id # g.id /\ f.key # g.key
    BY <1>1, <1>2, <2>1, <2>2, <2>4 DEF OneOfEach
  <2>6. QED
    BY <2>3, <2>5 DEF OneOfEach
<1>10. ~stale => NotAhead' /\ \A f \in flags' : (Heard(f) \/ Pends(f))'
  <2> SUFFICES ASSUME ~stale
               PROVE  NotAhead' /\ \A f \in flags' : (Heard(f) \/ Pends(f))'
    OBVIOUS
  <2>1. NotAhead' /\ \A f : Pends(f) => Pends(f)'
    BY <1>1, <1>5, IdleEdit, QuietKeeps
  <2>2. ASSUME NEW f \in flags' PROVE (Heard(f) \/ Pends(f))'
    <3>1. CASE f = new
      <4>1. Raises(edit'[a], f, rated'.version)
        BY <1>5, <3>1 DEF Raises
      <4>2. QED
        BY <4>1 DEF Pends
    <3>2. CASE f \in flags
      BY <1>8, <2>1, <3>2 DEF FiltersFit
    <3>3. QED
      BY <1>1, <3>1, <3>2
  <2>3. QED
    BY <2>1, <2>2
<1>11. FiltersTyped'
  BY <1>0, <1>1, <1>5, <1>6, <1>7, <1>8 DEF FiltersTyped
<1>12. QED
  BY <1>0, <1>1, <1>7, <1>9, <1>10, <1>11 DEF FiltersFit

LEMMA ReadFlagFits ==
    ASSUME FiltersFit, NEW a \in Admin, NEW f \in flags, C!ReadFlag(a, f)
    PROVE  FiltersFit'
<1>0. /\ flags \subseteq Filter /\ edit \in [Admin -> EditState] /\ edit[a] \in EditState
  BY FiltersFacts
<1>1. /\ edit[a] = EIdle /\ edit' = [edit EXCEPT ![a].at = "update", ![a].of = {f}]
      /\ UNCHANGED <<flags, next, version, rated, ask, knew, raced, lost, stale>>
  BY IdleEdit DEF C!ReadFlag
<1>2. edit' = [edit EXCEPT ![a] = EUpdate(edit[a], {f})]
  BY <1>0, <1>1 DEF EUpdate
<1>3. EUpdate(edit[a], {f}) \in EditState /\ EUpdate(edit[a], {f}).at = "update"
  <2>1. {f} \in SUBSET Filter
    BY <1>0
  <2>2. 0 \in 0..MaxIds + 1
    BY FiltersAssumption
  <2>3. QED
    BY <1>0, <2>1, <2>2, EditFields
<1>4. /\ edit' \in [Admin -> EditState] /\ edit'[a].at = "update"
      /\ \A b \in Admin : b # a => edit'[b] = edit[b]
  BY <1>2, <1>3, EditMoves
<1>5. FiltersTyped' /\ OneOfEach(flags, next)' /\ Named'
  BY <1>1, <1>4 DEF FiltersFit, FiltersTyped, OneOfEach, Named
<1>6. ASSUME ~stale PROVE NotAhead' /\ \A g : Pends(g) => Pends(g)'
  BY <1>1, <1>4, <1>6, IdleEdit, QuietKeeps
<1>7. \A g : Heard(g) => Heard(g)'
  BY <1>1 DEF Heard
<1>8. ~stale => NotAhead' /\ \A g \in flags' : (Heard(g) \/ Pends(g))'
  BY <1>1, <1>6, <1>7 DEF FiltersFit
<1>9. QED
  BY <1>1, <1>5, <1>8 DEF FiltersFit

LEMMA FlagUpdateFits ==
    ASSUME FiltersFit, NEW a \in Admin, NEW f \in edit[a].of, NEW w \in Words, C!UpdateCustomFlag(a, f, w)
    PROVE  FiltersFit'
<1> DEFINE row == {c \in flags : c.id = f.id}
           new == {[c EXCEPT !.words = w] : c \in row}
           e == IF f.words # w THEN EBump(EIdle, new) ELSE EIdle
<1>0. /\ flags \subseteq Filter /\ edit \in [Admin -> EditState] /\ edit[a] \in EditState
      /\ OneOfEach(flags, next) /\ stale \in BOOLEAN /\ rated \in RatedBook
  BY FiltersFacts DEF FiltersFit, FiltersTyped
<1>1. /\ edit[a].at = "update" /\ edit[a].of = {f} /\ flags' = (flags \ row) \cup new
      /\ C!Race(new \ row) /\ C!Now(flags') /\ UNCHANGED <<next, version, rated>>
      /\ stale' = (stale \/ (row # {f} /\ f.words = w))
  BY DEF C!UpdateCustomFlag
<1>2. edit' = [edit EXCEPT ![a] = e]
  BY IdleEdit DEF C!UpdateCustomFlag, C!Changed, EBump
<1>3. f \in Filter
  BY <1>0, <1>1 DEF EditState
<1>4. \A c \in row : c \in flags /\ c \in Filter /\ c.id = f.id
  BY <1>0
<1>5. \A c \in row : /\ [c EXCEPT !.words = w] \in Filter /\ [c EXCEPT !.words = w].id = c.id
                     /\ [c EXCEPT !.words = w].key = c.key
  BY <1>4 DEF Filter
<1>6. /\ new \in SUBSET Filter
      /\ \A g \in new : \E c \in flags : g.id = c.id /\ g.key = c.key /\ g.id = f.id
  BY <1>4, <1>5
<1>7. \A g \in flags \ row : g.id # f.id
  OBVIOUS
<1>8. \A g, h \in new : g = h
  <2>1. \A c, d \in row : c = d
    BY <1>0, <1>4 DEF OneOfEach
  <2>2. QED
    BY <2>1
<1>9. row = {f} /\ f.words = w => new = {f}
  <2>1. f.words = w => [f EXCEPT !.words = w] = f
    BY <1>3 DEF Filter
  <2>2. QED
    BY <2>1
<1>10. e \in EditState /\ e.at # "write" /\ (f.words # w => e.at = "bump" /\ e.of = new)
  <2>1. 0 \in 0..MaxIds + 1
    BY FiltersAssumption
  <2>2. QED
    BY <1>6, <2>1, IdleEdit, EditFields
<1> HIDE DEF e, new, row
<1>11. /\ edit' \in [Admin -> EditState] /\ edit'[a].at # "write"
       /\ f.words # w => edit'[a].at = "bump" /\ edit'[a].of = new
       /\ \A b \in Admin : b # a => edit'[b] = edit[b]
  BY <1>2, <1>10, EditMoves
<1>12. flags' \in SUBSET Filter
  BY <1>0, <1>1, <1>6
<1>13. ask' \in FilterAsk /\ Named'
  <2>1. new \ row \in SUBSET Filter
    BY <1>6
  <2>2. row \subseteq flags
    BY DEF row
  <2>3. flags' \subseteq flags \cup (new \ row)
    BY <1>1, <2>2
  <2>4. QED
    BY <1>1, <2>1, <2>3, RaceKeeps
<1>14. knew' \in SUBSET Filter /\ raced' \in SUBSET Filter /\ lost' \in SUBSET Filter /\ \A g \in flags' : Heard(g) => Heard(g)'
  BY <1>1, NowKeeps
<1>15. OneOfEach(flags', next')
  <2>1. \A g \in flags' : g.id < next'
    BY <1>0, <1>1, <1>6 DEF OneOfEach
  <2>2. ASSUME NEW g \in flags \ row, NEW h \in new PROVE g.id # h.id /\ g.key # h.key
    <3>1. PICK c \in flags : h.id = c.id /\ h.key = c.key /\ h.id = f.id
      BY <1>6
    <3>2. g.id # f.id
      BY <1>7
    <3>3. QED
      BY <1>0, <3>1, <3>2 DEF OneOfEach
  <2>3. ASSUME NEW g \in flags', NEW h \in flags', g # h PROVE g.id # h.id /\ g.key # h.key
    <3>1. CASE g \in flags \ row /\ h \in flags \ row
      BY <1>0, <2>3, <3>1 DEF OneOfEach
    <3>2. CASE g \in flags \ row /\ h \in new
      BY <2>2, <3>2
    <3>3. CASE g \in new /\ h \in flags \ row
      BY <2>2, <3>3
    <3>4. CASE g \in new /\ h \in new
      BY <1>8, <2>3, <3>4
    <3>5. QED
      BY <1>1, <3>1, <3>2, <3>3, <3>4
  <2>4. QED
    BY <2>1, <2>3 DEF OneOfEach
<1>16. ~stale' => NotAhead' /\ \A g \in flags' : (Heard(g) \/ Pends(g))'
  <2> SUFFICES ASSUME ~stale, f.words = w => row = {f}
               PROVE  NotAhead' /\ \A g \in flags' : (Heard(g) \/ Pends(g))'
    BY <1>0, <1>1
  <2>1. NotAhead' /\ \A g : Pends(g) => Pends(g)'
    BY <1>1, <1>11, QuietKeeps
  <2>2. ASSUME NEW g \in flags' PROVE (Heard(g) \/ Pends(g))'
    <3>1. CASE g \in flags
      BY <1>14, <2>1, <3>1 DEF FiltersFit
    <3>2. CASE g \notin flags
      <4>1. g \in new
        BY <1>1, <3>2
      <4>2. f.words # w
        <5>1. row \subseteq flags
          BY DEF row
        <5>2. QED
          BY <1>9, <3>2, <4>1, <5>1
      <4>3. Raises(edit'[a], g, rated'.version)
        BY <1>11, <4>1, <4>2 DEF Raises
      <4>4. QED
        BY <4>3 DEF Pends
    <3>3. QED
      BY <3>1, <3>2
  <2>3. QED
    BY <2>1, <2>2
<1>17. stale' \in BOOLEAN
  BY <1>0, <1>1
<1>18. FiltersTyped'
  BY <1>1, <1>11, <1>12, <1>13, <1>14, <1>17 DEF FiltersFit, FiltersTyped
<1>19. QED
  BY <1>13, <1>15, <1>16, <1>17, <1>18 DEF FiltersFit

LEMMA ReadVersionFits ==
    ASSUME FiltersFit, NEW a \in Admin, C!ReadVersion(a)
    PROVE  FiltersFit'
<1>0. /\ edit \in [Admin -> EditState] /\ edit[a] \in EditState /\ version \in 0..MaxIds + 1 /\ version \in Nat
      /\ rated.version \in Nat
  BY FiltersFacts
<1>1. /\ edit[a].at = "bump" /\ edit' = [edit EXCEPT ![a] = EWrite(edit[a], version)]
      /\ UNCHANGED <<flags, next, version, rated, ask, knew, raced, lost, stale>>
  BY <1>0 DEF C!ReadVersion, EWrite
<1>2. /\ EWrite(edit[a], version) \in EditState /\ EWrite(edit[a], version).at = "write"
      /\ EWrite(edit[a], version).of = edit[a].of /\ EWrite(edit[a], version).read = version
  <2>1. {} \in SUBSET Filter
    OBVIOUS
  <2>2. QED
    BY <1>0, <2>1, EditFields
<1>3. /\ edit' \in [Admin -> EditState] /\ edit'[a] = EWrite(edit[a], version)
      /\ \A b \in Admin : b # a => edit'[b] = edit[b]
  BY <1>1, <1>2, EditMoves
<1>4. FiltersTyped' /\ OneOfEach(flags, next)' /\ Named'
  BY <1>1, <1>3 DEF FiltersFit, FiltersTyped, OneOfEach, Named
<1>5. ASSUME ~stale PROVE NotAhead' /\ \A g \in flags' : (Heard(g) \/ Pends(g))'
  <2>0. NotAhead
    BY <1>5 DEF FiltersFit
  <2>1. NotAhead'
    <3>1. rated'.version <= version'
      BY <1>1, <2>0 DEF NotAhead
    <3>2. ASSUME NEW b \in Admin, edit'[b].at = "write" PROVE edit'[b].read <= version'
      <4>1. CASE b = a
        BY <1>0, <1>1, <1>2, <1>3, <4>1
      <4>2. CASE b # a
        BY <1>1, <1>3, <2>0, <3>2, <4>2 DEF NotAhead
      <4>3. QED
        BY <4>1, <4>2
    <3>3. QED
      BY <3>1, <3>2 DEF NotAhead
  <2>2. ASSUME NEW g \in flags, Pends(g) PROVE Pends(g)'
    <3>1. CASE rated.version < version
      BY <1>1, <3>1 DEF Pends
    <3>2. CASE \E b \in Admin : Raises(edit[b], g, rated.version)
      <4>1. PICK b \in Admin : Raises(edit[b], g, rated.version)
        BY <3>2
      <4>2. rated.version <= version
        BY <2>0 DEF NotAhead
      <4>3. Raises(edit'[b], g, rated'.version)
        <5>1. CASE b = a
          BY <1>1, <1>2, <1>3, <4>1, <4>2, <5>1 DEF Raises
        <5>2. CASE b # a
          BY <1>1, <1>3, <4>1, <5>2
        <5>3. QED
          BY <5>1, <5>2
      <4>4. QED
        BY <4>3 DEF Pends
    <3>3. QED
      BY <2>2, <3>1, <3>2 DEF Pends
  <2>3. \A g : Heard(g) => Heard(g)'
    BY <1>1 DEF Heard
  <2>4. QED
    BY <1>1, <1>5, <2>1, <2>2, <2>3 DEF FiltersFit
<1>6. QED
  BY <1>1, <1>4, <1>5 DEF FiltersFit

LEMMA BumpFits ==
    ASSUME FiltersFit, NEW a \in Admin, C!BumpFlagsVersion(a)
    PROVE  FiltersFit'
<1>0. /\ edit \in [Admin -> EditState] /\ edit[a] \in EditState /\ edit[a].read \in Nat /\ version \in Nat
      /\ rated.version \in Nat /\ MaxIds \in Nat /\ stale \in BOOLEAN
  BY FiltersFacts DEF FiltersFit, FiltersTyped
<1>1. /\ edit[a].at = "write" /\ edit[a].read < MaxIds + 1 /\ version' = edit[a].read + 1
      /\ edit' = [edit EXCEPT ![a] = EIdle]
      /\ stale' = (stale \/ version' < version)
      /\ UNCHANGED <<flags, next, rated, ask, knew, raced, lost>>
  BY IdleEdit DEF C!BumpFlagsVersion, C!MaxVersion
<1>2. version' \in 0..MaxIds + 1 /\ version' \in Nat /\ stale' \in BOOLEAN
  BY <1>0, <1>1
<1>3. /\ edit' \in [Admin -> EditState] /\ edit'[a].at = "idle"
      /\ \A b \in Admin : b # a => edit'[b] = edit[b]
  BY <1>1, IdleEdit, EditMoves
<1>4. FiltersTyped' /\ OneOfEach(flags, next)' /\ Named'
  BY <1>1, <1>2, <1>3 DEF FiltersFit, FiltersTyped, OneOfEach, Named
<1>5. ASSUME ~stale' PROVE NotAhead' /\ \A g \in flags' : (Heard(g) \/ Pends(g))'
  <2>0. ~stale /\ NotAhead /\ version <= version'
    <3>1. ~stale /\ ~(version' < version)
      BY <1>1, <1>5
    <3>2. version <= version'
      BY <1>0, <1>2, <3>1
    <3>3. QED
      BY <3>1, <3>2 DEF FiltersFit
  <2>1. NotAhead'
    <3>1. rated'.version <= version'
      BY <1>0, <1>1, <1>2, <2>0 DEF NotAhead
    <3>2. ASSUME NEW b \in Admin, edit'[b].at = "write" PROVE edit'[b].read <= version'
      <4>1. b # a
        BY <1>3, <3>2
      <4>2. edit[b].read \in Nat /\ edit[b].read <= version /\ edit'[b] = edit[b]
        BY <1>3, <2>0, <3>2, <4>1, FiltersFacts DEF NotAhead
      <4>3. QED
        BY <1>0, <1>2, <2>0, <4>2
    <3>3. QED
      BY <3>1, <3>2 DEF NotAhead
  <2>2. ASSUME NEW g \in flags, Pends(g) PROVE Pends(g)'
    <3>1. CASE rated.version < version
      <4>1. rated'.version < version'
        BY <1>0, <1>1, <1>2, <2>0, <3>1
      <4>2. QED
        BY <4>1 DEF Pends
    <3>2. CASE \E b \in Admin : Raises(edit[b], g, rated.version)
      <4>1. PICK b \in Admin : Raises(edit[b], g, rated.version)
        BY <3>2
      <4>2. CASE b = a
        <5>1. rated.version <= edit[a].read
          BY <1>1, <4>1, <4>2 DEF Raises
        <5>2. rated'.version < version'
          BY <1>0, <1>1, <5>1
        <5>3. QED
          BY <5>2 DEF Pends
      <4>3. CASE b # a
        <5>1. Raises(edit'[b], g, rated'.version)
          BY <1>1, <1>3, <4>1, <4>3
        <5>2. QED
          BY <5>1 DEF Pends
      <4>4. QED
        BY <4>2, <4>3
    <3>3. QED
      BY <2>2, <3>1, <3>2 DEF Pends
  <2>3. \A g : Heard(g) => Heard(g)'
    BY <1>1 DEF Heard
  <2>4. QED
    BY <1>1, <2>0, <2>1, <2>2, <2>3 DEF FiltersFit
<1>6. QED
  BY <1>1, <1>2, <1>4, <1>5 DEF FiltersFit

LEMMA FlagDeleteFits ==
    ASSUME FiltersFit, NEW f \in flags, C!DeleteCustomFlag(f)
    PROVE  FiltersFit'
<1>0. flags \subseteq Filter /\ rated \in RatedBook /\ OneOfEach(flags, next) /\ ask \in FilterAsk
  BY FiltersFacts DEF FiltersFit
<1>1. /\ flags' = flags \ {f} /\ C!Now(flags') /\ rated' = [rated EXCEPT !.marks = @ \ {f.id}]
      /\ UNCHANGED <<next, version, edit, ask, stale>>
  BY DEF C!DeleteCustomFlag
<1>2. rated' \in RatedBook /\ rated'.version = rated.version
  BY <1>0, <1>1 DEF RatedBook
<1>3. knew' \in SUBSET Filter /\ raced' \in SUBSET Filter /\ lost' \in SUBSET Filter /\ \A g \in flags' : Heard(g) => Heard(g)'
  BY <1>1, NowKeeps
<1>4. OneOfEach(flags', next') /\ Named'
  <2>1. OneOfEach(flags', next')
    BY <1>0, <1>1 DEF OneOfEach
  <2>2. Named'
    BY <1>1 DEF FiltersFit, Named
  <2>3. QED
    BY <2>1, <2>2
<1>5. flags' \in SUBSET Filter
  BY <1>0, <1>1
<1>6. FiltersTyped'
  BY <1>1, <1>2, <1>3, <1>5 DEF FiltersFit, FiltersTyped
<1>7. NotAhead => NotAhead'
  BY <1>1, <1>2 DEF NotAhead
<1>8. \A g : Pends(g) => Pends(g)'
  BY <1>1, <1>2 DEF Pends
<1>9. QED
  BY <1>1, <1>3, <1>4, <1>6, <1>7, <1>8 DEF FiltersFit

LEMMA FlagAskFits ==
    ASSUME FiltersFit, C!Ask \/ C!Fail
    PROVE  FiltersFit'
<1>0. flags \in SUBSET Filter /\ ask \in FilterAsk
  BY FiltersFacts
<1>1. UNCHANGED <<flags, next, version, edit, rated, knew, raced, lost, stale>>
  BY DEF C!Ask, C!Fail
<1>2. ask' \in FilterAsk /\ Named'
  <2>1. CASE C!Ask
    <3>1. ask' = AskNames(flags)
      BY <2>1, AskFields, <1>0 DEF C!Ask, C!NoAsk, AskNames, AskIdle
    <3>2. {} \in SUBSET FilterKey
      OBVIOUS
    <3>3. QED
      BY <1>0, <1>1, <3>1, <3>2, AskFields DEF Named
  <2>2. CASE C!Fail
    <3>1. ask' = AskIdle
      BY <2>2 DEF C!Fail, C!NoAsk, AskIdle
    <3>2. {} \in SUBSET FilterKey
      OBVIOUS
    <3>3. QED
      BY <1>0, <3>1, <3>2, AskFields DEF Named
  <2>3. QED
    BY <2>1, <2>2
<1>3. FiltersTyped' /\ OneOfEach(flags, next)'
  BY <1>1, <1>2 DEF FiltersFit, FiltersTyped, OneOfEach
<1>4. NotAhead => NotAhead'
  BY <1>1 DEF NotAhead
<1>5. \A g : (Heard(g) => Heard(g)') /\ (Pends(g) => Pends(g)')
  BY <1>1 DEF Heard, Pends
<1>6. QED
  BY <1>1, <1>2, <1>3, <1>4, <1>5 DEF FiltersFit

LEMMA RatingSaveFits ==
    ASSUME FiltersFit, NEW marks \in SUBSET FilterKey, C!SaveAnalysis(marks)
    PROVE  FiltersFit'
<1>0. /\ flags \in SUBSET Filter /\ ask \in FilterAsk /\ rated \in RatedBook /\ version \in 0..MaxIds + 1 /\ version \in Nat
  BY FiltersFacts
<1>1. /\ ask.at = "asked" /\ rated' = [rated EXCEPT !.version = version]
      /\ knew' = ask.names \cap flags /\ raced' = ask.raced \cap flags
      /\ UNCHANGED <<flags, next, version, edit, lost, stale>>
  BY DEF C!SaveAnalysis
<1>2. ask' = AskMarks(marks)
  BY DEF C!SaveAnalysis, C!NoAsk, AskMarks, AskIdle
<1>3. ask' \in FilterAsk /\ Named'
  BY <1>0, <1>2, AskFields DEF Named
<1>4. rated' \in RatedBook /\ rated'.version = version
  BY <1>0, <1>1 DEF RatedBook
<1>5. knew' \in SUBSET Filter /\ raced' \in SUBSET Filter
  BY <1>0, <1>1
<1>6. FiltersTyped' /\ OneOfEach(flags, next)'
  BY <1>1, <1>3, <1>4, <1>5 DEF FiltersFit, FiltersTyped, OneOfEach
<1>7. NotAhead => NotAhead'
  BY <1>0, <1>1, <1>4 DEF NotAhead
<1>8. \A g \in flags : Heard(g)'
  BY <1>1 DEF FiltersFit, Named, Heard
<1>9. QED
  BY <1>1, <1>3, <1>6, <1>7, <1>8 DEF FiltersFit

LEMMA MarksFit ==
    ASSUME FiltersFit, C!SetBookFlags
    PROVE  FiltersFit'
<1>0. flags \in SUBSET Filter /\ rated \in RatedBook
  BY FiltersFacts
<1>1. /\ rated' = [rated EXCEPT !.marks = {f.id : f \in {g \in flags : g.key \in ask.marks}}] /\ ask' = AskIdle
      /\ UNCHANGED <<flags, next, version, edit, knew, raced, lost, stale>>
  BY DEF C!SetBookFlags, C!NoAsk, AskIdle
<1>2. {f.id : f \in {g \in flags : g.key \in ask.marks}} \in SUBSET (1..MaxIds)
  BY <1>0 DEF Filter
<1>3. rated' \in RatedBook /\ rated'.version = rated.version
  BY <1>0, <1>1, <1>2 DEF RatedBook
<1>4. ask' \in FilterAsk /\ Named'
  <2>1. ask \in FilterAsk /\ {} \in SUBSET FilterKey
    BY FiltersFacts
  <2>2. QED
    BY <1>0, <1>1, <2>1, AskFields DEF Named
<1>5. FiltersTyped' /\ OneOfEach(flags, next)'
  BY <1>1, <1>3, <1>4 DEF FiltersFit, FiltersTyped, OneOfEach
<1>6. NotAhead => NotAhead'
  BY <1>1, <1>3 DEF NotAhead
<1>7. \A g : (Heard(g) => Heard(g)') /\ (Pends(g) => Pends(g)')
  BY <1>1, <1>3 DEF Heard, Pends
<1>8. QED
  BY <1>1, <1>4, <1>5, <1>6, <1>7 DEF FiltersFit

LEMMA FiltersRestart ==
    ASSUME FiltersFit, C!Restart
    PROVE  FiltersFit'
<1>0. /\ flags \in SUBSET Filter /\ ask \in FilterAsk /\ {} \in SUBSET FilterKey
      /\ knew \in SUBSET Filter /\ raced \in SUBSET Filter /\ lost \in SUBSET Filter
  BY FiltersFacts DEF FiltersFit, FiltersTyped
<1>1. /\ edit' = [a \in Admin |-> EIdle] /\ ask' = AskIdle
      /\ lost' = lost \cup (flags \cap UNION {edit[a].of : a \in C!Raising})
      /\ UNCHANGED <<flags, next, version, rated, knew, raced, stale>>
  BY IdleEdit DEF C!Restart, C!NoAsk, AskIdle
<1>2. edit' \in [Admin -> EditState] /\ \A a \in Admin : edit'[a].at = "idle"
  BY <1>1, IdleEdit
<1>3. ask' \in FilterAsk /\ Named'
  BY <1>0, <1>1, AskFields DEF Named
<1>4. lost' \in SUBSET Filter
  BY <1>0, <1>1
<1>5. FiltersTyped' /\ OneOfEach(flags, next)'
  BY <1>1, <1>2, <1>3, <1>4 DEF FiltersFit, FiltersTyped, OneOfEach
<1>6. NotAhead => NotAhead'
  BY <1>1, <1>2 DEF NotAhead
<1>7. ASSUME NEW g \in flags, Heard(g) \/ Pends(g) PROVE (Heard(g) \/ Pends(g))'
  <2>1. CASE Heard(g)
    BY <1>1, <2>1 DEF Heard
  <2>2. CASE rated.version < version
    BY <1>1, <2>2 DEF Pends
  <2>3. CASE \E a \in Admin : Raises(edit[a], g, rated.version)
    <3>1. PICK a \in Admin : g \in edit[a].of /\ edit[a].at \in {"bump", "write"}
      BY <2>3 DEF Raises
    <3>2. g \in lost'
      BY <1>1, <3>1 DEF C!Raising
    <3>3. QED
      BY <3>2 DEF Heard
  <2>4. QED
    BY <1>7, <2>1, <2>2, <2>3 DEF Pends
<1>8. QED
  BY <1>1, <1>3, <1>5, <1>6, <1>7 DEF FiltersFit

LEMMA FiltersStep ==
    ASSUME FiltersFit, C!Next \/ UNCHANGED C!vars
    PROVE  FiltersFit'
<1>1. CASE C!Next
  <2>1. CASE \E a \in Admin, k \in FilterKey, w \in Words : C!AddCustomFlag(a, k, w)
    BY <2>1, AddFits
  <2>2. CASE \E a \in Admin, f \in flags : C!ReadFlag(a, f)
    BY <2>2, ReadFlagFits
  <2>3. CASE \E a \in Admin : \E f \in edit[a].of, w \in Words : C!UpdateCustomFlag(a, f, w)
    BY <2>3, FlagUpdateFits
  <2>4. CASE \E a \in Admin : C!ReadVersion(a) \/ C!BumpFlagsVersion(a)
    BY <2>4, ReadVersionFits, BumpFits
  <2>5. CASE \E f \in flags : C!DeleteCustomFlag(f)
    BY <2>5, FlagDeleteFits
  <2>6. CASE \E marks \in SUBSET FilterKey : C!SaveAnalysis(marks)
    BY <2>6, RatingSaveFits
  <2>7. CASE C!Ask \/ C!Fail \/ C!SetBookFlags \/ C!Restart
    BY <2>7, FlagAskFits, MarksFit, FiltersRestart
  <2>8. QED
    BY <1>1, <2>1, <2>2, <2>3, <2>4, <2>5, <2>6, <2>7 DEF C!Next, C!FlagsFrom
<1>2. CASE UNCHANGED C!vars
  <2>1. UNCHANGED <<flags, next, version, edit, rated, ask, knew, raced, lost, stale>>
    BY <1>2 DEF C!vars
  <2>2. FiltersTyped' /\ OneOfEach(flags, next)' /\ Named'
    BY <2>1 DEF FiltersFit, FiltersTyped, OneOfEach, Named
  <2>3. NotAhead => NotAhead'
    BY <2>1 DEF NotAhead
  <2>4. \A g : (Heard(g) => Heard(g)') /\ (Pends(g) => Pends(g)')
    BY <2>1 DEF Heard, Pends
  <2>5. QED
    BY <2>1, <2>2, <2>3, <2>4 DEF FiltersFit
<1>3. QED
  BY <1>1, <1>2

LEMMA FiltersInit ==
    ASSUME C!Init
    PROVE  FiltersFit
<1>1. MaxIds \in Nat
  BY FiltersAssumption
<1>2. /\ flags = {} /\ next = 1 /\ version = 0 /\ edit = [a \in Admin |-> EIdle]
      /\ rated = [version |-> 0, marks |-> {}] /\ ask = AskIdle
      /\ knew = {} /\ raced = {} /\ lost = {} /\ stale = FALSE
  BY IdleEdit DEF C!Init, C!NoAsk, AskIdle
<1>3. {} \in SUBSET Filter /\ {} \in SUBSET FilterKey /\ {} \in SUBSET (1..MaxIds)
  OBVIOUS
<1>4. 0 \in 0..MaxIds + 1 /\ 1 \in 1..MaxIds + 1
  BY <1>1
<1>5. edit \in [Admin -> EditState] /\ \A a \in Admin : edit[a].at = "idle"
  BY <1>2, IdleEdit
<1>6. rated \in RatedBook /\ rated.version = 0
  BY <1>2, <1>3, <1>4 DEF RatedBook
<1>7. ask \in FilterAsk /\ ask.at = "idle"
  BY <1>2, <1>3 DEF FilterAsk, AskIdle
<1>8. FiltersTyped
  BY <1>2, <1>3, <1>4, <1>5, <1>6, <1>7 DEF FiltersTyped
<1>9. OneOfEach(flags, next) /\ Named
  BY <1>2, <1>7 DEF OneOfEach, Named
<1>10. NotAhead
  BY <1>2, <1>5, <1>6 DEF NotAhead
<1>11. QED
  BY <1>2, <1>8, <1>9, <1>10 DEF FiltersFit

LEMMA FiltersHold ==
    ASSUME FiltersFit
    PROVE  C!TypeOK /\ C!SavedBeforeIsOffered
<1>1. /\ FiltersTyped /\ OneOfEach(flags, next)
  BY DEF FiltersFit
<1>2. C!Flag = Filter /\ C!MaxVersion = MaxIds + 1 /\ C!Ids = 1..MaxIds
  BY DEF C!Flag, C!Ids, C!MaxVersion, Filter
<1>3. C!TypeOK
  BY <1>1, <1>2 DEF FiltersTyped, OneOfEach, EditState, RatedBook, FilterAsk, C!TypeOK
<1>4. C!SavedBeforeIsOffered
  <2> SUFFICES ASSUME C!Settled, ~stale, NEW f \in flags, f \notin knew \cup raced \cup lost
               PROVE  rated.version < version
    BY DEF C!SavedBeforeIsOffered, C!Offered
  <2>1. Pends(f)
    BY DEF FiltersFit, Heard
  <2>2. \A a \in Admin : edit[a].at = "idle"
    BY IdleEdit DEF C!Settled
  <2>3. QED
    BY <2>1, <2>2 DEF Pends, Raises
<1>5. QED
  BY <1>3, <1>4

\* Filters: whichever requests add, word anew, rename and remove filters at the same time,
\* and whenever the process stops, a filter saved since a book's rating makes the book offered
\* for a new one, unless the stop overtook its change before the version rose, or an edit wrote
\* over what came after its reading (store/flags.go, the flags of store/books.go).
THEOREM NewFiltersAskAgain == Spec => []SavedBeforeIsOffered
<1> DEFINE Fit == running = "filters" => FiltersFit
<1>1. Init => Fit
  BY FiltersInit DEF Init
<1>2. Fit /\ [Next]_vars => Fit'
  <2> SUFFICES ASSUME Fit, [Next]_vars, running' = "filters"
               PROVE  FiltersFit'
    OBVIOUS
  <2>1. running = "filters" /\ (C!Next \/ UNCHANGED C!vars)
    BY DEF Next, vars, filterVars, C!vars
  <2>2. QED
    BY <2>1, FiltersStep
<1>3. Fit => SavedBeforeIsOffered
  BY FiltersHold DEF SavedBeforeIsOffered
<1>4. QED
  BY <1>1, <1>2, <1>3, PTL DEF Spec

-----------------------------------------------------------------------------
(* The questions that are put to an AI.                                    *)

SettingKeys == {"base", "model", "fallback", "on", "backupBase", "backupModels"}

LEMMA SettingFields ==
    ASSUME NEW c \in Settings
    PROVE  /\ DOMAIN c = SettingKeys /\ c = [k \in SettingKeys |-> c[k]]
           /\ c["base"] \in STRING /\ c["model"] \in Seq(STRING) /\ c["fallback"] \in Seq(STRING)
           /\ c["on"] \in BOOLEAN /\ c["backupBase"] \in STRING /\ c["backupModels"] \in Seq(STRING)
  BY DEF Settings, SettingKeys

LEMMA OneSetting ==
    ASSUME NEW c \in Settings, NEW d \in Settings, NEW k \in SettingKeys
    PROVE  /\ [c EXCEPT ![k] = d[k]] \in Settings
           /\ [c EXCEPT ![k] = d[k]][k] = d[k]
           /\ \A j \in SettingKeys : j # k => [c EXCEPT ![k] = d[k]][j] = c[j]
  BY DEF Settings, SettingKeys

LEMMA SomeSettings ==
    ASSUME NEW c \in Settings, NEW d \in Settings, NEW D
    PROVE  [k \in SettingKeys |-> IF k \in D THEN c[k] ELSE d[k]] \in Settings
<1> DEFINE e == [k \in SettingKeys |-> IF k \in D THEN c[k] ELSE d[k]]
<1>1. \A k \in SettingKeys : e[k] = c[k] \/ e[k] = d[k]
  OBVIOUS
<1>2. e["base"] \in STRING /\ e["model"] \in Seq(STRING) /\ e["fallback"] \in Seq(STRING)
  BY <1>1 DEF Settings, SettingKeys
<1>3. e["on"] \in BOOLEAN /\ e["backupBase"] \in STRING /\ e["backupModels"] \in Seq(STRING)
  BY <1>1 DEF Settings, SettingKeys
<1>4. e = [k \in SettingKeys |-> e[k]]
  OBVIOUS
<1> HIDE DEF e
<1>5. e \in Settings
  BY <1>2, <1>3, <1>4 DEF Settings, SettingKeys
<1>6. QED
  BY <1>5 DEF e

\* A list of n entries has the length n.
LEMMA ListLength ==
    ASSUME NEW n \in Nat, NEW f, f = [i \in 1..n |-> f[i]]
    PROVE  Len(f) \in Nat
<1> DEFINE R == {f[i] : i \in 1..n}
<1>1. \A i \in 1..n : f[i] \in R
  OBVIOUS
<1> HIDE DEF R
<1>2. f \in [1..n -> R]
  BY <1>1
<1>3. f \in Seq(R)
  BY <1>2
<1>4. QED
  BY <1>3

LEMMA TwoLists ==
    ASSUME NEW E, NEW s \in Seq(E), NEW t \in Seq(E)
    PROVE  Len(s \o t) \in Nat
  OBVIOUS

\* The cardinality that AskAI's instance uses is the one the library's facts are about.
LEMMA SameCount == \A s : Q!Cardinality(s) = Cardinality(s)
  BY Zenon DEF Q!Cardinality, Cardinality

\* The models of an AI can be counted.
LEMMA ModelsAreCounted ==
    ASSUME NEW c \in Settings, NEW ai
    PROVE  Len(Q!Models(c, ai)) \in Nat
<1> DEFINE all == c.model \o c.fallback
           new == {i \in 1..Len(all) : \A j \in 1..(i - 1) : all[j] # all[i]}
           count == Q!Cardinality(new)
<1>1. c.model \in Seq(STRING) /\ c.fallback \in Seq(STRING) /\ c.backupModels \in Seq(STRING)
  BY DEF Settings
<1>2. Len(all) \in Nat
  BY <1>1, TwoLists
<1>3. count \in Nat
  <2>0. new \subseteq 1..Len(all)
    OBVIOUS
  <2> HIDE DEF all, new
  <2>1. IsFiniteSet(1..Len(all))
    BY <1>2, FS_Interval
  <2>3. QED
    BY <2>0, <2>1, FS_Subset, FS_CardinalityType, SameCount
<1>4. Q!MainModels(c) = [n \in 1..count |-> Q!MainModels(c)[n]]
  <2> DEFINE nth(n) == CHOOSE i \in new : Q!Cardinality({j \in new : j <= i}) = n
             list == [n \in 1..count |-> all[nth(n)]]
  <2>1. Q!MainModels(c) = list
    BY Zenon DEF Q!MainModels
  <2>2. list = [n \in 1..count |-> list[n]]
    <3> HIDE DEF nth, all, count
    <3>1. \A n \in 1..count : list[n] = all[nth(n)]
      OBVIOUS
    <3>2. QED
      BY <3>1
  <2>3. QED
    BY <2>1, <2>2
<1> HIDE DEF count
<1>5. Len(Q!MainModels(c)) \in Nat
  BY <1>3, <1>4, ListLength
<1>6. Len(c.backupModels) \in Nat /\ Len(<<>>) \in Nat
  BY <1>1
<1>7. QED
  BY <1>5, <1>6 DEF Q!Models

QuestionState ==
    [at : {"idle", "read", "ask", "answered", "failed", "stopped"}, rates : BOOLEAN,
     step : 0..5, ai : 0..3, model : Nat, tries : 0..3, config : Settings, said : Settings,
     raced : BOOLEAN, stop : BOOLEAN, tried : SUBSET (Nat \X Nat), down : SUBSET (Nat \X Nat)]

SettingsSave == [left : SUBSET SettingKeys, to : Settings]

\* The first j settings that are read are the same in two.
Agree(c, d, j) ==
    /\ j >= 1 => c["base"] = d["base"]
    /\ j >= 2 => c["model"] = d["model"]
    /\ j >= 3 => c["fallback"] = d["fallback"]
    /\ j >= 4 => c["on"] = d["on"]
    /\ j >= 5 => c["backupBase"] = d["backupBase"]
    /\ j >= 6 => c["backupModels"] = d["backupModels"]

\* A model was asked, or stands behind one whose server was down.
WasAsked(s, i, m) == <<i, m>> \in s.tried \/ (s.rates /\ \E n \in 1..m : <<i, n>> \in s.down)

\* Which models of which AI come before the one that is asked now.
Passed(s, i, m) == i < s.ai \/ (i = s.ai /\ m < s.model)

QuestionFits(s) ==
    /\ s \in QuestionState /\ s.down \subseteq s.tried
    /\ s.at = "ask" => s.ai \in 1..3 /\ s.model \in Nat \ {0}
    /\ s.at = "ask" => \A i \in 1..2 : \A m \in 1..Len(Q!Models(s.config, i)) : Passed(s, i, m) => WasAsked(s, i, m)
    /\ s.at = "failed" => \A i \in 1..2 : \A m \in 1..Len(Q!Models(s.config, i)) : WasAsked(s, i, m)

\* Who reads while nobody saves has read what the last save left.
ReadsWell(s, w, saving) == s.at = "read" => ~saving /\ s.said = w /\ Agree(s.config, s.said, s.step)
AsksWell(s) == s.at = "ask" => Agree(s.config, s.said, 4) /\ (s.config["on"] => Agree(s.config, s.said, 6))

SettingsTyped ==
    /\ setting \in Settings /\ whole \in Settings /\ writing \in SettingsSave
    /\ notice \in BOOLEAN /\ cut \in BOOLEAN /\ saves \in 0..MaxSaves
    /\ question \in [Asker -> QuestionState]

\* Between saves the settings are what the last one said; during one, those it wrote are.
SavesFit(left, to) ==
    /\ left = {} => \A k \in SettingKeys : setting[k] = whole[k]
    /\ left # {} => \A k \in SettingKeys : k \notin left => setting[k] = to[k]

QuestionsFit ==
    /\ SettingsTyped
    /\ \A a \in Asker : QuestionFits(question[a])
    /\ ~cut => SavesFit(writing.left, writing.to)
    /\ ~cut => \A a \in Asker : ~question[a].raced =>
                 ReadsWell(question[a], whole, writing.left # {}) /\ AsksWell(question[a])

LEMMA QuestionFacts ==
    ASSUME QuestionsFit
    PROVE  /\ setting \in Settings /\ whole \in Settings /\ writing \in SettingsSave
           /\ writing.left \in SUBSET SettingKeys /\ writing.to \in Settings
           /\ notice \in BOOLEAN /\ cut \in BOOLEAN /\ saves \in 0..MaxSaves /\ MaxSaves \in Nat
           /\ question \in [Asker -> QuestionState]
           /\ \A a \in Asker : question[a] \in QuestionState /\ QuestionFits(question[a])
<1>1. SettingsTyped /\ \A a \in Asker : QuestionFits(question[a])
  BY DEF QuestionsFit
<1>2. writing.left \in SUBSET SettingKeys /\ writing.to \in Settings
  BY <1>1 DEF SettingsTyped, SettingsSave
<1>3. QED
  BY <1>1, <1>2, SettingsAssumption DEF SettingsTyped

LEMMA Keys == Q!Key = SettingKeys /\ StartsWith \in Settings /\ Q!Unread \in Settings
<1>1. StartsWith \in Settings /\ DOMAIN StartsWith = SettingKeys /\ StartsWith = [k \in SettingKeys |-> StartsWith[k]]
  BY SettingsAssumption, SettingFields
<1>2. QED
  BY <1>1 DEF Q!Key, Q!Unread

\* An asker's next state.
QIdle == Q!Idle
QBegin(r, b, w) == [QIdle EXCEPT !.at = "read", !.rates = r, !.raced = b, !.said = w]
QRead(s, c, i) == [s EXCEPT !.config = c, !.step = i, !.at = "read", !.ai = 0, !.model = 0]
QAsks(s, c) == [s EXCEPT !.config = c, !.step = 0, !.at = "ask", !.ai = 1, !.model = 1]
QNext(s) == [s EXCEPT !.ai = @ + 1, !.model = 1]
QFails(s) == [s EXCEPT !.at = "failed", !.ai = 0, !.model = 0]
QTried(s, t, b) == [s EXCEPT !.tried = @ \cup {t}, !.down = IF b THEN @ \cup {t} ELSE @]
QEnds(s, p) == [s EXCEPT !.at = p, !.ai = 0, !.model = 0, !.tries = 0]
QBusy(s) == [s EXCEPT !.tries = @ + 1]
QRaced(s) == [s EXCEPT !.raced = TRUE]
QStops(s) == [s EXCEPT !.stop = TRUE]

LEMMA IdleQuestion == QIdle \in QuestionState /\ QIdle.at = "idle" /\ QIdle.down = {} /\ QIdle.tried = {} /\ QIdle.step = 0
<1>1. {} \in SUBSET (Nat \X Nat)
  OBVIOUS
<1>2. FALSE \in BOOLEAN
  OBVIOUS
<1>3. 0 \in 0..5 /\ 0 \in 0..3 /\ 0 \in Nat
  OBVIOUS
<1>4. QED
  BY <1>1, <1>2, <1>3, Keys DEF QuestionState, QIdle, Q!Idle

LEMMA BeginFields ==
    ASSUME NEW r \in BOOLEAN, NEW b \in BOOLEAN, NEW w \in Settings
    PROVE  /\ QBegin(r, b, w) \in QuestionState /\ QBegin(r, b, w).at = "read" /\ (QBegin(r, b, w).raced <=> b)
           /\ QBegin(r, b, w).said = w /\ QBegin(r, b, w).step = 0
           /\ QBegin(r, b, w).down = {} /\ QBegin(r, b, w).tried = {}
<1> DEFINE s == QIdle
<1>1. s \in QuestionState /\ s.down = {} /\ s.tried = {} /\ s.step = 0
  BY IdleQuestion
<1>2. QBegin(r, b, w) = [s EXCEPT !.at = "read", !.rates = r, !.raced = b, !.said = w]
  BY DEF QBegin
<1> HIDE DEF s
<1>3. QED
  BY <1>1, <1>2, ZenonT(60) DEF QuestionState

LEMMA ReadFields ==
    ASSUME NEW s \in QuestionState, NEW c \in Settings, NEW i \in 0..5
    PROVE  /\ QRead(s, c, i) \in QuestionState /\ QRead(s, c, i).at = "read" /\ (QRead(s, c, i).raced <=> s.raced)
           /\ QRead(s, c, i).said = s.said /\ QRead(s, c, i).step = i /\ QRead(s, c, i).config = c
           /\ QRead(s, c, i).down = s.down /\ QRead(s, c, i).tried = s.tried
<1>1. 0 \in 0..3 /\ 0 \in Nat
  OBVIOUS
<1>2. QED
  BY <1>1 DEF QuestionState, QRead

LEMMA AsksFields ==
    ASSUME NEW s \in QuestionState, NEW c \in Settings
    PROVE  /\ QAsks(s, c) \in QuestionState /\ QAsks(s, c).at = "ask" /\ (QAsks(s, c).raced <=> s.raced)
           /\ QAsks(s, c).said = s.said /\ QAsks(s, c).ai = 1 /\ QAsks(s, c).model = 1 /\ QAsks(s, c).config = c
           /\ QAsks(s, c).down = s.down /\ QAsks(s, c).tried = s.tried
<1>1. 0 \in 0..5 /\ 1 \in 0..3 /\ 1 \in Nat
  OBVIOUS
<1>2. QED
  BY <1>1 DEF QuestionState, QAsks

\* What a move of a question that was read leaves as it is.
SameQuestion(s, t) ==
    /\ t.config = s.config /\ t.said = s.said /\ (t.raced <=> s.raced) /\ (t.rates <=> s.rates)

LEMMA NextFields ==
    ASSUME NEW s \in QuestionState, s.ai \in 0..2
    PROVE  /\ QNext(s) \in QuestionState /\ QNext(s).at = s.at /\ QNext(s).ai = s.ai + 1 /\ QNext(s).model = 1
           /\ SameQuestion(s, QNext(s)) /\ QNext(s).tried = s.tried /\ QNext(s).down = s.down
<1>1. s.ai + 1 \in 0..3 /\ 1 \in Nat
  OBVIOUS
<1>2. QED
  BY <1>1 DEF QuestionState, QNext, SameQuestion

LEMMA FailsFields ==
    ASSUME NEW s \in QuestionState
    PROVE  /\ QFails(s) \in QuestionState /\ QFails(s).at = "failed"
           /\ SameQuestion(s, QFails(s)) /\ QFails(s).tried = s.tried /\ QFails(s).down = s.down
<1>1. 0 \in 0..3 /\ 0 \in Nat
  OBVIOUS
<1>2. QED
  BY <1>1 DEF QuestionState, QFails, SameQuestion

LEMMA TriedFields ==
    ASSUME NEW s \in QuestionState, NEW t \in Nat \X Nat, NEW b \in BOOLEAN, s.down \subseteq s.tried
    PROVE  /\ QTried(s, t, b) \in QuestionState /\ QTried(s, t, b).at = s.at
           /\ QTried(s, t, b).ai = s.ai /\ QTried(s, t, b).model = s.model
           /\ SameQuestion(s, QTried(s, t, b)) /\ QTried(s, t, b).tried = s.tried \cup {t}
           /\ s.down \subseteq QTried(s, t, b).down /\ (b => t \in QTried(s, t, b).down)
           /\ QTried(s, t, b).down \subseteq QTried(s, t, b).tried
<1> DEFINE d == IF b THEN s.down \cup {t} ELSE s.down
<1>1. d \in SUBSET (Nat \X Nat) /\ s.down \subseteq d /\ (b => t \in d) /\ d \subseteq s.tried \cup {t}
  BY DEF QuestionState
<1>2. s.tried \cup {t} \in SUBSET (Nat \X Nat)
  BY DEF QuestionState
<1>3. QTried(s, t, b) = [s EXCEPT !.tried = s.tried \cup {t}, !.down = d]
  BY DEF QuestionState, QTried
<1> HIDE DEF d
<1>4. QTried(s, t, b) \in QuestionState
  BY <1>1, <1>2, <1>3 DEF QuestionState
<1>5. SameQuestion(s, QTried(s, t, b))
  BY <1>3 DEF QuestionState, SameQuestion
<1>6. /\ QTried(s, t, b).at = s.at /\ QTried(s, t, b).ai = s.ai /\ QTried(s, t, b).model = s.model
      /\ QTried(s, t, b).tried = s.tried \cup {t} /\ QTried(s, t, b).down = d
  BY <1>3 DEF QuestionState
<1>7. QED
  BY <1>1, <1>4, <1>5, <1>6

LEMMA EndsFields ==
    ASSUME NEW s \in QuestionState, NEW p \in {"answered", "stopped"}
    PROVE  /\ QEnds(s, p) \in QuestionState /\ QEnds(s, p).at = p
           /\ QEnds(s, p).tried = s.tried /\ QEnds(s, p).down = s.down
<1>1. 0 \in 0..3 /\ 0 \in Nat
  OBVIOUS
<1>2. QED
  BY <1>1 DEF QuestionState, QEnds

LEMMA BusyFields ==
    ASSUME NEW s \in QuestionState, s.tries < 3
    PROVE  /\ QBusy(s) \in QuestionState /\ QBusy(s).at = s.at /\ QBusy(s).ai = s.ai /\ QBusy(s).model = s.model
           /\ SameQuestion(s, QBusy(s)) /\ QBusy(s).tried = s.tried /\ QBusy(s).down = s.down
<1>1. s.tries + 1 \in 0..3
  BY DEF QuestionState
<1>2. QED
  BY <1>1 DEF QuestionState, QBusy, SameQuestion

LEMMA MoveFields ==
    ASSUME NEW s \in QuestionState, NEW b \in BOOLEAN, s.ai \in 1..2, s.model \in Nat
    PROVE  /\ Q!MoveOn(s, b) \in QuestionState /\ Q!MoveOn(s, b).at = s.at
           /\ SameQuestion(s, Q!MoveOn(s, b)) /\ Q!MoveOn(s, b).tried = s.tried /\ Q!MoveOn(s, b).down = s.down
           /\ b => Q!MoveOn(s, b).ai = s.ai + 1 /\ Q!MoveOn(s, b).model = 1
           /\ ~b => Q!MoveOn(s, b).ai = s.ai /\ Q!MoveOn(s, b).model = s.model + 1
<1>1. s.ai + 1 \in 0..3 /\ 1 \in Nat /\ s.model + 1 \in Nat /\ 0 \in 0..3
  OBVIOUS
<1>2. CASE b
  <2>1. Q!MoveOn(s, b) = [s EXCEPT !.ai = @ + 1, !.model = 1, !.tries = 0]
    BY <1>2 DEF Q!MoveOn
  <2>2. QED
    BY <1>1, <1>2, <2>1 DEF QuestionState, SameQuestion
<1>3. CASE ~b
  <2>1. Q!MoveOn(s, b) = [s EXCEPT !.model = @ + 1, !.tries = 0]
    BY <1>3 DEF Q!MoveOn
  <2>2. QED
    BY <1>1, <1>3, <2>1 DEF QuestionState, SameQuestion
<1>4. QED
  BY <1>2, <1>3

LEMMA FlagFields ==
    ASSUME NEW s \in QuestionState
    PROVE  /\ QRaced(s) \in QuestionState /\ QRaced(s).raced /\ QRaced(s).at = s.at
           /\ QRaced(s).tried = s.tried /\ QRaced(s).down = s.down
           /\ QStops(s) \in QuestionState /\ QStops(s).at = s.at /\ QStops(s).ai = s.ai /\ QStops(s).model = s.model
           /\ SameQuestion(s, QStops(s)) /\ QStops(s).tried = s.tried /\ QStops(s).down = s.down
  BY DEF QuestionState, QRaced, QStops, SameQuestion

\* One asker takes a step.
LEMMA OneAsks ==
    ASSUME QuestionsFit, NEW a \in Asker, NEW s, QuestionFits(s),
           question' = [question EXCEPT ![a] = s],
           ~cut /\ ~s.raced => ReadsWell(s, whole, writing.left # {}) /\ AsksWell(s),
           notice' \in BOOLEAN, UNCHANGED <<setting, writing, whole, cut, saves>>
    PROVE  QuestionsFit'
<1>0. s \in QuestionState /\ question \in [Asker -> QuestionState] /\ SettingsTyped
  BY QuestionFacts DEF QuestionFits, QuestionsFit
<1>1. question' \in [Asker -> QuestionState] /\ question'[a] = s /\ \A b \in Asker : b # a => question'[b] = question[b]
  BY <1>0
<1>2. SettingsTyped'
  BY <1>0, <1>1 DEF SettingsTyped
<1>3. \A b \in Asker : QuestionFits(question'[b])
  BY <1>1 DEF QuestionsFit
<1>4. ~cut => \A b \in Asker : ~question'[b].raced => ReadsWell(question'[b], whole, writing.left # {}) /\ AsksWell(question'[b])
  BY <1>1 DEF QuestionsFit
<1>5. ~cut' => SavesFit(writing.left, writing.to)'
  BY DEF QuestionsFit, SavesFit
<1>6. QED
  BY <1>2, <1>3, <1>4, <1>5 DEF QuestionsFit

\* Who has just begun, ended, or does not ask, has nothing to show.
LEMMA QuietFits ==
    ASSUME NEW s \in QuestionState, s.down \subseteq s.tried, s.at \notin {"ask", "failed"}
    PROVE  QuestionFits(s) /\ AsksWell(s)
  BY DEF QuestionFits, AsksWell

LEMMA AskBegins ==
    ASSUME QuestionsFit, NEW a \in Asker, NEW r \in BOOLEAN, Q!AIConfigs(a, r)
    PROVE  QuestionsFit'
<1> DEFINE s == QBegin(r, writing.left # {}, whole)
<1>1. question' = [question EXCEPT ![a] = s] /\ UNCHANGED <<setting, writing, notice, whole, cut, saves>>
  BY DEF Q!AIConfigs, QBegin, QIdle, Q!Saving
<1>2. /\ s \in QuestionState /\ s.at = "read" /\ (s.raced <=> writing.left # {}) /\ s.said = whole /\ s.step = 0
      /\ s.down = {} /\ s.tried = {}
  <2>1. \A b \in BOOLEAN : LET q == QBegin(r, b, whole) IN
            /\ q \in QuestionState /\ q.at = "read" /\ (q.raced <=> b) /\ q.said = whole /\ q.step = 0
            /\ q.down = {} /\ q.tried = {}
    BY QuestionFacts, BeginFields
  <2>2. (writing.left # {}) \in BOOLEAN
    OBVIOUS
  <2>3. QED
    BY <2>1, <2>2
<1> HIDE DEF s
<1>3. QuestionFits(s) /\ AsksWell(s)
  BY <1>2, QuietFits
<1>4. ~s.raced => ReadsWell(s, whole, writing.left # {})
  BY <1>2 DEF ReadsWell, Agree
<1>5. notice' \in BOOLEAN
  BY <1>1, QuestionFacts
<1>6. QED
  BY <1>1, <1>3, <1>4, <1>5, OneAsks

LEMMA OrderOfKeys ==
    /\ Len(Q!Order) = 6
    /\ \A i \in 1..6 : /\ Q!Order[i] \in SettingKeys
                       /\ (i = 1 => Q!Order[i] = "base") /\ (i = 2 => Q!Order[i] = "model")
                       /\ (i = 3 => Q!Order[i] = "fallback") /\ (i = 4 <=> Q!Order[i] = "on")
                       /\ (i = 5 => Q!Order[i] = "backupBase") /\ (i = 6 => Q!Order[i] = "backupModels")
<1>1. Len(Q!Order) = 6
  BY DEF Q!Order
<1>2. /\ Q!Order[1] = "base" /\ Q!Order[2] = "model" /\ Q!Order[3] = "fallback" /\ Q!Order[4] = "on"
      /\ Q!Order[5] = "backupBase" /\ Q!Order[6] = "backupModels"
  BY DEF Q!Order
<1>3. ASSUME NEW i \in 1..6
      PROVE  /\ Q!Order[i] \in SettingKeys
             /\ (i = 1 => Q!Order[i] = "base") /\ (i = 2 => Q!Order[i] = "model")
             /\ (i = 3 => Q!Order[i] = "fallback") /\ (i = 4 <=> Q!Order[i] = "on")
             /\ (i = 5 => Q!Order[i] = "backupBase") /\ (i = 6 => Q!Order[i] = "backupModels")
  <2>1. i = 1 \/ i = 2 \/ i = 3 \/ i = 4 \/ i = 5 \/ i = 6
    OBVIOUS
  <2>2. QED
    BY <1>2, <2>1 DEF SettingKeys
<1>4. QED
  BY <1>1, <1>3

\* One more setting is read.
LEMMA AgreeOneMore ==
    ASSUME NEW c \in Settings, NEW d \in Settings, NEW e, NEW i \in 1..6, Agree(c, d, i - 1),
           e = [c EXCEPT ![Q!Order[i]] = d[Q!Order[i]]]
    PROVE  Agree(e, d, i)
<1> DEFINE k == Q!Order[i]
<1>1. k \in SettingKeys /\ e[k] = d[k] /\ \A j \in SettingKeys : j # k => e[j] = c[j]
  BY OrderOfKeys, OneSetting
<1>2. i \in Int /\ (i = 1 => k = "base") /\ (i = 2 => k = "model") /\ (i = 3 => k = "fallback") /\ (i = 4 => k = "on")
      /\ (i = 5 => k = "backupBase") /\ (i = 6 => k = "backupModels")
  BY OrderOfKeys
<1> HIDE DEF k
<1>3. i >= 1 => e["base"] = d["base"]
  BY <1>1, <1>2 DEF Agree, SettingKeys
<1>4. i >= 2 => e["model"] = d["model"]
  BY <1>1, <1>2 DEF Agree, SettingKeys
<1>5. i >= 3 => e["fallback"] = d["fallback"]
  BY <1>1, <1>2 DEF Agree, SettingKeys
<1>6. i >= 4 => e["on"] = d["on"]
  BY <1>1, <1>2 DEF Agree, SettingKeys
<1>7. i >= 5 => e["backupBase"] = d["backupBase"]
  BY <1>1, <1>2 DEF Agree, SettingKeys
<1>8. i >= 6 => e["backupModels"] = d["backupModels"]
  BY <1>1, <1>2 DEF Agree, SettingKeys
<1>9. QED
  BY <1>3, <1>4, <1>5, <1>6, <1>7, <1>8 DEF Agree

\* Nothing is said of the models before the first one.
LEMMA FirstFits ==
    ASSUME NEW s \in QuestionState, s.down \subseteq s.tried, s.at = "ask", s.ai = 1, s.model = 1
    PROVE  QuestionFits(s)
<1>1. \A i \in 1..2 : \A m \in 1..Len(Q!Models(s.config, i)) : ~Passed(s, i, m)
  <2> SUFFICES ASSUME NEW i \in 1..2, NEW m \in 1..Len(Q!Models(s.config, i)) PROVE ~Passed(s, i, m)
    OBVIOUS
  <2>1. s.config \in Settings
    BY DEF QuestionState
  <2>2. Len(Q!Models(s.config, i)) \in Nat
    BY <2>1, ModelsAreCounted
  <2>3. m >= 1 /\ m \in Int /\ i >= 1 /\ i \in Int
    BY <2>2
  <2>4. QED
    BY <2>3 DEF Passed
<1>2. s.ai \in 1..3 /\ s.model \in Nat \ {0}
  OBVIOUS
<1>3. QED
  BY <1>1, <1>2 DEF QuestionFits

LEMMA SettingFits ==
    ASSUME QuestionsFit, NEW a \in Asker, Q!Setting(a)
    PROVE  QuestionsFit'
<1> DEFINE s == question[a]
           i == s.step + 1
           k == Q!Order[i]
           c == [s.config EXCEPT ![k] = setting[k]]
           last == i = 6 \/ (k = "on" /\ ~setting.on)
           t == IF last THEN QAsks(s, c) ELSE QRead(s, c, i)
<1>0. s \in QuestionState /\ QuestionFits(s) /\ setting \in Settings /\ s.config \in Settings /\ s.step \in 0..5 /\ notice \in BOOLEAN
  BY QuestionFacts DEF QuestionState
<1>1. s.at = "read" /\ UNCHANGED <<setting, writing, notice, whole, cut, saves>>
  BY DEF Q!Setting
<1>2. question' = [question EXCEPT ![a] = t]
  <2>1. question' = [question EXCEPT ![a].config[k] = setting[k], ![a].step = IF last THEN 0 ELSE i,
                                     ![a].at = IF last THEN "ask" ELSE "read",
                                     ![a].ai = IF last THEN 1 ELSE 0, ![a].model = IF last THEN 1 ELSE 0]
    BY OrderOfKeys DEF Q!Setting
  <2>2. t = [s EXCEPT !.config[k] = setting[k], !.step = IF last THEN 0 ELSE i,
                      !.at = IF last THEN "ask" ELSE "read",
                      !.ai = IF last THEN 1 ELSE 0, !.model = IF last THEN 1 ELSE 0]
    <3> HIDE DEF k, i, last
    <3>1. CASE last
      BY <1>0, <3>1 DEF QuestionState, QAsks
    <3>2. CASE ~last
      BY <1>0, <3>2 DEF QuestionState, QRead
    <3>3. QED
      BY <3>1, <3>2
  <2> HIDE DEF k, i, last, t
  <2>3. question \in [Asker -> QuestionState]
    BY QuestionFacts
  <2>4. QED
    BY <2>1, <2>2, <2>3 DEF QuestionState
<1>3. i \in 1..6 /\ k \in SettingKeys /\ c \in Settings
  BY <1>0, OrderOfKeys, OneSetting
<1>4. (last => t = QAsks(s, c)) /\ (~last => t = QRead(s, c, i) /\ i \in 0..5)
  BY <1>3
<1> HIDE DEF t, c, k, last, i
<1>5. /\ t \in QuestionState /\ t.down = s.down /\ t.tried = s.tried /\ (t.raced <=> s.raced) /\ t.said = s.said /\ t.config = c
      /\ last => t.at = "ask" /\ t.ai = 1 /\ t.model = 1
      /\ ~last => t.at = "read" /\ t.step = i
  <2>1. CASE last
    <3>1. /\ QAsks(s, c) \in QuestionState /\ QAsks(s, c).at = "ask" /\ (QAsks(s, c).raced <=> s.raced)
          /\ QAsks(s, c).said = s.said /\ QAsks(s, c).ai = 1 /\ QAsks(s, c).model = 1 /\ QAsks(s, c).config = c
          /\ QAsks(s, c).down = s.down /\ QAsks(s, c).tried = s.tried
      BY <1>0, <1>3, AsksFields
    <3>2. QED
      BY <1>4, <2>1, <3>1
  <2>2. CASE ~last
    <3>0. s \in QuestionState /\ c \in Settings /\ i \in 0..5
      BY <1>0, <1>3, <1>4, <2>2
    <3>1. QRead(s, c, i) \in QuestionState /\ QRead(s, c, i).at = "read" /\ QRead(s, c, i).step = i
      BY <3>0, ReadFields
    <3>2. QRead(s, c, i).raced <=> s.raced
      BY <3>0, ReadFields
    <3>3. QRead(s, c, i).said = s.said /\ QRead(s, c, i).config = c
      BY <3>0, ReadFields, ZenonT(60)
    <3>4. QRead(s, c, i).down = s.down /\ QRead(s, c, i).tried = s.tried
      BY <3>0 DEF QRead, QuestionState
    <3>5. QED
      BY <1>4, <2>2, <3>1, <3>2, <3>3, <3>4
  <2>3. QED
    BY <2>1, <2>2
<1>6. QuestionFits(t)
  <2>1. t.down \subseteq t.tried
    BY <1>0, <1>5 DEF QuestionFits
  <2>2. CASE last
    BY <1>5, <2>1, <2>2, FirstFits
  <2>3. CASE ~last
    BY <1>5, <2>1, <2>3, QuietFits
  <2>4. QED
    BY <2>2, <2>3
<1>7. ~cut /\ ~t.raced => ReadsWell(t, whole, writing.left # {}) /\ AsksWell(t)
  <2> SUFFICES ASSUME ~cut, ~t.raced
               PROVE  ReadsWell(t, whole, writing.left # {}) /\ AsksWell(t)
    OBVIOUS
  <2>1. writing.left = {} /\ s.said = whole /\ Agree(s.config, s.said, s.step)
    BY <1>1, <1>5 DEF QuestionsFit, ReadsWell
  <2>2. setting[k] = s.said[k]
    BY <1>3, <2>1 DEF QuestionsFit, SavesFit
  <2>3. s.said \in Settings /\ c = [s.config EXCEPT ![k] = s.said[k]]
    BY <1>0, <2>2 DEF QuestionState, c
  <2>4. Agree(s.config, s.said, i - 1)
    BY <1>0, <2>1 DEF i
  <2>5. Agree(t.config, t.said, i)
    <3>1. c = [s.config EXCEPT ![Q!Order[i]] = s.said[Q!Order[i]]]
      BY <2>3 DEF k
    <3>2. Agree(c, s.said, i)
      BY <1>0, <1>3, <2>3, <2>4, <3>1, AgreeOneMore
    <3>3. QED
      BY <1>5, <3>2
  <2>6. CASE ~last
    BY <1>5, <2>1, <2>5, <2>6 DEF ReadsWell, AsksWell
  <2>7. CASE last
    <3>1. i = 6 \/ (i = 4 /\ ~setting["on"])
      BY <1>3, <2>7, OrderOfKeys DEF k, last
    <3>2. i = 6 => Agree(t.config, t.said, 4) /\ Agree(t.config, t.said, 6)
      BY <2>5 DEF Agree
    <3>3. i = 4 /\ ~setting["on"] => Agree(t.config, t.said, 4) /\ ~t.config["on"]
      <4> SUFFICES ASSUME i = 4, ~setting["on"] PROVE Agree(t.config, t.said, 4) /\ ~t.config["on"]
        OBVIOUS
      <4>1. k = "on"
        BY <1>3, OrderOfKeys DEF k
      <4>2. c["on"] = setting["on"]
        <5>1. c[k] = setting[k]
          BY <1>0, <1>3, OneSetting DEF c
        <5>2. QED
          BY <4>1, <5>1
      <4>3. QED
        BY <1>5, <2>5, <4>2
    <3>4. QED
      BY <1>5, <2>7, <3>1, <3>2, <3>3 DEF AsksWell, ReadsWell
  <2>8. QED
    BY <2>6, <2>7
<1>8. QED
  BY <1>0, <1>1, <1>2, <1>6, <1>7, OneAsks

\* A move that keeps what was read keeps what is said of it.
LEMMA SameReading ==
    ASSUME QuestionsFit, NEW a \in Asker, NEW t \in QuestionState, question[a].at = "ask",
           SameQuestion(question[a], t), t.at # "read"
    PROVE  ~cut /\ ~t.raced => ReadsWell(t, whole, writing.left # {}) /\ AsksWell(t)
<1>1. ~cut /\ ~t.raced => AsksWell(question[a])
  BY DEF QuestionsFit, SameQuestion
<1>2. AsksWell(question[a]) => Agree(t.config, t.said, 4) /\ (t.config["on"] => Agree(t.config, t.said, 6))
  BY DEF AsksWell, SameQuestion
<1>3. QED
  BY <1>1, <1>2 DEF ReadsWell, AsksWell

\* More models were asked: what was asked before still was.
LEMMA AskedBefore ==
    ASSUME NEW s, NEW t, SameQuestion(s, t), s.tried \subseteq t.tried, s.down \subseteq t.down
    PROVE  \A i, m : WasAsked(s, i, m) => WasAsked(t, i, m)
  BY DEF WasAsked, SameQuestion

LEMMA NextAIFits ==
    ASSUME QuestionsFit, NEW a \in Asker, Q!NextAI(a)
    PROVE  QuestionsFit'
<1> DEFINE s == question[a]
           t == IF s.ai < 2 THEN QNext(s) ELSE QFails(s)
<1>0. s \in QuestionState /\ QuestionFits(s) /\ notice \in BOOLEAN /\ question \in [Asker -> QuestionState] /\ s.config \in Settings
  BY QuestionFacts DEF QuestionState
<1>1. s.at = "ask" /\ s.model > Len(Q!Models(s.config, s.ai)) /\ UNCHANGED <<setting, writing, notice, whole, cut, saves>>
  BY DEF Q!NextAI
<1>2. question' = [question EXCEPT ![a] = t]
  <2>1. CASE s.ai < 2
    <3>1. question' = [question EXCEPT ![a] = [s EXCEPT !.ai = s.ai + 1, !.model = 1]]
      BY <1>0, <2>1 DEF Q!NextAI
    <3>2. QNext(s) = [s EXCEPT !.ai = s.ai + 1, !.model = 1]
      BY <1>0 DEF QNext, QuestionState
    <3>3. QED
      BY <2>1, <3>1, <3>2
  <2>2. CASE ~(s.ai < 2)
    BY <1>0, <2>2 DEF Q!NextAI, QFails, QuestionState
  <2>3. QED
    BY <2>1, <2>2
<1>3. s.ai \in 1..3 /\ s.model \in Nat \ {0} /\ \A i : Len(Q!Models(s.config, i)) \in Nat
  BY <1>0, <1>1, ModelsAreCounted DEF QuestionFits
<1>4. \A i \in 1..2 : \A m \in 1..Len(Q!Models(s.config, i)) : i <= s.ai => WasAsked(s, i, m)
  <2> SUFFICES ASSUME NEW i \in 1..2, NEW m \in 1..Len(Q!Models(s.config, i)), i <= s.ai PROVE WasAsked(s, i, m)
    OBVIOUS
  <2>1. i < s.ai \/ (i = s.ai /\ m < s.model)
    BY <1>1, <1>3
  <2>2. QED
    BY <1>0, <1>1, <2>1 DEF QuestionFits, Passed
<1>5. t \in QuestionState /\ SameQuestion(s, t) /\ t.tried = s.tried /\ t.down = s.down /\ t.at \in {"ask", "failed"}
      /\ (t.at = "ask" => s.ai = 1 /\ t.ai = 2 /\ t.model = 1)
  <2>1. CASE s.ai < 2
    <3>1. s.ai \in 0..2 /\ s.ai = 1
      BY <1>3, <2>1
    <3>2. QED
      BY <1>0, <1>1, <2>1, <3>1, NextFields
  <2>2. CASE ~(s.ai < 2)
    BY <1>0, <2>2, FailsFields
  <2>3. QED
    BY <2>1, <2>2
<1>6. t.at = "failed" => s.ai >= 2
  BY <1>0, <1>1, <1>3, NextFields
<1> HIDE DEF t
<1>7. QuestionFits(t)
  <2>1. t.down \subseteq t.tried
    BY <1>0, <1>5 DEF QuestionFits
  <2>2. \A i, m : WasAsked(s, i, m) => WasAsked(t, i, m)
    BY <1>5, AskedBefore
  <2>3. t.config = s.config
    BY <1>5 DEF SameQuestion
  <2>4. CASE t.at = "ask"
    <3>1. \A i \in 1..2 : \A m \in 1..Len(Q!Models(t.config, i)) : Passed(t, i, m) => WasAsked(t, i, m)
      <4> SUFFICES ASSUME NEW i \in 1..2, NEW m \in 1..Len(Q!Models(s.config, i)), Passed(t, i, m) PROVE WasAsked(t, i, m)
        BY <2>3
      <4>1. m >= 1 /\ m \in Int
        BY <1>3
      <4>2. i <= s.ai
        BY <1>5, <2>4, <4>1 DEF Passed
      <4>3. QED
        BY <1>4, <2>2, <4>2
    <3>2. t.ai \in 1..3 /\ t.model \in Nat \ {0}
      BY <1>5, <2>4
    <3>3. QED
      BY <1>5, <2>1, <2>4, <3>1, <3>2 DEF QuestionFits
  <2>5. CASE t.at = "failed"
    <3>1. \A i \in 1..2 : i <= s.ai
      BY <1>3, <1>6, <2>5
    <3>2. \A i \in 1..2 : \A m \in 1..Len(Q!Models(t.config, i)) : WasAsked(t, i, m)
      BY <1>4, <2>2, <2>3, <3>1
    <3>3. QED
      BY <1>5, <2>1, <2>5, <3>2 DEF QuestionFits
  <2>6. QED
    BY <1>5, <2>4, <2>5
<1>8. ~cut /\ ~t.raced => ReadsWell(t, whole, writing.left # {}) /\ AsksWell(t)
  BY <1>1, <1>5, SameReading
<1>9. QED
  BY <1>0, <1>1, <1>2, <1>7, <1>8, OneAsks

\* The question moves on from a model that was asked.
LEMMA MovesOn ==
    ASSUME NEW s \in QuestionState, QuestionFits(s), s.at = "ask", s.ai \in 1..2,
           s.model \in 1..Len(Q!Models(s.config, s.ai)), NEW b \in BOOLEAN, NEW d \in BOOLEAN, d <=> (b /\ s.rates)
    PROVE  LET t == Q!MoveOn(QTried(s, <<s.ai, s.model>>, b), d)
           IN  t \in QuestionState /\ QuestionFits(t) /\ t.at = "ask" /\ SameQuestion(s, t)
<1> DEFINE this == <<s.ai, s.model>>
           u == QTried(s, this, b)
           t == Q!MoveOn(u, d)
<1>0. s.config \in Settings /\ Len(Q!Models(s.config, s.ai)) \in Nat /\ \A i : Len(Q!Models(s.config, i)) \in Nat
  BY ModelsAreCounted DEF QuestionState
<1>1. s.model \in Nat \ {0} /\ this \in Nat \X Nat /\ s.down \subseteq s.tried
  BY <1>0 DEF QuestionFits
<1> HIDE DEF this
<1>2. /\ u \in QuestionState /\ u.at = "ask" /\ u.ai = s.ai /\ u.model = s.model /\ SameQuestion(s, u)
      /\ u.tried = s.tried \cup {this} /\ s.down \subseteq u.down /\ (b => this \in u.down) /\ u.down \subseteq u.tried
  BY <1>1, TriedFields
<1> HIDE DEF u
<1>3. /\ t \in QuestionState /\ t.at = "ask" /\ SameQuestion(u, t) /\ t.tried = u.tried /\ t.down = u.down
      /\ (d => t.ai = s.ai + 1 /\ t.model = 1) /\ (~d => t.ai = s.ai /\ t.model = s.model + 1)
  <2>1. u.ai \in 1..2 /\ u.model \in Nat
    BY <1>1, <1>2
  <2>2. QED
    BY <1>2, <2>1, MoveFields
<1>4. SameQuestion(s, t) /\ t.config = s.config
  BY <1>2, <1>3 DEF SameQuestion
<1>5. \A i, m : WasAsked(s, i, m) => WasAsked(t, i, m)
  BY <1>2, <1>3, <1>4, AskedBefore
<1> HIDE DEF t
<1>6. ASSUME NEW i \in 1..2, NEW m \in 1..Len(Q!Models(t.config, i)), Passed(t, i, m) PROVE WasAsked(t, i, m)
  <2>1. m \in Nat \ {0} /\ m \in 1..Len(Q!Models(s.config, i))
    BY <1>0, <1>4, <1>6
  <2>2. CASE Passed(s, i, m)
    BY <1>5, <2>1, <2>2 DEF QuestionFits
  <2>3. CASE ~Passed(s, i, m)
    <3>1. i = s.ai /\ m >= s.model
      BY <1>1, <1>3, <1>6, <2>1, <2>3 DEF Passed
    <3>2. CASE d
      <4>1. this \in t.down /\ t.rates
        BY <1>2, <1>3, <1>4, <3>2 DEF SameQuestion
      <4>2. s.model \in 1..m
        BY <1>1, <2>1, <3>1
      <4>3. QED
        BY <3>1, <4>1, <4>2 DEF WasAsked, this
    <3>3. CASE ~d
      <4>1. m = s.model
        BY <1>1, <1>3, <1>6, <2>1, <3>1, <3>3 DEF Passed
      <4>2. this \in t.tried
        BY <1>2, <1>3
      <4>3. QED
        BY <3>1, <4>1, <4>2 DEF WasAsked, this
    <3>4. QED
      BY <3>2, <3>3
  <2>4. QED
    BY <2>2, <2>3
<1>7. t.ai \in 1..3 /\ t.model \in Nat \ {0}
  BY <1>1, <1>3
<1>8. t.down \subseteq t.tried
  BY <1>2, <1>3
<1>9. QuestionFits(t)
  BY <1>3, <1>6, <1>7, <1>8 DEF QuestionFits
<1>10. QED
  BY <1>3, <1>4, <1>9 DEF t, u, this

LEMMA CompleteFits ==
    ASSUME QuestionsFit, NEW a \in Asker, NEW r \in {"ok", "bad", "busy", "down"}, Q!Complete(a, r)
    PROVE  QuestionsFit'
<1> DEFINE s == question[a]
           this == <<s.ai, s.model>>
           u == QTried(s, this, r = "down")
<1>0. s \in QuestionState /\ QuestionFits(s) /\ notice \in BOOLEAN /\ s.config \in Settings
  BY QuestionFacts DEF QuestionState
<1>1. /\ s.at = "ask" /\ s.model <= Len(Q!Models(s.config, s.ai))
      /\ UNCHANGED <<setting, writing, whole, cut, saves>>
      /\ notice' = IF r = "ok" /\ s.rates THEN s.ai = 2 ELSE notice
  BY DEF Q!Complete
<1>2. \/ question' = [question EXCEPT ![a] = QEnds(u, "answered")]
      \/ question' = [question EXCEPT ![a] = QEnds(u, "stopped")]
      \/ s.tries < 3 /\ question' = [question EXCEPT ![a] = QBusy(s)]
      \/ question' = [question EXCEPT ![a] = Q!MoveOn(u, r = "down" /\ s.rates)]
  <2>1. CASE r = "ok"
    BY <2>1 DEF Q!Complete, QTried, QEnds
  <2>2. CASE r # "ok" /\ s.stop
    BY <2>2 DEF Q!Complete, QTried, QEnds
  <2>3. CASE r = "busy" /\ s.tries < 3 /\ ~s.stop
    BY <2>3 DEF Q!Complete, QBusy
  <2>4. CASE r # "ok" /\ ~s.stop /\ ~(r = "busy" /\ s.tries < 3)
    BY <2>4 DEF Q!Complete, QTried
  <2>5. QED
    BY <2>1, <2>2, <2>3, <2>4
<1>3. /\ s.ai \in 1..2 /\ s.model \in 1..Len(Q!Models(s.config, s.ai)) /\ this \in Nat \X Nat
  <2>1. s.ai \in 1..3 /\ s.model \in Nat \ {0} /\ Len(Q!Models(s.config, s.ai)) \in Nat
    BY <1>0, <1>1, ModelsAreCounted DEF QuestionFits
  <2>2. s.ai # 3
    <3>1. s.ai = 3 => Q!Models(s.config, s.ai) = <<>>
      BY DEF Q!Models
    <3>2. QED
      BY <1>1, <2>1, <3>1
  <2>3. QED
    BY <1>1, <2>1, <2>2
<1>4. notice' \in BOOLEAN
  <2>1. (s.ai = 2) \in BOOLEAN
    OBVIOUS
  <2>2. QED
    BY <1>0, <1>1, <2>1
<1>5. u \in QuestionState /\ u.down \subseteq u.tried /\ SameQuestion(s, u)
  <2>1. (r = "down") \in BOOLEAN /\ s.down \subseteq s.tried
    BY <1>0 DEF QuestionFits
  <2> DEFINE b == r = "down"
  <2>2. b \in BOOLEAN
    OBVIOUS
  <2> HIDE DEF b, this
  <2>3. QTried(s, this, b) \in QuestionState /\ QTried(s, this, b).down \subseteq QTried(s, this, b).tried
        /\ SameQuestion(s, QTried(s, this, b))
    BY <1>0, <1>3, <2>1, <2>2, TriedFields
  <2>4. QED
    BY <2>3 DEF b
<1> HIDE DEF u
<1>6. ASSUME NEW t \in QuestionState, QuestionFits(t), question' = [question EXCEPT ![a] = t],
             ~cut /\ ~t.raced => ReadsWell(t, whole, writing.left # {}) /\ AsksWell(t)
      PROVE  QuestionsFit'
  BY <1>1, <1>4, <1>6, OneAsks
<1>7. ASSUME NEW p \in {"answered", "stopped"}, question' = [question EXCEPT ![a] = QEnds(u, p)]
      PROVE  QuestionsFit'
  <2>1. /\ QEnds(u, p) \in QuestionState /\ QEnds(u, p).at = p
        /\ QEnds(u, p).tried = u.tried /\ QEnds(u, p).down = u.down
    BY <1>5, EndsFields
  <2>2. QuestionFits(QEnds(u, p)) /\ AsksWell(QEnds(u, p)) /\ ReadsWell(QEnds(u, p), whole, writing.left # {})
    BY <1>5, <2>1, QuietFits DEF ReadsWell
  <2>3. QED
    BY <1>6, <1>7, <2>1, <2>2
<1>8. CASE s.tries < 3 /\ question' = [question EXCEPT ![a] = QBusy(s)]
  <2> DEFINE t == QBusy(s)
  <2>1. /\ t \in QuestionState /\ t.at = "ask" /\ t.ai = s.ai /\ t.model = s.model
        /\ SameQuestion(s, t) /\ t.tried = s.tried /\ t.down = s.down
    BY <1>0, <1>1, <1>8, BusyFields
  <2> HIDE DEF t
  <2>2. \A i, m : (WasAsked(s, i, m) => WasAsked(t, i, m)) /\ (Passed(t, i, m) => Passed(s, i, m))
    BY <2>1 DEF WasAsked, Passed, SameQuestion
  <2>3. t.config = s.config
    BY <2>1 DEF SameQuestion
  <2>4. QuestionFits(t)
    BY <1>0, <1>1, <2>1, <2>2, <2>3 DEF QuestionFits
  <2>5. ~cut /\ ~t.raced => ReadsWell(t, whole, writing.left # {}) /\ AsksWell(t)
    BY <1>1, <2>1, SameReading
  <2>6. QED
    BY <1>6, <1>8, <2>1, <2>4, <2>5 DEF t
<1>9. CASE question' = [question EXCEPT ![a] = Q!MoveOn(u, r = "down" /\ s.rates)]
  <2> DEFINE b == r = "down"
             d == r = "down" /\ s.rates
             t == Q!MoveOn(QTried(s, this, b), d)
  <2>1. b \in BOOLEAN /\ d \in BOOLEAN /\ (d <=> b /\ s.rates)
    OBVIOUS
  <2>2. question' = [question EXCEPT ![a] = t]
    BY <1>9 DEF u
  <2> HIDE DEF b, d
  <2>3. t \in QuestionState /\ QuestionFits(t) /\ t.at = "ask" /\ SameQuestion(s, t)
    BY <1>0, <1>1, <1>3, <2>1, MovesOn
  <2> HIDE DEF t
  <2>4. ~cut /\ ~t.raced => ReadsWell(t, whole, writing.left # {}) /\ AsksWell(t)
    BY <1>1, <2>3, SameReading
  <2>5. QED
    BY <1>6, <2>2, <2>3, <2>4
<1>10. QED
  BY <1>2, <1>7, <1>8, <1>9

LEMMA DoneFits ==
    ASSUME QuestionsFit, NEW a \in Asker, Q!Done(a)
    PROVE  QuestionsFit'
<1>1. question' = [question EXCEPT ![a] = QIdle] /\ UNCHANGED <<setting, writing, notice, whole, cut, saves>>
  BY DEF Q!Done, QIdle
<1>2. QuestionFits(QIdle) /\ AsksWell(QIdle) /\ ReadsWell(QIdle, whole, writing.left # {})
  BY IdleQuestion, QuietFits DEF ReadsWell
<1>3. notice' \in BOOLEAN
  BY <1>1, QuestionFacts
<1>4. QED
  BY <1>1, <1>2, <1>3, OneAsks

LEMMA StopFits ==
    ASSUME QuestionsFit, NEW a \in Asker, Q!Stop(a)
    PROVE  QuestionsFit'
<1> DEFINE s == question[a]
           t == QStops(s)
<1>0. s \in QuestionState /\ QuestionFits(s) /\ notice \in BOOLEAN
  BY QuestionFacts
<1>1. s.at = "ask" /\ question' = [question EXCEPT ![a] = t] /\ UNCHANGED <<setting, writing, notice, whole, cut, saves>>
  BY <1>0 DEF Q!Stop, QStops
<1>2. /\ t \in QuestionState /\ t.at = "ask" /\ t.ai = s.ai /\ t.model = s.model
      /\ SameQuestion(s, t) /\ t.tried = s.tried /\ t.down = s.down
  BY <1>0, <1>1, FlagFields
<1> HIDE DEF t
<1>3. \A i, m : (WasAsked(s, i, m) => WasAsked(t, i, m)) /\ (Passed(t, i, m) => Passed(s, i, m))
  BY <1>2 DEF WasAsked, Passed, SameQuestion
<1>4. t.config = s.config
  BY <1>2 DEF SameQuestion
<1>5. QuestionFits(t)
  BY <1>0, <1>1, <1>2, <1>3, <1>4 DEF QuestionFits
<1>6. ~cut /\ ~t.raced => ReadsWell(t, whole, writing.left # {}) /\ AsksWell(t)
  BY <1>1, <1>2, SameReading
<1>7. QED
  BY <1>0, <1>1, <1>5, <1>6, OneAsks

LEMMA PutFits ==
    ASSUME QuestionsFit, NEW new \in MaySave, Q!PutSettings(new)
    PROVE  QuestionsFit'
<1> DEFINE given == [k \in SettingKeys |-> IF k \in DOMAIN new THEN new[k] ELSE StartsWith[k]]
           to == [k \in SettingKeys |-> IF k \in DOMAIN new THEN new[k] ELSE setting[k]]
<1>0. /\ setting \in Settings /\ writing.left \in SUBSET SettingKeys /\ saves \in 0..MaxSaves /\ MaxSaves \in Nat
      /\ question \in [Asker -> QuestionState]
      /\ \A a \in Asker : question[a] \in QuestionState /\ QuestionFits(question[a])
  BY QuestionFacts
<1>1. /\ writing.left = {} /\ saves < MaxSaves /\ saves' = saves + 1
      /\ writing' = [left |-> DOMAIN new, to |-> to]
      /\ question' = [a \in Asker |-> IF question[a].at = "read" THEN QRaced(question[a]) ELSE question[a]]
      /\ UNCHANGED <<setting, notice, whole, cut>>
  BY Keys DEF Q!PutSettings, Q!Saving, QRaced
<1>2. DOMAIN new \in SUBSET SettingKeys /\ given \in Settings
  BY SettingsAssumption, SettingFields
<1>3. to \in Settings
  <2>1. to = [k \in SettingKeys |-> IF k \in DOMAIN new THEN given[k] ELSE setting[k]]
    OBVIOUS
  <2> HIDE DEF given, to
  <2>2. QED
    BY <1>0, <1>2, <2>1, SomeSettings
<1>4. /\ writing' \in SettingsSave /\ writing'.left = DOMAIN new /\ writing'.to = to
      /\ \A k \in SettingKeys : k \notin DOMAIN new => to[k] = setting[k]
  BY <1>1, <1>2, <1>3 DEF SettingsSave
<1> HIDE DEF to
<1>5. ASSUME NEW a \in Asker
      PROVE  /\ question'[a] \in QuestionState /\ QuestionFits(question'[a])
             /\ question'[a].at = "read" => question'[a].raced
             /\ question'[a].at # "read" => question'[a] = question[a]
  <2>1. CASE question[a].at = "read"
    <3>1. question'[a] = QRaced(question[a])
      BY <1>1, <2>1
    <3>2. /\ question'[a] \in QuestionState /\ question'[a].raced /\ question'[a].at = "read"
          /\ question'[a].tried = question[a].tried /\ question'[a].down = question[a].down
      BY <1>0, <2>1, <3>1, FlagFields
    <3>3. question'[a].down \subseteq question'[a].tried
      BY <1>0, <3>2 DEF QuestionFits
    <3>4. QED
      BY <3>2, <3>3, QuietFits
  <2>2. CASE question[a].at # "read"
    <3>1. question'[a] = question[a]
      BY <1>1, <2>2
    <3>2. QED
      BY <1>0, <2>2, <3>1
  <2>3. QED
    BY <2>1, <2>2
<1>6. question' \in [Asker -> QuestionState]
  BY <1>1, <1>5
<1>7. SettingsTyped'
  <2>1. saves' \in 0..MaxSaves
    BY <1>0, <1>1
  <2>2. QED
    BY <1>1, <1>4, <1>6, <2>1, QuestionFacts DEF SettingsTyped
<1>8. ~cut' => SavesFit(writing.left, writing.to)'
  BY <1>1, <1>4 DEF QuestionsFit, SavesFit
<1>9. ~cut' => \A a \in Asker : ~question'[a].raced => (ReadsWell(question[a], whole, writing.left # {}) /\ AsksWell(question[a]))'
  <2> SUFFICES ASSUME ~cut, NEW a \in Asker, ~question'[a].raced
               PROVE  (ReadsWell(question[a], whole, writing.left # {}) /\ AsksWell(question[a]))'
    BY <1>1
  <2>1. question'[a].at # "read" /\ question'[a] = question[a]
    BY <1>5
  <2>2. AsksWell(question[a])
    BY <2>1 DEF QuestionsFit
  <2>3. QED
    BY <2>1, <2>2 DEF ReadsWell, AsksWell
<1>10. QED
  BY <1>5, <1>7, <1>8, <1>9 DEF QuestionsFit

LEMMA OneSettingFits ==
    ASSUME QuestionsFit, NEW k \in SettingKeys, Q!SetSetting(k)
    PROVE  QuestionsFit'
<1> DEFINE last == writing.left = {k}
<1>0. /\ setting \in Settings /\ whole \in Settings /\ writing \in SettingsSave /\ writing.left \in SUBSET SettingKeys
      /\ writing.to \in Settings /\ SettingsTyped
  BY QuestionFacts DEF QuestionsFit
<1>1. /\ k \in writing.left /\ setting' = [setting EXCEPT ![k] = writing.to[k]]
      /\ writing' = IF last THEN Q!NoSave ELSE [writing EXCEPT !.left = @ \ {k}]
      /\ whole' = IF last /\ ~cut THEN writing.to ELSE whole
      /\ UNCHANGED <<question, notice, cut, saves>>
  BY DEF Q!SetSetting, Q!Written
<1>2. setting' \in Settings /\ setting'[k] = writing.to[k] /\ \A j \in SettingKeys : j # k => setting'[j] = setting[j]
  <2> DEFINE to == writing.to
  <2>1. setting \in Settings /\ to \in Settings
    BY <1>0
  <2> HIDE DEF to
  <2>2. /\ [setting EXCEPT ![k] = to[k]] \in Settings /\ [setting EXCEPT ![k] = to[k]][k] = to[k]
        /\ \A j \in SettingKeys : j # k => [setting EXCEPT ![k] = to[k]][j] = setting[j]
    BY <2>1, OneSetting
  <2>3. QED
    BY <1>1, <2>2 DEF to
<1>3. /\ writing' \in SettingsSave
      /\ last => writing'.left = {}
      /\ ~last => writing'.left = writing.left \ {k} /\ writing'.to = writing.to
  <2>1. CASE last
    <3>1. {} \in SUBSET SettingKeys
      OBVIOUS
    <3>2. QED
      BY <1>1, <2>1, <3>1, Keys DEF Q!NoSave, SettingsSave
  <2>2. CASE ~last
    BY <1>0, <1>1, <2>2 DEF SettingsSave
  <2>3. QED
    BY <2>1, <2>2
<1>4. whole' \in Settings
  BY <1>0, <1>1
<1>5. SettingsTyped'
  BY <1>0, <1>1, <1>2, <1>3, <1>4 DEF SettingsTyped
<1>6. ~cut => SavesFit(writing.left, writing.to)'
  <2> SUFFICES ASSUME ~cut PROVE SavesFit(writing.left, writing.to)'
    OBVIOUS
  <2>1. \A j \in SettingKeys : j \notin writing.left => setting[j] = writing.to[j]
    BY <1>1 DEF QuestionsFit, SavesFit
  <2>2. \A j \in SettingKeys : j \notin writing.left \ {k} => setting'[j] = writing.to[j]
    BY <1>2, <2>1
  <2>3. CASE last
    BY <1>1, <1>3, <2>2, <2>3 DEF SavesFit
  <2>4. CASE ~last
    <3>1. writing'.left # {}
      BY <1>1, <1>3, <2>4
    <3>2. QED
      BY <1>3, <2>2, <2>4, <3>1 DEF SavesFit
  <2>5. QED
    BY <2>3, <2>4
<1>7. ~cut => \A a \in Asker : ~question[a].raced => question[a].at # "read" /\ AsksWell(question[a])
  BY <1>1 DEF QuestionsFit, ReadsWell
<1>8. ~cut' => \A a \in Asker : ~question'[a].raced => (ReadsWell(question[a], whole, writing.left # {}) /\ AsksWell(question[a]))'
  BY <1>1, <1>7 DEF ReadsWell, AsksWell
<1>9. \A a \in Asker : QuestionFits(question'[a])
  BY <1>1 DEF QuestionsFit
<1>10. QED
  BY <1>1, <1>5, <1>6, <1>8, <1>9 DEF QuestionsFit

LEMMA CutFits ==
    ASSUME QuestionsFit, Q!CutOff
    PROVE  QuestionsFit'
<1>1. writing' = Q!NoSave /\ cut' /\ cut' \in BOOLEAN /\ UNCHANGED <<setting, question, notice, whole, saves>>
  BY DEF Q!CutOff
<1>2. writing' \in SettingsSave
  <2>1. {} \in SUBSET SettingKeys
    OBVIOUS
  <2>2. QED
    BY <1>1, <2>1, Keys DEF Q!NoSave, SettingsSave
<1>3. SettingsTyped'
  BY <1>1, <1>2 DEF QuestionsFit, SettingsTyped
<1>4. \A a \in Asker : QuestionFits(question'[a])
  BY <1>1 DEF QuestionsFit
<1>5. QED
  BY <1>1, <1>3, <1>4 DEF QuestionsFit

LEMMA QuestionsStep ==
    ASSUME QuestionsFit, Q!Next \/ UNCHANGED Q!vars
    PROVE  QuestionsFit'
<1>1. CASE Q!Next
  <2>1. CASE \E new \in MaySave : Q!PutSettings(new)
    BY <2>1, PutFits
  <2>2. CASE \E k \in Q!Key : Q!SetSetting(k)
    BY <2>2, Keys, OneSettingFits
  <2>3. CASE Q!CutOff
    BY <2>3, CutFits
  <2>4. CASE \E a \in Asker, r \in BOOLEAN : Q!AIConfigs(a, r)
    BY <2>4, AskBegins
  <2>5. CASE \E a \in Asker : Q!Setting(a) \/ Q!NextAI(a) \/ Q!Done(a) \/ Q!Stop(a)
    BY <2>5, SettingFits, NextAIFits, DoneFits, StopFits
  <2>6. CASE \E a \in Asker, r \in {"ok", "bad", "busy", "down"} : Q!Complete(a, r)
    BY <2>6, CompleteFits
  <2>7. QED
    BY <1>1, <2>1, <2>2, <2>3, <2>4, <2>5, <2>6 DEF Q!Next
<1>2. CASE UNCHANGED Q!vars
  <2>1. UNCHANGED <<setting, writing, question, notice, whole, cut, saves>>
    BY <1>2 DEF Q!vars
  <2>2. SettingsTyped' /\ \A a \in Asker : QuestionFits(question'[a])
    BY <2>1 DEF QuestionsFit, SettingsTyped
  <2>3. ~cut' => SavesFit(writing.left, writing.to)'
    BY <2>1 DEF QuestionsFit, SavesFit
  <2>4. ~cut' => \A a \in Asker : ~question'[a].raced => (ReadsWell(question[a], whole, writing.left # {}) /\ AsksWell(question[a]))'
    BY <2>1 DEF QuestionsFit, ReadsWell, AsksWell
  <2>5. QED
    BY <2>2, <2>3, <2>4 DEF QuestionsFit
<1>3. QED
  BY <1>1, <1>2

LEMMA QuestionsInit ==
    ASSUME Q!Init
    PROVE  QuestionsFit
<1>1. /\ setting = StartsWith /\ writing = Q!NoSave /\ question = [a \in Asker |-> QIdle] /\ notice = FALSE
      /\ whole = StartsWith /\ cut = FALSE /\ saves = 0
  BY DEF Q!Init, QIdle
<1>2. writing \in SettingsSave /\ writing.left = {}
  <2>1. {} \in SUBSET SettingKeys
    OBVIOUS
  <2>2. QED
    BY <1>1, <2>1, Keys DEF Q!NoSave, SettingsSave
<1>3. question \in [Asker -> QuestionState] /\ \A a \in Asker : question[a] = QIdle
  BY <1>1, IdleQuestion
<1>4. 0 \in 0..MaxSaves
  BY SettingsAssumption
<1>5. SettingsTyped
  BY <1>1, <1>2, <1>3, <1>4, Keys DEF SettingsTyped
<1>6. QuestionFits(QIdle) /\ AsksWell(QIdle) /\ ReadsWell(QIdle, whole, writing.left # {})
  BY IdleQuestion, QuietFits DEF ReadsWell
<1>7. SavesFit(writing.left, writing.to)
  BY <1>1, <1>2 DEF SavesFit
<1>8. QED
  BY <1>3, <1>5, <1>6, <1>7 DEF QuestionsFit

LEMMA QuestionsHold ==
    ASSUME QuestionsFit
    PROVE  Q!TypeOK /\ Q!FailedMeansAllTried /\ Q!AsksWhatWasSaved
<1>1. Q!TypeOK
  <2>1. DOMAIN setting = Q!Key /\ writing.left \subseteq Q!Key /\ DOMAIN writing.to = Q!Key
    BY QuestionFacts, SettingFields, Keys
  <2>2. notice \in BOOLEAN /\ cut \in BOOLEAN /\ saves \in 0..MaxSaves
    BY QuestionFacts
  <2>3. ASSUME NEW a \in Asker
        PROVE  /\ question[a].at \in {"idle", "read", "ask", "answered", "failed", "stopped"}
               /\ question[a].step \in 0..Len(Q!Order) /\ question[a].ai \in 0..3 /\ question[a].tries \in 0..3
               /\ question[a].rates \in BOOLEAN /\ question[a].raced \in BOOLEAN /\ question[a].stop \in BOOLEAN
               /\ question[a].down \subseteq question[a].tried
    <3>1. question[a] \in QuestionState /\ question[a].down \subseteq question[a].tried
      BY QuestionFacts DEF QuestionFits
    <3>2. question[a].step \in 0..5
      BY <3>1 DEF QuestionState
    <3>3. question[a].step \in 0..Len(Q!Order)
      BY <3>2, OrderOfKeys
    <3>4. QED
      BY <3>1, <3>3 DEF QuestionState
  <2>4. QED
    BY <2>1, <2>2, <2>3 DEF Q!TypeOK
<1>2. Q!FailedMeansAllTried
  BY DEF QuestionsFit, QuestionFits, WasAsked, Q!FailedMeansAllTried
<1>3. Q!AsksWhatWasSaved
  <2> SUFFICES ASSUME NEW a \in Asker, question[a].at = "ask", ~question[a].raced, ~cut
               PROVE  /\ question[a].config.base = question[a].said.base
                      /\ \A ai \in 1..2 : Q!Models(question[a].config, ai) = Q!Models(question[a].said, ai)
    BY DEF Q!AsksWhatWasSaved
  <2> DEFINE c == question[a].config
             d == question[a].said
  <2>1. Agree(c, d, 4) /\ (c["on"] => Agree(c, d, 6))
    BY DEF QuestionsFit, AsksWell
  <2>2. c \in Settings /\ d \in Settings
    BY QuestionFacts DEF QuestionState
  <2> HIDE DEF c, d
  <2>3. c.base = d.base /\ c.model = d.model /\ c.fallback = d.fallback /\ c.on = d.on
    BY <2>1 DEF Agree
  <2>4. c.on => c.backupBase = d.backupBase /\ c.backupModels = d.backupModels
    BY <2>1 DEF Agree
  <2>5. Q!MainModels(c) = Q!MainModels(d)
    BY <2>3 DEF Q!MainModels
  <2>6. \A ai \in 1..2 : Q!Models(c, ai) = Q!Models(d, ai)
    BY <2>3, <2>4, <2>5 DEF Q!Models
  <2>7. QED
    BY <2>3, <2>6 DEF c, d
<1>4. QED
  BY <1>1, <1>2, <1>3

\* Questions: whatever is saved between the single settings an asker reads, a question fails
\* only when every model was asked or stands behind a server that is down, and who read while
\* nobody saved asks what the saves said (store/ai.go, analyzer/ai.go, llm/chain.go).
THEOREM AskersAskTheirModels == Spec => []AsksAllThatWasSaved
<1> DEFINE Fit == running = "ask" => QuestionsFit
<1>1. Init => Fit
  BY QuestionsInit DEF Init
<1>2. Fit /\ [Next]_vars => Fit'
  <2> SUFFICES ASSUME Fit, [Next]_vars, running' = "ask"
               PROVE  QuestionsFit'
    OBVIOUS
  <2>1. running = "ask" /\ (Q!Next \/ UNCHANGED Q!vars)
    BY DEF Next, vars, askVars, Q!vars
  <2>2. QED
    BY <2>1, QuestionsStep
<1>3. Fit => AsksAllThatWasSaved
  BY QuestionsHold DEF AsksAllThatWasSaved
<1>4. QED
  BY <1>1, <1>2, <1>3, PTL DEF Spec

-----------------------------------------------------------------------------
(* Local models.                                                           *)

Versions   == 1..LastVersion
VersionMap == UNION {[ms -> Versions] : ms \in SUBSET LocalModel}
LocalMap   == UNION {[ms -> 0..LastVersion] : ms \in SUBSET LocalModel}
CheckStep  == {"idle", "local", "ask", "seen", "announce"}
CheckState ==
    [at : CheckStep, local : LocalMap, todo : SUBSET LocalModel, found : VersionMap, seen : VersionMap,
     left : SUBSET LocalModel, late : SUBSET LocalModel]
PullStep   == {"none", "pulling", "written", "refused"}
PullState  ==
    [active : BOOLEAN, model : LocalModel \cup {""}, step : PullStep, done : BOOLEAN, failed : BOOLEAN,
     least : 0..LastVersion]

HistoryTyped == unsaved \subseteq LocalModel \X Versions /\ told \in [LocalModel \X Versions -> 0..2]

UpdatesTyped ==
    /\ library \in [LocalModel -> Versions]
    /\ installed \in [LocalModel -> 0..LastVersion]
    /\ pull \in PullState
    /\ check \in [Checker -> CheckState]
    /\ updates \in VersionMap
    /\ seen \in VersionMap
    /\ waiting \subseteq LocalModel
    /\ late \subseteq LocalModel
    /\ mixed \in BOOLEAN
    /\ HistoryTyped

\* A download knows the least version it is to leave; its model waits on the page while it comes.
PullFits(p, lib, inst, pg) ==
    /\ p.active <=> p.step # "none"
    /\ p.done => ~p.failed
    /\ p.step # "none" => ~p.done /\ ~p.failed
    /\ p.step \in {"pulling", "written"} \/ p.done => p.model \in LocalModel
    /\ p.step = "pulling" => p.least <= lib[p.model] /\ p.model \in pg
    /\ p.step = "written" \/ p.done => p.least <= inst[p.model] /\ p.least <= lib[p.model]

\* What a check found the library had, and it is not what is installed, unless it came since; what
\* it has not asked about is as the check has it, or gone.
CheckFits(q, lib, inst) ==
    /\ q.at = "local" => DOMAIN q.found = {}
    /\ \A m \in DOMAIN q.found : q.found[m] <= lib[m]
    /\ q.at \in {"seen", "announce"} => q.left \subseteq DOMAIN q.found
    /\ q.at = "ask" => /\ q.todo \subseteq DOMAIN q.local
                       /\ \A m \in q.todo : m \notin q.late => inst[m] \in {q.local[m], 0}
                       /\ \A m \in DOMAIN q.found : m \notin q.late => q.found[m] # inst[m]

OffersFit == \A m \in DOMAIN updates : updates[m] = installed[m] => m \in late \cup waiting

-----------------------------------------------------------------------------
(* That each version is announced once.                                    *)

Announces(q) == q.at \in {"seen", "announce"}
Compares(q)  == q.at = "ask" \/ Announces(q)

\* What is remembered was told, and nothing newer was that could be saved.
Remembers(s, tl, us) ==
    /\ \A m \in LocalModel, v \in Versions : tl[<<m, v>>] # 0 => <<m, v>> \in us \/ (m \in DOMAIN s /\ v <= s[m])
    /\ \A m \in DOMAIN s : tl[<<m, s[m]>>] # 0

\* No version newer than one a check may still announce was told.
NotTold(q, tl) ==
    /\ q.at = "ask" =>
         \A m \in DOMAIN q.found : \A v \in Versions : tl[<<m, v>>] # 0 => v <= q.found[m]
    /\ q.at \in {"seen", "announce"} => \A m \in q.left : \A v \in Versions : tl[<<m, v>>] # 0 => v <= q.found[m]

\* What a check has still to announce is remembered as it was saved.
AsSaved(q, s) == \A m \in q.left \cap DOMAIN q.seen : m \in DOMAIN s /\ q.seen[m] = s[m]

\* A check that began to ask after another had asked finds nothing older.
Later(f, g) == \A m \in DOMAIN f \cap DOMAIN g : f[m] <= g[m]

OneAnnounces  == \A c, d \in Checker : Announces(check[c]) /\ Announces(check[d]) => c = d
AskersAreLate == \A c, d \in Checker : Announces(check[d]) /\ check[c].at = "ask" => Later(check[d].found, check[c].found)
NoneIsTold    == \A c \in Checker : NotTold(check[c], told)
TellerKnows   == \A c \in Checker : check[c].at = "announce" => Remembers(check[c].seen, told, unsaved) /\ AsSaved(check[c], seen)
Tells(m, v)   == \E c \in Checker : check[c].at = "announce" /\ m \in DOMAIN check[c].seen /\ check[c].seen[m] = v
SavedFits     ==
    /\ \A m \in LocalModel, v \in Versions :
         told[<<m, v>>] # 0 => <<m, v>> \in unsaved \/ (m \in DOMAIN seen /\ v <= seen[m]) \/ Tells(m, v)
    /\ \A m \in DOMAIN seen : told[<<m, seen[m]>>] # 0
ToldIsThere   == \A m \in LocalModel, v \in Versions : told[<<m, v>>] # 0 => v <= library[m]
ToldOnce      == \A m \in LocalModel, v \in Versions : told[<<m, v>>] <= 1 \/ <<m, v>> \in unsaved

OnceFits ==
    /\ OneAnnounces
    /\ AskersAreLate
    /\ NoneIsTold
    /\ TellerKnows
    /\ SavedFits
    /\ ToldIsThere
    /\ ToldOnce

ChecksFit  == \A c \in Checker : CheckFits(check[c], library, installed)
UpdatesFit ==
    /\ UpdatesTyped
    /\ PullFits(pull, library, installed, waiting)
    /\ ChecksFit
    /\ OffersFit
    /\ ~mixed => OnceFits

-----------------------------------------------------------------------------

\* What a check and a download become.
CBegins           == [U!NoCheck EXCEPT !.at = "local"]
CLocal(q, l, ms)  == [q EXCEPT !.at = "ask", !.local = l, !.todo = ms]
CAsked(q, m, l, f) == [q EXCEPT !.todo = q.todo \ {m}, !.local = l, !.found = f]
CKept(q)          == [q EXCEPT !.at = "seen", !.left = DOMAIN q.found, !.local = U!Nothing, !.late = {}]
CReads(q, s)      == [q EXCEPT !.at = "announce", !.seen = s]
CMissed(q, m)     == [q EXCEPT !.late = q.late \cup {m}]
CSkips(q, ms)     == [q EXCEPT !.left = q.left \ ms]
CKnows(q, m)      == [q EXCEPT !.left = q.left \ {m}]
CTells(q, m, s)   == [q EXCEPT !.left = q.left \ {m}, !.seen = s]
PStarts(m, v)     == [U!NoPull EXCEPT !.active = TRUE, !.model = m, !.step = "pulling", !.least = v]
PGoes(p, s)       == [p EXCEPT !.step = s]
PRefused(p)       == [p EXCEPT !.step = "refused", !.least = 0]
PDone(p)          == [p EXCEPT !.active = FALSE, !.step = "none", !.done = TRUE]
PFailed(p)        == [p EXCEPT !.active = FALSE, !.step = "none", !.failed = TRUE]
PForgets(p)       == [p EXCEPT !.least = 0]

LEMMA Maps ==
    /\ U!Nothing \in VersionMap /\ U!Nothing \in LocalMap /\ DOMAIN U!Nothing = {}
    /\ \A f \in VersionMap : DOMAIN f \in SUBSET LocalModel /\ \A m \in DOMAIN f : f[m] \in Versions
    /\ [LocalModel -> 0..LastVersion] \subseteq LocalMap
<1>1. U!Nothing = [m \in {} |-> 0]
  BY DEF U!Nothing
<1>2. U!Nothing \in [{} -> Versions] /\ U!Nothing \in [{} -> 0..LastVersion] /\ DOMAIN U!Nothing = {}
  BY <1>1
<1>3. {} \in SUBSET LocalModel /\ LocalModel \in SUBSET LocalModel
  OBVIOUS
<1>4. U!Nothing \in VersionMap
  BY <1>2, <1>3 DEF VersionMap
<1>5. U!Nothing \in LocalMap
  BY <1>2, <1>3 DEF LocalMap
<1>6. \A f \in VersionMap : DOMAIN f \in SUBSET LocalModel /\ \A m \in DOMAIN f : f[m] \in Versions
  BY DEF VersionMap
<1>7. [LocalModel -> 0..LastVersion] \subseteq LocalMap
  BY <1>3 DEF LocalMap
<1>8. QED
  BY <1>2, <1>4, <1>5, <1>6, <1>7

LEMMA PutIsMap ==
    ASSUME NEW f \in VersionMap, NEW m \in LocalModel, NEW v \in Versions
    PROVE  /\ U!Put(f, m, v) \in VersionMap /\ DOMAIN U!Put(f, m, v) = DOMAIN f \cup {m}
           /\ U!Put(f, m, v)[m] = v
           /\ \A n \in DOMAIN f : n # m => U!Put(f, m, v)[n] = f[n]
<1> DEFINE g == [n \in DOMAIN f \cup {m} |-> IF n = m THEN v ELSE f[n]]
<1>1. U!Put(f, m, v) = g
  BY DEF U!Put
<1>2. DOMAIN f \cup {m} \in SUBSET LocalModel /\ \A n \in DOMAIN f : f[n] \in Versions
  BY Maps
<1>3. g \in [DOMAIN f \cup {m} -> Versions]
  BY <1>2
<1>4. g \in VersionMap
  BY <1>2, <1>3 DEF VersionMap
<1>5. QED
  BY <1>1, <1>4

LEMMA Less ==
    ASSUME NEW f \in VersionMap, NEW ms \in SUBSET DOMAIN f
    PROVE  /\ U!Restrict(f, ms) \in VersionMap /\ DOMAIN U!Restrict(f, ms) = ms
           /\ \A n \in ms : U!Restrict(f, ms)[n] = f[n]
<1>1. U!Restrict(f, ms) = [n \in ms |-> f[n]]
  BY DEF U!Restrict
<1>2. ms \in SUBSET LocalModel /\ \A n \in ms : f[n] \in Versions
  BY Maps
<1>3. [n \in ms |-> f[n]] \in [ms -> Versions]
  BY <1>2
<1>4. [n \in ms |-> f[n]] \in VersionMap
  BY <1>2, <1>3 DEF VersionMap
<1>5. QED
  BY <1>1, <1>4

LEMMA LessLocal ==
    ASSUME NEW f \in LocalMap, NEW ms \in SUBSET DOMAIN f
    PROVE  /\ U!Restrict(f, ms) \in LocalMap /\ DOMAIN U!Restrict(f, ms) = ms
           /\ \A n \in ms : U!Restrict(f, ms)[n] = f[n]
<1>1. U!Restrict(f, ms) = [n \in ms |-> f[n]]
  BY DEF U!Restrict
<1>2. ms \in SUBSET LocalModel /\ \A n \in ms : f[n] \in 0..LastVersion
  BY DEF LocalMap
<1>3. [n \in ms |-> f[n]] \in [ms -> 0..LastVersion]
  BY <1>2
<1>4. [n \in ms |-> f[n]] \in LocalMap
  BY <1>2, <1>3 DEF LocalMap
<1>5. QED
  BY <1>1, <1>4

LEMMA IdleCheck ==
    /\ U!NoCheck \in CheckState /\ U!NoCheck.at = "idle" /\ DOMAIN U!NoCheck.found = {}
<1>1. {} \in SUBSET LocalModel /\ "idle" \in CheckStep
  BY DEF CheckStep
<1>2. U!NoCheck = [at |-> "idle", local |-> U!Nothing, todo |-> {}, found |-> U!Nothing, seen |-> U!Nothing, left |-> {},
                   late |-> {}]
  BY DEF U!NoCheck
<1> DEFINE none == U!Nothing
<1>3. none \in VersionMap /\ none \in LocalMap /\ DOMAIN none = {}
  BY Maps
<1> HIDE DEF none
<1>4. QED
  BY <1>1, <1>2, <1>3 DEF CheckState, none

LEMMA IdlePull ==
    /\ U!NoPull \in PullState /\ U!NoPull.step = "none" /\ ~U!NoPull.done /\ ~U!NoPull.active /\ ~U!NoPull.failed
<1>1. 0 \in 0..LastVersion
  BY UpdatesAssumption
<1>2. FALSE \in BOOLEAN /\ "" \in LocalModel \cup {""} /\ "none" \in PullStep
  BY DEF PullStep
<1>3. QED
  BY <1>1, <1>2 DEF U!NoPull, PullState

LEMMA CBeginsFields == CBegins \in CheckState /\ CBegins.at = "local" /\ DOMAIN CBegins.found = {}
<1>1. CBegins.found = U!NoCheck.found
  BY DEF CBegins, U!NoCheck
<1>2. CBegins \in CheckState /\ CBegins.at = "local"
  BY IdleCheck DEF CheckState, CheckStep, CBegins
<1>3. QED
  BY <1>1, <1>2, IdleCheck

LEMMA CLocalFields ==
    ASSUME NEW q \in CheckState, NEW l \in LocalMap, NEW ms \in SUBSET LocalModel
    PROVE  /\ CLocal(q, l, ms) \in CheckState /\ CLocal(q, l, ms).at = "ask" /\ CLocal(q, l, ms).local = l
           /\ CLocal(q, l, ms).found = q.found /\ CLocal(q, l, ms).todo = ms
  BY DEF CheckState, CheckStep, CLocal

LEMMA CKeptFields ==
    ASSUME NEW q \in CheckState
    PROVE  /\ CKept(q) \in CheckState /\ CKept(q).at = "seen" /\ CKept(q).found = q.found
           /\ CKept(q).left = DOMAIN q.found
<1> DEFINE none == U!Nothing
<1>1. q.found \in VersionMap
  BY DEF CheckState
<1>2. DOMAIN q.found \in SUBSET LocalModel /\ {} \in SUBSET LocalModel /\ none \in LocalMap
  BY <1>1, Maps
<1> HIDE DEF none
<1>3. QED
  BY <1>2 DEF CheckState, CheckStep, CKept, none

LEMMA CReadsFields ==
    ASSUME NEW q \in CheckState, NEW s \in VersionMap
    PROVE  /\ CReads(q, s) \in CheckState /\ CReads(q, s).at = "announce" /\ CReads(q, s).seen = s
           /\ CReads(q, s).left = q.left /\ CReads(q, s).found = q.found
  BY DEF CheckState, CheckStep, CReads

LEMMA CMissedFields ==
    ASSUME NEW q \in CheckState, NEW m \in LocalModel
    PROVE  /\ CMissed(q, m) \in CheckState /\ CMissed(q, m).at = q.at /\ CMissed(q, m).local = q.local
           /\ CMissed(q, m).found = q.found /\ CMissed(q, m).seen = q.seen /\ CMissed(q, m).left = q.left
           /\ CMissed(q, m).late = q.late \cup {m} /\ CMissed(q, m).todo = q.todo
<1>1. q.late \cup {m} \in SUBSET LocalModel
  BY DEF CheckState
<1>2. QED
  BY <1>1 DEF CheckState, CMissed

LEMMA CSkipsFields ==
    ASSUME NEW q \in CheckState, NEW ms
    PROVE  /\ CSkips(q, ms) \in CheckState /\ CSkips(q, ms).at = q.at /\ CSkips(q, ms).local = q.local
           /\ CSkips(q, ms).found = q.found /\ CSkips(q, ms).seen = q.seen /\ CSkips(q, ms).left = q.left \ ms
           /\ CSkips(q, ms).late = q.late /\ CSkips(q, ms).todo = q.todo
<1>1. q.left \ ms \in SUBSET LocalModel
  BY DEF CheckState
<1>2. QED
  BY <1>1 DEF CheckState, CSkips

LEMMA CKnowsFields ==
    ASSUME NEW q \in CheckState, NEW m
    PROVE  /\ CKnows(q, m) \in CheckState /\ CKnows(q, m).at = q.at /\ CKnows(q, m).seen = q.seen
           /\ CKnows(q, m).left = q.left \ {m} /\ CKnows(q, m).found = q.found
<1>1. q.left \ {m} \in SUBSET LocalModel
  BY DEF CheckState
<1>2. QED
  BY <1>1 DEF CheckState, CKnows

LEMMA CTellsFields ==
    ASSUME NEW q \in CheckState, NEW m, NEW s \in VersionMap
    PROVE  /\ CTells(q, m, s) \in CheckState /\ CTells(q, m, s).at = q.at /\ CTells(q, m, s).seen = s
           /\ CTells(q, m, s).left = q.left \ {m} /\ CTells(q, m, s).found = q.found
<1>1. q.left \ {m} \in SUBSET LocalModel
  BY DEF CheckState
<1>2. QED
  BY <1>1 DEF CheckState, CTells

LEMMA PStartsFields ==
    ASSUME NEW m \in LocalModel, NEW v \in 0..LastVersion
    PROVE  /\ PStarts(m, v) \in PullState /\ PStarts(m, v).step = "pulling" /\ PStarts(m, v).model = m
           /\ PStarts(m, v).least = v /\ PStarts(m, v).active /\ ~PStarts(m, v).done /\ ~PStarts(m, v).failed
<1>1. TRUE \in BOOLEAN /\ m \in LocalModel \cup {""} /\ "pulling" \in PullStep
  BY DEF PullStep
<1>2. PStarts(m, v) \in PullState
  BY <1>1, IdlePull DEF PullState, PStarts
<1>3. /\ PStarts(m, v).step = "pulling" /\ PStarts(m, v).model = m /\ PStarts(m, v).least = v
      /\ PStarts(m, v).active /\ ~PStarts(m, v).done /\ ~PStarts(m, v).failed
  BY DEF U!NoPull, PStarts
<1>4. QED
  BY <1>2, <1>3

LEMMA PullFields ==
    ASSUME NEW p \in PullState
    PROVE  /\ \A s \in PullStep : /\ PGoes(p, s) \in PullState /\ PGoes(p, s).step = s /\ PGoes(p, s).active = p.active
                                  /\ PGoes(p, s).done = p.done /\ PGoes(p, s).failed = p.failed
                                  /\ PGoes(p, s).model = p.model /\ PGoes(p, s).least = p.least
           /\ PRefused(p) \in PullState /\ PRefused(p).step = "refused" /\ PRefused(p).active = p.active
           /\ PRefused(p).done = p.done /\ PRefused(p).failed = p.failed
           /\ PDone(p) \in PullState /\ PDone(p).step = "none" /\ ~PDone(p).active /\ PDone(p).failed = p.failed
           /\ PDone(p).model = p.model /\ PDone(p).least = p.least
           /\ PFailed(p) \in PullState /\ PFailed(p).step = "none" /\ ~PFailed(p).active /\ PFailed(p).done = p.done
           /\ PForgets(p) \in PullState /\ PForgets(p).step = p.step /\ PForgets(p).active = p.active
           /\ PForgets(p).done = p.done /\ PForgets(p).failed = p.failed /\ PForgets(p).model = p.model
           /\ PForgets(p).least = 0
<1>1. \A s \in PullStep : /\ PGoes(p, s) \in PullState /\ PGoes(p, s).step = s /\ PGoes(p, s).active = p.active
                          /\ PGoes(p, s).done = p.done /\ PGoes(p, s).failed = p.failed
                          /\ PGoes(p, s).model = p.model /\ PGoes(p, s).least = p.least
  BY DEF PullState, PGoes
<1>0. 0 \in 0..LastVersion
  BY UpdatesAssumption
<1>2. TRUE \in BOOLEAN /\ FALSE \in BOOLEAN /\ "none" \in PullStep /\ "refused" \in PullStep
  BY DEF PullStep
<1>7. /\ PRefused(p) \in PullState /\ PRefused(p).step = "refused" /\ PRefused(p).active = p.active
      /\ PRefused(p).done = p.done /\ PRefused(p).failed = p.failed
  BY <1>0, <1>2 DEF PullState, PRefused
<1>3. /\ PDone(p) \in PullState /\ PDone(p).step = "none" /\ ~PDone(p).active /\ PDone(p).failed = p.failed
      /\ PDone(p).model = p.model /\ PDone(p).least = p.least
  BY <1>2 DEF PullState, PDone
<1>4. PFailed(p) \in PullState /\ PFailed(p).step = "none" /\ ~PFailed(p).active /\ PFailed(p).done = p.done
  BY <1>2 DEF PullState, PFailed
<1>5. /\ PForgets(p) \in PullState /\ PForgets(p).step = p.step /\ PForgets(p).active = p.active
      /\ PForgets(p).done = p.done /\ PForgets(p).failed = p.failed /\ PForgets(p).model = p.model
      /\ PForgets(p).least = 0
  BY <1>0 DEF PullState, PForgets
<1>6. QED
  BY <1>1, <1>3, <1>4, <1>5, <1>7

LEMMA UpdateFacts ==
    ASSUME UpdatesFit
    PROVE  /\ library \in [LocalModel -> Versions] /\ installed \in [LocalModel -> 0..LastVersion]
           /\ pull \in PullState /\ check \in [Checker -> CheckState] /\ updates \in VersionMap /\ seen \in VersionMap
           /\ waiting \subseteq LocalModel /\ late \subseteq LocalModel /\ mixed \in BOOLEAN
           /\ unsaved \subseteq LocalModel \X Versions
           /\ told \in [LocalModel \X Versions -> 0..2] /\ HistoryTyped
           /\ pull.active \in BOOLEAN /\ pull.step \in PullStep /\ pull.done \in BOOLEAN /\ pull.failed \in BOOLEAN
           /\ pull.model \in LocalModel \cup {""} /\ pull.least \in 0..LastVersion
           /\ \A c \in Checker : /\ check[c] \in CheckState /\ check[c].at \in CheckStep /\ check[c].found \in VersionMap
                                 /\ check[c].seen \in VersionMap /\ check[c].left \in SUBSET LocalModel
                                 /\ check[c].todo \in SUBSET LocalModel
                                 /\ DOMAIN check[c].found \subseteq LocalModel
                                 /\ CheckFits(check[c], library, installed)
  BY Maps DEF UpdatesFit, UpdatesTyped, HistoryTyped, ChecksFit, PullState, CheckState

-----------------------------------------------------------------------------

\* One check takes a step in which nothing is told.
LEMMA OneChecks ==
    ASSUME UpdatesFit, NEW c \in Checker, NEW q \in CheckState, check' = [check EXCEPT ![c] = q],
           UNCHANGED <<library, installed, pull, seen, waiting>>,
           HistoryTyped', ~mixed' => UNCHANGED <<told, unsaved>>,
           updates' \in VersionMap, mixed' \in BOOLEAN, late' \subseteq LocalModel, mixed => mixed', OffersFit',
           CheckFits(q, library, installed),
           check[c].at = "announce" => q.at = "announce" /\ q.seen = check[c].seen,
           ~mixed' => NotTold(q, told),
           ~mixed' /\ Announces(q) =>
              \/ Announces(check[c]) /\ q.found = check[c].found
              \/ \A d \in Checker \ {c} : ~Compares(check[d]),
           ~mixed' /\ q.at = "ask" =>
              \A d \in Checker \ {c} : Announces(check[d]) => Later(check[d].found, q.found),
           ~mixed' /\ q.at = "announce" => Remembers(q.seen, told, unsaved) /\ AsSaved(q, seen)
    PROVE  UpdatesFit'
<1>1. check \in [Checker -> CheckState]
  BY UpdateFacts
<1>2. \A d \in Checker : check'[d] = IF d = c THEN q ELSE check[d]
  BY <1>1
<1>3. UpdatesTyped'
  BY <1>1 DEF UpdatesFit, UpdatesTyped
<1>4. PullFits(pull, library, installed, waiting)'
  BY DEF UpdatesFit, PullFits
<1>5. ChecksFit'
  BY <1>2 DEF UpdatesFit, ChecksFit, CheckFits
<1>6. ASSUME ~mixed'
      PROVE  OnceFits'
  <2>0. OnceFits /\ ~mixed /\ told' = told /\ unsaved' = unsaved
    BY <1>6 DEF UpdatesFit
  <2>1. OneAnnounces'
    <3>1. SUFFICES ASSUME NEW d \in Checker, NEW e \in Checker, Announces(check'[d]), Announces(check'[e])
                   PROVE  d = e
      BY DEF OneAnnounces
    <3>2. CASE d # c /\ e # c
      BY <3>1, <3>2, <1>2, <2>0 DEF OnceFits, OneAnnounces
    <3>3. CASE Announces(check[c])
      BY <3>1, <3>3, <1>2, <2>0 DEF OnceFits, OneAnnounces
    <3>4. CASE \A f \in Checker \ {c} : ~Compares(check[f])
      BY <3>1, <3>4, <1>2 DEF Compares
    <3>5. QED
      BY <3>1, <3>2, <3>3, <3>4, <1>2, <1>6
  <2>2. AskersAreLate'
    <3>1. SUFFICES ASSUME NEW d \in Checker, NEW e \in Checker, Announces(check'[d]), check'[e].at = "ask"
                   PROVE  Later(check'[d].found, check'[e].found)
      BY DEF AskersAreLate
    <3>2. CASE d # c /\ e # c
      BY <3>1, <3>2, <1>2, <2>0 DEF OnceFits, AskersAreLate
    <3>3. CASE e = c /\ d # c
      BY <3>1, <3>3, <1>2, <1>6
    <3>4. CASE d = c /\ e # c
      <4>1. Announces(q) /\ check[e].at = "ask" /\ Compares(check[e])
        BY <3>1, <3>4, <1>2 DEF Compares
      <4>2. Announces(check[c]) /\ q.found = check[c].found
        BY <4>1, <3>4, <1>6
      <4>3. QED
        BY <4>1, <4>2, <3>4, <1>2, <2>0 DEF OnceFits, AskersAreLate
    <3>5. CASE d = c /\ e = c
      BY <3>1, <3>5 DEF Announces
    <3>6. QED
      BY <3>2, <3>3, <3>4, <3>5
  <2>3. NoneIsTold'
    BY <1>2, <1>6, <2>0 DEF OnceFits, NoneIsTold, NotTold
  <2>4. TellerKnows'
    BY <1>2, <1>6, <2>0 DEF OnceFits, TellerKnows, Remembers, AsSaved
  <2>5. SavedFits'
    <3>1. ASSUME NEW m \in LocalModel, NEW v \in Versions, Tells(m, v)
          PROVE  Tells(m, v)'
      <4>1. PICK d \in Checker : check[d].at = "announce" /\ m \in DOMAIN check[d].seen /\ check[d].seen[m] = v
        BY <3>1 DEF Tells
      <4>2. check'[d].at = "announce" /\ check'[d].seen = check[d].seen
        BY <4>1, <1>2
      <4>3. QED
        BY <4>1, <4>2 DEF Tells
    <3>2. QED
      BY <3>1, <2>0 DEF OnceFits, SavedFits
  <2>6. ToldIsThere' /\ ToldOnce'
    BY <2>0 DEF OnceFits, ToldIsThere, ToldOnce
  <2>7. QED
    BY <2>1, <2>2, <2>3, <2>4, <2>5, <2>6 DEF OnceFits
<1>7. QED
  BY <1>3, <1>4, <1>5, <1>6 DEF UpdatesFit

LEMMA OffersStay ==
    ASSUME UpdatesFit, UNCHANGED <<updates, installed, late, waiting>>
    PROVE  OffersFit'
  BY DEF UpdatesFit, OffersFit

LEMMA BeginFits ==
    ASSUME UpdatesFit, NEW c \in Checker, U!CheckUpdates(c)
    PROVE  UpdatesFit'
<1>1. /\ check' = [check EXCEPT ![c] = CBegins] /\ check[c].at = "idle"
      /\ UNCHANGED <<library, installed, pull, updates, seen, waiting, told, mixed, unsaved, late>>
  BY DEF U!CheckUpdates, CBegins
<1>2. CBegins \in CheckState /\ CBegins.at = "local" /\ DOMAIN CBegins.found = {}
  BY CBeginsFields
<1> DEFINE q == CBegins
<1> HIDE DEF q
<1>3. check' = [check EXCEPT ![c] = q] /\ q \in CheckState /\ q.at = "local" /\ DOMAIN q.found = {}
  BY <1>1, <1>2 DEF q
<1>4. CheckFits(q, library, installed) /\ NotTold(q, told) /\ ~Announces(q)
  BY <1>3 DEF CheckFits, NotTold, Announces
<1>5. OffersFit'
  BY <1>1, OffersStay
<1>6. mixed' \in BOOLEAN /\ updates' \in VersionMap /\ late' \subseteq LocalModel /\ HistoryTyped'
  BY <1>1, UpdateFacts DEF HistoryTyped
<1>7. QED
  BY <1>1, <1>3, <1>4, <1>5, <1>6, OneChecks

LEMMA LocalFits ==
    ASSUME UpdatesFit, NEW c \in Checker, NEW ok \in BOOLEAN, U!LocalDigests(c, ok)
    PROVE  UpdatesFit'
<1> DEFINE ms == IF ok THEN {m \in LocalModel : installed[m] # 0} ELSE {}
           l == IF ok THEN installed ELSE U!Nothing
           q == CLocal(check[c], l, ms)
<1>0. check \in [Checker -> CheckState] /\ check[c] \in CheckState /\ installed \in [LocalModel -> 0..LastVersion]
      /\ CheckFits(check[c], library, installed)
  BY UpdateFacts
<1>1. /\ check' = [check EXCEPT ![c] = q] /\ check[c].at = "local"
      /\ UNCHANGED <<library, installed, pull, updates, seen, waiting, told, mixed, unsaved, late>>
  BY <1>0 DEF U!LocalDigests, CLocal
<1>2. ms \in SUBSET LocalModel /\ l \in LocalMap
  BY <1>0, Maps
<1>21. ms \subseteq DOMAIN l /\ \A m \in ms : l[m] = installed[m]
  BY <1>0
<1> HIDE DEF ms, l
<1>3. q \in CheckState /\ q.at = "ask" /\ q.local = l /\ q.todo = ms /\ q.found = check[c].found
  BY <1>0, <1>2, CLocalFields
<1>4. DOMAIN q.found = {}
  BY <1>0, <1>1, <1>3 DEF CheckFits
<1> HIDE DEF q
<1>5. CheckFits(q, library, installed) /\ NotTold(q, told) /\ ~Announces(q)
  BY <1>21, <1>3, <1>4 DEF CheckFits, NotTold, Announces
<1>6. \A d \in Checker : Later(check[d].found, q.found)
  BY <1>4 DEF Later
<1>7. OffersFit'
  BY <1>1, OffersStay
<1>8. mixed' \in BOOLEAN /\ updates' \in VersionMap /\ late' \subseteq LocalModel /\ HistoryTyped'
  BY <1>1, UpdateFacts DEF HistoryTyped
<1>9. QED
  BY <1>1, <1>3, <1>5, <1>6, <1>7, <1>8, OneChecks

LEMMA RemoteFits ==
    ASSUME UpdatesFit, NEW c \in Checker, NEW m \in LocalModel, NEW ok \in BOOLEAN, U!RemoteDigest(c, m, ok)
    PROVE  UpdatesFit'
<1> DEFINE old == check[c].found
           v == library[m]
           new == U!Put(old, m, v)
           finds == ok /\ library[m] # check[c].local[m]
           f == IF finds THEN new ELSE old
           l == U!Restrict(check[c].local, DOMAIN check[c].local \ {m})
           q == CAsked(check[c], m, l, f)
<1>0. /\ check \in [Checker -> CheckState] /\ check[c] \in CheckState /\ old \in VersionMap
      /\ library \in [LocalModel -> Versions] /\ v \in Versions /\ DOMAIN old \subseteq LocalModel
      /\ \A d \in Checker : CheckFits(check[d], library, installed) /\ check[d].found \in VersionMap
  BY UpdateFacts
<1>1. /\ check' = [check EXCEPT ![c] = q] /\ check[c].at = "ask" /\ m \in check[c].todo
      /\ UNCHANGED <<library, installed, pull, updates, seen, waiting, told, mixed, unsaved, late>>
  BY <1>0 DEF U!RemoteDigest, U!Differs, CAsked
<1>35. l \in LocalMap /\ DOMAIN l = DOMAIN check[c].local \ {m} /\ \A n \in DOMAIN l : l[n] = check[c].local[n]
  <2> DEFINE k == check[c].local
             ns == DOMAIN k \ {m}
  <2>1. k \in LocalMap
    BY <1>0 DEF CheckState
  <2>2. ns \in SUBSET DOMAIN k
    OBVIOUS
  <2> HIDE DEF k, ns
  <2>3. U!Restrict(k, ns) \in LocalMap /\ DOMAIN U!Restrict(k, ns) = ns
        /\ \A n \in ns : U!Restrict(k, ns)[n] = k[n]
    BY <2>1, <2>2, LessLocal
  <2>4. QED
    BY <2>3 DEF k, ns
<1> HIDE DEF l
<1>2. (f = new /\ library[m] # check[c].local[m]) \/ f = old
  OBVIOUS
<1>3. old = check[c].found /\ v = library[m]
  OBVIOUS
<1> HIDE DEF old, v, finds
<1>21. /\ new \in VersionMap /\ DOMAIN new = DOMAIN old \cup {m}
       /\ new[m] = v /\ \A n \in DOMAIN old : n # m => new[n] = old[n]
  BY <1>0, PutIsMap
<1> HIDE DEF new, f
<1>31. f \in VersionMap
  BY <1>0, <1>2, <1>21
\* What is found is what was found before, or what the library has now.
<1>4. \A n \in DOMAIN f : (n \in DOMAIN old /\ f[n] = old[n])
                         \/ (n = m /\ f[n] = library[n] /\ f[n] # check[c].local[n])
  <2>1. CASE f = old
    BY <2>1
  <2>2. CASE f = new /\ library[m] # check[c].local[m]
    <3>1. SUFFICES ASSUME NEW n \in DOMAIN old \cup {m}
                   PROVE  (n \in DOMAIN old /\ new[n] = old[n])
                          \/ (n = m /\ new[n] = library[n] /\ new[n] # check[c].local[n])
      BY <2>2, <1>21
    <3>2. CASE n = m
      BY <2>2, <3>2, <1>21, <1>3
    <3>3. CASE n # m
      BY <3>1, <3>3, <1>21
    <3>4. QED
      BY <3>2, <3>3
  <2>3. QED
    BY <2>1, <2>2, <1>2
<1>5. q \in CheckState /\ q.at = "ask" /\ q.local = l /\ q.found = f /\ q.late = check[c].late
      /\ q.todo = check[c].todo \ {m}
  <2> DEFINE r == check[c]
  <2>1. r \in CheckState /\ l \in LocalMap /\ f \in VersionMap
    BY <1>0, <1>35, <1>31
  <2> HIDE DEF r
  <2>2. /\ CAsked(r, m, l, f) \in CheckState /\ CAsked(r, m, l, f).at = r.at /\ CAsked(r, m, l, f).local = l
        /\ CAsked(r, m, l, f).found = f /\ CAsked(r, m, l, f).late = r.late
        /\ CAsked(r, m, l, f).todo = r.todo \ {m}
    <3>1. r.todo \ {m} \in SUBSET LocalModel
      BY <2>1 DEF CheckState
    <3>2. QED
      BY <2>1, <3>1 DEF CheckState, CAsked
  <2>3. q = CAsked(r, m, l, f)
    BY DEF r
  <2> HIDE DEF q
  <2>4. QED
    BY <2>2, <2>3, <1>1 DEF r
<1> HIDE DEF q
<1>6. CheckFits(check[c], library, installed)
  BY <1>0
<1>7. CheckFits(q, library, installed)
  <2>1. \A n \in DOMAIN f : f[n] <= library[n]
    <3>1. \A n \in DOMAIN old : old[n] <= library[n]
      BY <1>3, <1>6 DEF CheckFits
    <3>2. library[m] <= library[m]
      BY <1>0, <1>3 DEF Versions
    <3>3. QED
      BY <3>1, <3>2, <1>4
  <2>2. ASSUME NEW n \in DOMAIN f, n \notin check[c].late
        PROVE  f[n] # installed[n]
    <3>1. CASE n \in DOMAIN old /\ f[n] = old[n]
      BY <2>2, <3>1, <1>3, <1>6, <1>1 DEF CheckFits
    <3>2. CASE n = m /\ f[n] = library[n] /\ f[n] # check[c].local[n]
      <4>1. installed[m] \in {check[c].local[m], 0}
        BY <2>2, <3>2, <1>6, <1>1 DEF CheckFits
      <4>2. library[m] # 0
        BY <1>0 DEF Versions
      <4>3. QED
        BY <3>2, <4>1, <4>2
    <3>3. QED
      BY <3>1, <3>2, <1>4
  <2>3. q.todo \subseteq DOMAIN q.local
    BY <1>1, <1>5, <1>6, <1>35 DEF CheckFits
  <2>4. \A n \in q.todo : n \notin q.late => installed[n] \in {q.local[n], 0}
    <3>1. SUFFICES ASSUME NEW n \in check[c].todo \ {m}, n \notin check[c].late
                   PROVE  installed[n] \in {l[n], 0}
      BY <1>5
    <3>2. n \in DOMAIN l /\ installed[n] \in {check[c].local[n], 0}
      BY <3>1, <2>3, <1>1, <1>5, <1>6 DEF CheckFits
    <3>3. QED
      BY <3>2, <1>35
  <2>5. QED
    BY <2>1, <2>2, <2>3, <2>4, <1>5 DEF CheckFits
<1>8. ~mixed => NotTold(q, told)
  <2>1. SUFFICES ASSUME ~mixed, NEW n \in DOMAIN f, NEW k \in Versions, told[<<n, k>>] # 0
                 PROVE  k <= f[n]
    BY <1>5 DEF NotTold
  <2>2. OnceFits
    BY <2>1 DEF UpdatesFit
  <2>3. n \in LocalModel
    BY <1>0, <1>4
  <2>4. CASE n \in DOMAIN old /\ f[n] = old[n]
    BY <2>1, <2>2, <2>4, <1>1, <1>3 DEF OnceFits, NoneIsTold, NotTold
  <2>5. CASE f[n] = library[n]
    BY <2>1, <2>2, <2>3, <2>5 DEF OnceFits, ToldIsThere
  <2>6. QED
    BY <2>4, <2>5, <1>4
<1>9. ASSUME ~mixed, NEW d \in Checker, Announces(check[d])
      PROVE  Later(check[d].found, f)
  <2>1. OnceFits
    BY <1>9 DEF UpdatesFit
  <2>2. SUFFICES ASSUME NEW n \in DOMAIN check[d].found \cap DOMAIN f
                 PROVE  check[d].found[n] <= f[n]
    BY DEF Later
  <2>3. CASE n \in DOMAIN old /\ f[n] = old[n]
    <3>1. Later(check[d].found, old)
      BY <2>1, <1>1, <1>3, <1>9 DEF OnceFits, AskersAreLate
    <3>2. QED
      BY <3>1, <2>2, <2>3 DEF Later
  <2>4. CASE f[n] = library[n]
    BY <1>0, <2>2, <2>4 DEF CheckFits
  <2>5. QED
    BY <2>3, <2>4, <1>4
<1>10. OffersFit'
  BY <1>1, OffersStay
<1>11. mixed' \in BOOLEAN /\ updates' \in VersionMap /\ late' \subseteq LocalModel /\ HistoryTyped'
  BY <1>1, UpdateFacts DEF HistoryTyped
<1>12. ~Announces(q)
  BY <1>5 DEF Announces
<1>13. QED
  BY <1>1, <1>5, <1>7, <1>8, <1>9, <1>10, <1>11, <1>12, OneChecks

\* What was counted is kept, or forgotten.
LEMMA ForgetsHistory ==
    ASSUME HistoryTyped, mixed' \in BOOLEAN,
           told' = IF mixed' THEN [x \in LocalModel \X Versions |-> 0] ELSE told,
           unsaved' = IF mixed' THEN {} ELSE unsaved
    PROVE  HistoryTyped' /\ (~mixed' => UNCHANGED <<told, unsaved>>)
<1>1. [x \in LocalModel \X Versions |-> 0] \in [LocalModel \X Versions -> 0..2]
  OBVIOUS
<1>2. QED
  BY <1>1 DEF HistoryTyped

LEMMA KeepFits ==
    ASSUME UpdatesFit, NEW c \in Checker, U!Keep(c)
    PROVE  UpdatesFit'
<1> DEFINE q == CKept(check[c])
<1>0. /\ check \in [Checker -> CheckState] /\ check[c] \in CheckState /\ check[c].found \in VersionMap
      /\ CheckFits(check[c], library, installed) /\ mixed \in BOOLEAN
      /\ DOMAIN check[c].found \subseteq LocalModel /\ \A m \in DOMAIN check[c].found : check[c].found[m] \in Versions
  BY UpdateFacts, Maps
<1>1. /\ check' = [check EXCEPT ![c] = q] /\ check[c].at = "ask" /\ updates' = check[c].found
      /\ mixed' = (mixed \/ \E d \in Checker \ {c} : U!Comparing(d)) /\ late' = check[c].late \cap DOMAIN check[c].found
      /\ told' = IF mixed' THEN [x \in LocalModel \X Versions |-> 0] ELSE told
      /\ unsaved' = IF mixed' THEN {} ELSE unsaved
      /\ UNCHANGED <<library, installed, pull, seen, waiting>>
  BY <1>0 DEF U!Keep, U!Counts, U!Version, Versions, CKept
<1>2. q \in CheckState /\ q.at = "seen" /\ q.found = check[c].found /\ q.left = DOMAIN check[c].found
  BY <1>0, CKeptFields
<1> HIDE DEF q
<1>3. mixed' \in BOOLEAN /\ (mixed => mixed') /\ late' \subseteq LocalModel
  BY <1>0, <1>1
<1>4. ~mixed' => \A d \in Checker \ {c} : ~Compares(check[d])
  BY <1>1 DEF U!Comparing, U!Announcing, Compares, Announces
<1>5. CheckFits(q, library, installed)
  BY <1>0, <1>2 DEF CheckFits
<1>6. ~mixed' => NotTold(q, told)
  BY <1>1, <1>2, <1>3 DEF UpdatesFit, OnceFits, NoneIsTold, NotTold
<1>7. OffersFit'
  <2>1. SUFFICES ASSUME NEW m \in DOMAIN check[c].found, check[c].found[m] = installed[m], m \notin check[c].late
                 PROVE  FALSE
    BY <1>1 DEF OffersFit
  <2>2. QED
    BY <2>1, <1>0, <1>1 DEF CheckFits
<1>9. HistoryTyped' /\ (~mixed' => UNCHANGED <<told, unsaved>>)
  BY <1>1, <1>3, ForgetsHistory, UpdateFacts
<1>8. QED
  BY <1>9, <1>0, <1>1, <1>2, <1>3, <1>4, <1>5, <1>6, <1>7, OneChecks

LEMMA SeenFits ==
    ASSUME UpdatesFit, NEW c \in Checker, U!ReadSeen(c)
    PROVE  UpdatesFit'
<1> DEFINE q == CReads(check[c], seen)
<1>0. /\ check \in [Checker -> CheckState] /\ check[c] \in CheckState /\ seen \in VersionMap
      /\ CheckFits(check[c], library, installed)
  BY UpdateFacts
<1>1. /\ check' = [check EXCEPT ![c] = q] /\ check[c].at = "seen"
      /\ UNCHANGED <<library, installed, pull, updates, seen, waiting, told, mixed, unsaved, late>>
  BY <1>0 DEF U!ReadSeen, CReads
<1>2. q \in CheckState /\ q.at = "announce" /\ q.seen = seen /\ q.left = check[c].left /\ q.found = check[c].found
  BY <1>0, CReadsFields
<1> HIDE DEF q
<1>3. CheckFits(q, library, installed) /\ AsSaved(q, seen)
  BY <1>0, <1>1, <1>2 DEF CheckFits, AsSaved
<1>4. ~mixed => NotTold(q, told)
  BY <1>1, <1>2 DEF UpdatesFit, OnceFits, NoneIsTold, NotTold
<1>5. ASSUME ~mixed
      PROVE  Remembers(seen, told, unsaved)
  <2>1. OnceFits
    BY <1>5 DEF UpdatesFit
  <2>2. \A d \in Checker : check[d].at # "announce"
    <3>1. SUFFICES ASSUME NEW d \in Checker, check[d].at = "announce"
                   PROVE  FALSE
      OBVIOUS
    <3>2. d = c
      BY <2>1, <3>1, <1>1 DEF OnceFits, OneAnnounces, Announces
    <3>3. QED
      BY <3>1, <3>2, <1>1
  <2>3. QED
    BY <2>1, <2>2 DEF OnceFits, SavedFits, Tells, Remembers
<1>6. OffersFit'
  BY <1>1, OffersStay
<1>7. mixed' \in BOOLEAN /\ updates' \in VersionMap /\ late' \subseteq LocalModel /\ HistoryTyped'
  BY <1>1, UpdateFacts DEF HistoryTyped
<1>8. Announces(check[c])
  BY <1>1 DEF Announces
<1>9. QED
  BY <1>1, <1>2, <1>3, <1>4, <1>5, <1>6, <1>7, <1>8, OneChecks

LEMMA KnownFits ==
    ASSUME UpdatesFit, NEW c \in Checker, NEW m \in LocalModel, U!Announce(c, m), U!Known(c, m)
    PROVE  UpdatesFit'
<1> DEFINE q == CKnows(check[c], m)
<1>0. /\ check \in [Checker -> CheckState] /\ check[c] \in CheckState
      /\ CheckFits(check[c], library, installed)
  BY UpdateFacts
<1>1. /\ check' = [check EXCEPT ![c] = q] /\ check[c].at = "announce"
      /\ UNCHANGED <<library, installed, pull, updates, seen, waiting, told, mixed, unsaved, late>>
  BY <1>0 DEF U!Announce, CKnows
<1>2. q \in CheckState /\ q.at = check[c].at /\ q.seen = check[c].seen /\ q.left = check[c].left \ {m}
      /\ q.found = check[c].found
  BY <1>0, CKnowsFields
<1> HIDE DEF q
<1>3. CheckFits(q, library, installed)
  BY <1>0, <1>1, <1>2 DEF CheckFits
<1>4. ~mixed => NotTold(q, told)
  BY <1>1, <1>2 DEF UpdatesFit, OnceFits, NoneIsTold, NotTold
<1>5. ~mixed => Remembers(q.seen, told, unsaved) /\ AsSaved(q, seen)
  BY <1>1, <1>2 DEF UpdatesFit, OnceFits, TellerKnows, AsSaved
<1>6. OffersFit'
  BY <1>1, OffersStay
<1>7. mixed' \in BOOLEAN /\ updates' \in VersionMap /\ late' \subseteq LocalModel /\ HistoryTyped'
  BY <1>1, UpdateFacts DEF HistoryTyped
<1>8. Announces(check[c])
  BY <1>1 DEF Announces
<1>9. QED
  BY <1>1, <1>2, <1>3, <1>4, <1>5, <1>6, <1>7, <1>8, OneChecks

\* A version that is not known is told, and it was not told before.
LEMMA TellFits ==
    ASSUME UpdatesFit, NEW c \in Checker, NEW m \in LocalModel, U!Announce(c, m), ~U!Known(c, m)
    PROVE  UpdatesFit'
<1> DEFINE v == check[c].found[m]
           s == U!Put(check[c].seen, m, v)
           q == CTells(check[c], m, s)
<1>0. /\ check \in [Checker -> CheckState] /\ check[c] \in CheckState /\ check[c].seen \in VersionMap
      /\ check[c].found \in VersionMap /\ told \in [LocalModel \X Versions -> 0..2] /\ library \in [LocalModel -> Versions]
      /\ \A d \in Checker : CheckFits(check[d], library, installed)
  BY UpdateFacts
<1>1. /\ check' = [check EXCEPT ![c] = q] /\ check[c].at = "announce" /\ m \in check[c].left
      /\ told' = [told EXCEPT ![<<m, v>>] = IF ~mixed /\ @ < 2 THEN @ + 1 ELSE @]
      /\ UNCHANGED <<library, installed, pull, updates, seen, waiting, mixed, unsaved, late>>
  BY <1>0 DEF U!Announce, CTells
<1>2. m \in DOMAIN check[c].found /\ v \in Versions /\ v <= library[m] /\ <<m, v>> \in LocalModel \X Versions
  BY <1>0, <1>1, Maps DEF CheckFits
<1>3. m \in DOMAIN check[c].seen => check[c].seen[m] # v
  BY DEF U!Known
<1>4. v = check[c].found[m]
  OBVIOUS
<1> HIDE DEF v
<1>5. /\ s \in VersionMap /\ DOMAIN s = DOMAIN check[c].seen \cup {m} /\ s[m] = v
      /\ \A n \in DOMAIN check[c].seen : n # m => s[n] = check[c].seen[n]
  <2> DEFINE f == check[c].seen
  <2>1. f \in VersionMap /\ v \in Versions
    BY <1>0, <1>2
  <2> HIDE DEF f
  <2>2. /\ U!Put(f, m, v) \in VersionMap /\ DOMAIN U!Put(f, m, v) = DOMAIN f \cup {m} /\ U!Put(f, m, v)[m] = v
        /\ \A n \in DOMAIN f : n # m => U!Put(f, m, v)[n] = f[n]
    BY <2>1, PutIsMap
  <2>3. QED
    BY <2>2 DEF f
<1> HIDE DEF s
<1>6. q \in CheckState /\ q.at = check[c].at /\ q.seen = s /\ q.left = check[c].left \ {m} /\ q.found = check[c].found
  BY <1>0, <1>5, CTellsFields
<1> HIDE DEF q
<1>7. \A d \in Checker : check'[d] = IF d = c THEN q ELSE check[d]
  BY <1>0, <1>1
<1>8. told' \in [LocalModel \X Versions -> 0..2]
      /\ (~mixed => \A x \in LocalModel \X Versions : told[x] # 0 \/ x = <<m, v>> <=> told'[x] # 0)
  <2> DEFINE k == told[<<m, v>>]
             z == IF ~mixed /\ k < 2 THEN k + 1 ELSE k
  <2>1. k \in 0..2
    BY <1>0, <1>2
  <2>2. z \in 0..2 /\ (~mixed => z # 0)
    BY <2>1
  <2>3. told' = [told EXCEPT ![<<m, v>>] = z]
    BY <1>1
  <2> HIDE DEF k, z
  <2>4. \A x \in LocalModel \X Versions : told'[x] = IF x = <<m, v>> THEN z ELSE told[x]
    BY <1>0, <2>3
  <2>5. QED
    BY <1>0, <1>2, <2>2, <2>3, <2>4
<1>18. HistoryTyped'
  BY <1>1, <1>8, UpdateFacts DEF HistoryTyped
<1>10. UpdatesTyped'
  BY <1>0, <1>1, <1>6, <1>18 DEF UpdatesFit, UpdatesTyped
<1>11. PullFits(pull, library, installed, waiting)'
  BY <1>1 DEF UpdatesFit, PullFits
<1>12. CheckFits(q, library, installed)
  BY <1>0, <1>1, <1>6 DEF CheckFits
<1>13. ChecksFit'
  BY <1>0, <1>1, <1>7, <1>12 DEF ChecksFit, CheckFits
<1>14. OffersFit'
  BY <1>1, OffersStay
<1>15. ASSUME ~mixed
       PROVE  OnceFits'
  <2>0. OnceFits
    BY <1>15 DEF UpdatesFit
  <2>14. \A n \in LocalModel, k \in Versions : told[<<n, k>>] # 0 \/ (n = m /\ k = v) <=> told'[<<n, k>>] # 0
    <3>1. \A x \in LocalModel \X Versions : told[x] # 0 \/ x = <<m, v>> <=> told'[x] # 0
      BY <1>8, <1>15
    <3>2. SUFFICES ASSUME NEW n \in LocalModel, NEW k \in Versions
                   PROVE  told[<<n, k>>] # 0 \/ (n = m /\ k = v) <=> told'[<<n, k>>] # 0
      OBVIOUS
    <3>3. <<n, k>> \in LocalModel \X Versions /\ (<<n, k>> = <<m, v>> <=> n = m /\ k = v)
      OBVIOUS
    <3>4. QED
      BY <3>1, <3>3
  <2>1. \A d \in Checker : d # c => ~Announces(check[d]) /\ check[d].at # "announce" /\ check[d].at # "seen"
    BY <2>0, <1>1 DEF OnceFits, OneAnnounces, Announces
  <2>2. NotTold(check[c], told) /\ Remembers(check[c].seen, told, unsaved) /\ AsSaved(check[c], seen)
    BY <2>0, <1>1 DEF OnceFits, NoneIsTold, TellerKnows
  <2>3. \A k \in Versions : told[<<m, k>>] # 0 => k <= v
    BY <2>2, <1>1, <1>4 DEF NotTold
  <2>4. told[<<m, v>>] = 0 \/ <<m, v>> \in unsaved
    <3>1. SUFFICES ASSUME told[<<m, v>>] # 0, <<m, v>> \notin unsaved
                   PROVE  FALSE
      OBVIOUS
    <3>2. m \in DOMAIN check[c].seen /\ v <= check[c].seen[m] /\ told[<<m, check[c].seen[m]>>] # 0
      BY <3>1, <2>2, <1>2 DEF Remembers
    <3>3. check[c].seen[m] \in Versions
      BY <3>2, <1>0, Maps
    <3>4. check[c].seen[m] <= v
      BY <3>2, <3>3, <2>3
    <3>5. QED
      BY <3>2, <3>3, <3>4, <1>2, <1>3 DEF Versions
  <2>5. OneAnnounces'
    <3>1. \A d \in Checker : Announces(check'[d]) => d = c
      BY <2>1, <1>6, <1>7 DEF Announces
    <3>2. QED
      BY <3>1 DEF OneAnnounces
  <2>6. AskersAreLate'
    BY <2>0, <1>6, <1>7 DEF OnceFits, AskersAreLate, Announces
  <2>7. NoneIsTold'
    <3>1. SUFFICES ASSUME NEW d \in Checker
                   PROVE  NotTold(check'[d], told')
      BY DEF NoneIsTold
    <3>2. CASE d = c
      <4>1. check'[d] = q /\ q.at = "announce" /\ q.left = check[c].left \ {m} /\ q.found = check[c].found
            /\ check[c].left \subseteq LocalModel
        BY <3>2, <1>1, <1>6, <1>7, UpdateFacts
      <4>2. \A n \in q.left : n # m /\ n \in check[c].left /\ n \in LocalModel
        BY <4>1
      <4>3. \A n \in q.left : \A k \in Versions : told'[<<n, k>>] # 0 => k <= q.found[n]
        BY <4>1, <4>2, <2>2, <1>1, <2>14 DEF NotTold
      <4>4. QED
        BY <4>1, <4>3 DEF NotTold
    <3>3. CASE d # c
      <4>1. check'[d] = check[d] /\ check[d].at # "announce" /\ check[d].at # "seen"
            /\ DOMAIN check[d].found \subseteq LocalModel
        BY <3>1, <3>3, <2>1, <1>7, UpdateFacts
      <4>2. ASSUME check[d].at = "ask", NEW n \in DOMAIN check[d].found, NEW k \in Versions, told'[<<n, k>>] # 0
            PROVE  k <= check[d].found[n]
        <5>1. CASE told[<<n, k>>] # 0
          BY <5>1, <4>2, <2>0 DEF OnceFits, NoneIsTold, NotTold
        <5>2. CASE n = m /\ k = v
          <6>1. Later(check[c].found, check[d].found)
            BY <4>2, <2>0, <1>1 DEF OnceFits, AskersAreLate, Announces
          <6>2. QED
            BY <6>1, <5>2, <4>2, <1>2, <1>4 DEF Later
        <5>3. QED
          BY <4>1, <4>2, <5>1, <5>2, <2>14
      <4>3. QED
        BY <4>1, <4>2 DEF NotTold
    <3>4. QED
      BY <3>2, <3>3
  <2>8. Remembers(s, told', unsaved)
    <3>1. ASSUME NEW n \in LocalModel, NEW k \in Versions, told'[<<n, k>>] # 0, <<n, k>> \notin unsaved
          PROVE  n \in DOMAIN s /\ k <= s[n]
      <4>1. CASE n = m
        <5>1. told[<<m, k>>] # 0 \/ k = v
          BY <3>1, <4>1, <2>14
        <5>2. k <= v
          BY <5>1, <2>3, <1>2 DEF Versions
        <5>3. QED
          BY <4>1, <5>2, <1>5
      <4>2. CASE n # m
        <5>1. told[<<n, k>>] # 0
          BY <3>1, <4>2, <2>14
        <5>2. QED
          BY <3>1, <5>1, <4>2, <2>2, <1>5 DEF Remembers
      <4>3. QED
        BY <4>1, <4>2
    <3>2. ASSUME NEW n \in DOMAIN s
          PROVE  told'[<<n, s[n]>>] # 0
      <4>0. n \in LocalModel /\ s[n] \in Versions
        BY <3>2, <1>5, Maps
      <4>1. CASE n = m
        BY <4>0, <4>1, <1>5, <2>14
      <4>2. CASE n # m
        <5>1. s[n] = check[c].seen[n] /\ told[<<n, check[c].seen[n]>>] # 0
          BY <3>2, <4>2, <2>2, <1>5 DEF Remembers
        <5>2. QED
          BY <4>0, <5>1, <2>14
      <4>3. QED
        BY <4>1, <4>2
    <3>3. QED
      BY <3>1, <3>2 DEF Remembers
  <2>9. TellerKnows'
    <3>1. \A d \in Checker : check'[d].at = "announce" => check'[d].seen = s
      BY <2>1, <1>6, <1>7
    <3>2. AsSaved(q, seen)
      BY <2>2, <1>5, <1>6 DEF AsSaved
    <3>3. \A e \in Checker : check'[e].at = "announce" => e = c /\ check'[e] = q
      BY <2>1, <1>7
    <3>4. QED
      BY <3>1, <3>2, <3>3, <2>8, <1>1 DEF TellerKnows, Remembers, AsSaved
  <2>10. SavedFits'
    <3>1. ASSUME NEW n \in LocalModel, NEW k \in Versions, told'[<<n, k>>] # 0, <<n, k>> \notin unsaved,
                 ~(n \in DOMAIN seen /\ k <= seen[n])
          PROVE  Tells(n, k)'
      <4>1. n \in DOMAIN s /\ s[n] = k
        <5>1. CASE n = m /\ k = v
          BY <5>1, <1>5
        <5>2. CASE ~(n = m /\ k = v)
          <6>1. Tells(n, k)
            BY <3>1, <5>2, <2>0, <2>14 DEF OnceFits, SavedFits
          <6>2. n \in DOMAIN check[c].seen /\ check[c].seen[n] = k
            BY <6>1, <2>1 DEF Tells
          <6>3. n # m
            <7>1. ASSUME n = m
                  PROVE  FALSE
              <8>1. n \in DOMAIN seen /\ k = seen[n]
                BY <7>1, <6>2, <2>2, <1>1 DEF AsSaved
              <8>2. k <= k
                BY <3>1 DEF Versions
              <8>3. QED
                BY <8>1, <8>2, <3>1
            <7>2. QED
              BY <7>1
          <6>4. QED
            BY <6>2, <6>3, <1>5
        <5>3. QED
          BY <5>1, <5>2
      <4>2. check'[c].at = "announce" /\ check'[c].seen = s
        BY <1>1, <1>6, <1>7
      <4>3. QED
        BY <4>1, <4>2 DEF Tells
    <3>2. \A n \in DOMAIN seen : told'[<<n, seen[n]>>] # 0
      <4>1. SUFFICES ASSUME NEW n \in DOMAIN seen
                     PROVE  told'[<<n, seen[n]>>] # 0
        OBVIOUS
      <4>2. n \in LocalModel /\ seen[n] \in Versions /\ told[<<n, seen[n]>>] # 0
        BY <2>0, Maps, UpdateFacts DEF OnceFits, SavedFits
      <4>3. QED
        BY <4>2, <2>14
    <3>3. QED
      BY <3>1, <3>2, <1>1 DEF SavedFits
  <2>11. ToldIsThere'
    BY <2>0, <1>1, <1>2, <2>14 DEF OnceFits, ToldIsThere
  <2>12. ToldOnce'
    <3>1. SUFFICES ASSUME NEW n \in LocalModel, NEW k \in Versions, <<n, k>> \notin unsaved
                   PROVE  told'[<<n, k>>] <= 1
      BY <1>1 DEF ToldOnce
    <3>2. told[<<n, k>>] <= 1 /\ <<n, k>> \in LocalModel \X Versions
      BY <2>0, <3>1 DEF OnceFits, ToldOnce
    <3>3. CASE <<n, k>> = <<m, v>>
      <4>1. told[<<m, v>>] = 0
        BY <2>4, <3>1, <3>3
      <4>2. told' = [told EXCEPT ![<<m, v>>] = 1]
        BY <4>1, <1>1, <1>15
      <4>3. QED
        BY <4>2, <3>2, <3>3, <1>0
    <3>4. CASE <<n, k>> # <<m, v>>
      <4>1. told'[<<n, k>>] = told[<<n, k>>]
        BY <3>2, <3>4, <1>0, <1>1
      <4>2. QED
        BY <4>1, <3>2
    <3>5. QED
      BY <3>3, <3>4
  <2>13. QED
    BY <2>5, <2>6, <2>7, <2>9, <2>10, <2>11, <2>12 DEF OnceFits
<1>16. mixed' = mixed
  BY <1>1
<1>17. QED
  BY <1>10, <1>11, <1>13, <1>14, <1>15, <1>16 DEF UpdatesFit

LEMMA WriteFits ==
    ASSUME UpdatesFit, NEW c \in Checker, NEW ok \in BOOLEAN, U!WriteSeen(c, ok)
    PROVE  UpdatesFit'
<1> DEFINE q == U!NoCheck
           s == check[c].seen
           forgot == U!Forgotten(c)
<1>0. check \in [Checker -> CheckState] /\ s \in VersionMap /\ seen \in VersionMap
      /\ \A d \in Checker : CheckFits(check[d], library, installed)
  BY UpdateFacts
<1>1. /\ check' = [check EXCEPT ![c] = q] /\ check[c].at = "announce"
      /\ \/ seen' = s /\ unsaved' = unsaved
         \/ seen' = seen /\ unsaved' = unsaved \cup forgot
         \/ mixed /\ seen' = seen /\ unsaved' = unsaved
      /\ UNCHANGED <<library, installed, pull, updates, waiting, told, mixed, late>>
  BY DEF U!WriteSeen, U!Remembered
<1>2. q \in CheckState /\ q.at = "idle" /\ DOMAIN q.found = {}
  BY IdleCheck
<1>21. /\ forgot \subseteq LocalModel \X Versions
       /\ \A m \in DOMAIN s : <<m, s[m]>> \in forgot \/ (m \in DOMAIN seen /\ seen[m] = s[m])
  BY <1>0, Maps DEF U!Forgotten
<1> HIDE DEF q, s, forgot
<1>3. \A d \in Checker : check'[d] = IF d = c THEN q ELSE check[d]
  BY <1>0, <1>1
<1>4. UpdatesTyped'
  BY <1>0, <1>1, <1>2, <1>21 DEF UpdatesFit, UpdatesTyped, HistoryTyped
<1>5. PullFits(pull, library, installed, waiting)'
  BY <1>1 DEF UpdatesFit, PullFits
<1>6. CheckFits(q, library, installed) /\ NotTold(q, told) /\ ~Announces(q)
  BY <1>2 DEF CheckFits, NotTold, Announces
<1>7. ChecksFit'
  BY <1>0, <1>1, <1>3, <1>6 DEF ChecksFit, CheckFits
<1>8. OffersFit'
  BY <1>1, OffersStay
<1>9. ASSUME ~mixed
      PROVE  OnceFits'
  <2>0. OnceFits
    BY <1>9 DEF UpdatesFit
  <2>1. OneAnnounces'
    BY <2>0, <1>3, <1>6 DEF OnceFits, OneAnnounces
  <2>2. AskersAreLate'
    BY <2>0, <1>2, <1>3, <1>6 DEF OnceFits, AskersAreLate
  <2>3. NoneIsTold'
    BY <2>0, <1>1, <1>3, <1>6 DEF OnceFits, NoneIsTold, NotTold
  <2>4. \A d \in Checker : d # c => check[d].at # "announce"
    BY <2>0, <1>1 DEF OnceFits, OneAnnounces, Announces
  <2>5. TellerKnows'
    BY <2>4, <1>2, <1>3 DEF TellerKnows
  <2>6. Remembers(s, told, unsaved)
    BY <2>0, <1>1 DEF OnceFits, TellerKnows, s
  <2>7. SavedFits'
    <3>1. CASE seen' = s /\ unsaved' = unsaved
      BY <3>1, <2>6, <1>1 DEF SavedFits, Remembers
    <3>2. CASE seen' = seen /\ unsaved' = unsaved \cup forgot
      <4>1. SUFFICES ASSUME NEW m \in LocalModel, NEW v \in Versions, told[<<m, v>>] # 0
                     PROVE  <<m, v>> \in unsaved \cup forgot \/ (m \in DOMAIN seen /\ v <= seen[m])
        BY <3>2, <2>0, <1>1 DEF OnceFits, SavedFits
      <4>2. CASE Tells(m, v)
        <5>1. m \in DOMAIN s /\ s[m] = v
          BY <4>2, <2>4 DEF Tells, s
        <5>2. v <= v
          BY DEF Versions
        <5>3. QED
          BY <5>1, <5>2, <1>21
      <4>3. CASE ~Tells(m, v)
        BY <4>1, <4>3, <2>0 DEF OnceFits, SavedFits
      <4>4. QED
        BY <4>2, <4>3
    <3>3. QED
      BY <3>1, <3>2, <1>1, <1>9
  <2>8. ToldIsThere' /\ ToldOnce'
    BY <2>0, <1>1 DEF OnceFits, ToldIsThere, ToldOnce
  <2>9. QED
    BY <2>1, <2>2, <2>3, <2>5, <2>7, <2>8 DEF OnceFits
<1>10. mixed' = mixed
  BY <1>1
<1>11. QED
  BY <1>4, <1>5, <1>7, <1>8, <1>9, <1>10 DEF UpdatesFit

-----------------------------------------------------------------------------

\* A check that goes on where it was, with perhaps less to announce.
GoesOn(q, p) == q.at = p.at /\ q.found = p.found /\ q.seen = p.seen /\ q.left \subseteq p.left

\* What is no step of a check leaves what was told alone.
LEMMA OnceStays ==
    ASSUME UpdatesFit, UNCHANGED <<seen, told, mixed, unsaved>>, \A c \in Checker : GoesOn(check'[c], check[c]),
           library' \in [LocalModel -> Versions], \A m \in LocalModel : library[m] <= library'[m]
    PROVE  ~mixed' => OnceFits'
<1>1. SUFFICES ASSUME ~mixed
               PROVE  OnceFits'
  OBVIOUS
<1>2. OnceFits /\ library \in [LocalModel -> Versions]
  BY <1>1, UpdateFacts DEF UpdatesFit
<1>3. \A c \in Checker : /\ check'[c].at = check[c].at /\ check'[c].found = check[c].found
                          /\ check'[c].seen = check[c].seen /\ check'[c].left \subseteq check[c].left
  BY DEF GoesOn
<1>4. OneAnnounces' /\ AskersAreLate'
  BY <1>2, <1>3 DEF OnceFits, OneAnnounces, AskersAreLate, Announces
<1>5. NoneIsTold'
  BY <1>2, <1>3 DEF OnceFits, NoneIsTold, NotTold
<1>6. TellerKnows'
  BY <1>2, <1>3 DEF OnceFits, TellerKnows, Remembers, AsSaved
<1>7. SavedFits'
  BY <1>2, <1>3 DEF OnceFits, SavedFits, Tells
<1>8. ToldOnce'
  BY <1>2 DEF OnceFits, ToldOnce
<1>9. ToldIsThere'
  <2>1. SUFFICES ASSUME NEW m \in LocalModel, NEW v \in Versions, told[<<m, v>>] # 0
                 PROVE  v <= library'[m]
    BY DEF ToldIsThere
  <2>2. v <= library[m] /\ library[m] <= library'[m]
    BY <2>1, <1>2 DEF OnceFits, ToldIsThere
  <2>3. library[m] \in Nat /\ library'[m] \in Nat /\ v \in Nat
    BY <2>1, <1>2 DEF Versions
  <2>4. QED
    BY <2>2, <2>3
<1>10. QED
  BY <1>4, <1>5, <1>6, <1>7, <1>8, <1>9 DEF OnceFits

LEMMA SameLibrary ==
    ASSUME UpdatesFit, UNCHANGED <<library, seen, told, mixed, unsaved>>,
           \A c \in Checker : GoesOn(check'[c], check[c])
    PROVE  ~mixed' => OnceFits'
<1>1. library' \in [LocalModel -> Versions] /\ \A m \in LocalModel : library[m] <= library'[m]
  <2>1. library \in [LocalModel -> Versions]
    BY UpdateFacts
  <2>2. QED
    BY <2>1 DEF Versions
<1>2. QED
  BY <1>1, OnceStays

LEMMA SameChecks ==
    UNCHANGED check => \A c \in Checker : GoesOn(check'[c], check[c])
  BY DEF GoesOn

\* A model is installed, which whoever compares has missed.
LEMMA MissedFits ==
    ASSUME UpdatesFit, NEW m \in LocalModel, U!Missed(m), UNCHANGED library,
           installed' = [installed EXCEPT ![m] = library[m]]
    PROVE  /\ check' \in [Checker -> CheckState] /\ \A c \in Checker : GoesOn(check'[c], check[c])
           /\ ChecksFit' /\ installed' \in [LocalModel -> 0..LastVersion]
           /\ \A n \in LocalModel : installed'[n] = IF n = m THEN library[m] ELSE installed[n]
<1>1. /\ library \in [LocalModel -> Versions] /\ installed \in [LocalModel -> 0..LastVersion]
      /\ \A c \in Checker : check[c] \in CheckState /\ CheckFits(check[c], library, installed)
  BY UpdateFacts
<1>2. library[m] \in 0..LastVersion
  BY <1>1 DEF Versions
<1>3. installed' \in [LocalModel -> 0..LastVersion]
      /\ \A n \in LocalModel : installed'[n] = IF n = m THEN library[m] ELSE installed[n]
  BY <1>1, <1>2
<1>4. check' = [c \in Checker |-> IF check[c].at = "ask" THEN CMissed(check[c], m) ELSE check[c]]
  BY DEF U!Missed, CMissed
<1>5. ASSUME NEW c \in Checker
      PROVE  check'[c] \in CheckState /\ GoesOn(check'[c], check[c]) /\ CheckFits(check'[c], library, installed')
  <2>1. CASE check[c].at # "ask"
    BY <2>1, <1>1, <1>4 DEF GoesOn, CheckFits
  <2>2. CASE check[c].at = "ask"
    <3> DEFINE q == CMissed(check[c], m)
    <3>1. /\ q \in CheckState /\ q.at = check[c].at /\ q.local = check[c].local /\ q.found = check[c].found
          /\ q.seen = check[c].seen /\ q.left = check[c].left /\ q.late = check[c].late \cup {m}
          /\ q.todo = check[c].todo
      BY <1>1, CMissedFields
    <3>2. check'[c] = q
      BY <2>2, <1>4
    <3> HIDE DEF q
    <3>3. CheckFits(q, library, installed')
      <4>1. check[c].todo \subseteq LocalModel /\ DOMAIN check[c].found \subseteq LocalModel
        BY UpdateFacts
      <4>2. QED
        BY <4>1, <3>1, <2>2, <1>1, <1>3 DEF CheckFits
    <3>4. QED
      BY <3>1, <3>2, <3>3 DEF GoesOn
  <2>3. QED
    BY <2>1, <2>2
<1>6. check' \in [Checker -> CheckState]
  BY <1>4, <1>5
<1>7. ChecksFit'
  BY <1>5 DEF ChecksFit, CheckFits
<1>8. QED
  BY <1>3, <1>5, <1>6, <1>7

\* A download, or the page that waits for it, takes a step that leaves the models alone.
LEMMA DownloadFits ==
    ASSUME UpdatesFit, pull' \in PullState, waiting' \subseteq LocalModel, waiting \subseteq waiting',
           PullFits(pull', library, installed, waiting'),
           UNCHANGED <<library, installed, check, updates, seen, told, mixed, unsaved, late>>
    PROVE  UpdatesFit'
<1>1. UpdatesTyped'
  BY DEF UpdatesFit, UpdatesTyped, HistoryTyped
<1>2. ChecksFit'
  BY DEF UpdatesFit, ChecksFit, CheckFits
<1>3. OffersFit'
  BY DEF UpdatesFit, OffersFit
<1>4. ~mixed' => OnceFits'
  BY SameLibrary, SameChecks
<1>5. PullFits(pull, library, installed, waiting)'
  BY DEF PullFits
<1>6. QED
  BY <1>1, <1>2, <1>3, <1>4, <1>5 DEF UpdatesFit

LEMMA PullsFit ==
    ASSUME UpdatesFit, (\E m \in LocalModel : U!StartPull(m)) \/ U!Success \/ U!PullFails \/ U!PullEnds
    PROVE  UpdatesFit'
<1>0. pull \in PullState /\ PullFits(pull, library, installed, waiting) /\ waiting \subseteq LocalModel
      /\ library \in [LocalModel -> Versions]
  BY UpdateFacts DEF UpdatesFit
<1>1. ASSUME NEW m \in LocalModel, U!StartPull(m)
      PROVE  UpdatesFit'
  <2> DEFINE p == PStarts(m, library[m])
  <2>1. library[m] \in Versions /\ library[m] \in 0..LastVersion /\ library[m] <= library[m]
    BY <1>0 DEF Versions
  <2>2. /\ pull' = p /\ waiting' = waiting \cup {m}
        /\ UNCHANGED <<library, installed, check, updates, seen, told, mixed, unsaved, late>>
    BY <1>1 DEF U!StartPull, PStarts
  <2>3. /\ p \in PullState /\ p.step = "pulling" /\ p.model = m /\ p.least = library[m] /\ p.active
        /\ ~p.done /\ ~p.failed
    BY <2>1, PStartsFields
  <2> HIDE DEF p
  <2>4. PullFits(p, library, installed, waiting')
    BY <2>1, <2>2, <2>3 DEF PullFits
  <2>5. waiting \subseteq waiting' /\ waiting' \subseteq LocalModel
    BY <2>2, <1>0
  <2>6. QED
    BY <2>2, <2>3, <2>4, <2>5, DownloadFits
<1>2. CASE U!Success
  <2> DEFINE p == PDone(pull)
  <2>1. /\ pull' = p /\ pull.step = "written"
        /\ UNCHANGED <<library, installed, check, updates, seen, waiting, told, mixed, unsaved, late>>
    BY <1>2 DEF U!Success, U!Succeeded, PDone
  <2>2. p \in PullState /\ p.step = "none" /\ ~p.active /\ p.failed = pull.failed /\ p.model = pull.model
        /\ p.least = pull.least
    BY <1>0, PullFields
  <2> HIDE DEF p
  <2>3. ~pull.failed
    BY <2>1, <1>0 DEF PullFits
  <2>4. PullFits(p, library, installed, waiting')
    BY <2>1, <2>2, <2>3, <1>0 DEF PullFits
  <2>5. QED
    BY <2>1, <2>2, <2>4, <1>0, DownloadFits
<1>3. CASE U!PullFails
  <2> DEFINE p == PRefused(pull)
  <2>1. /\ pull' = p /\ pull.step \in {"pulling", "written"}
        /\ UNCHANGED <<library, installed, check, updates, seen, waiting, told, mixed, unsaved, late>>
    BY <1>3 DEF U!PullFails, PRefused
  <2>3. p \in PullState /\ p.step = "refused" /\ p.active = pull.active /\ p.done = pull.done /\ p.failed = pull.failed
    BY <1>0, PullFields
  <2> HIDE DEF p
  <2>4. PullFits(p, library, installed, waiting')
    BY <2>1, <2>3, <1>0 DEF PullFits
  <2>5. QED
    BY <2>1, <2>3, <2>4, <1>0, DownloadFits
<1>4. CASE U!PullEnds
  <2> DEFINE p == PFailed(pull)
  <2>1. /\ pull' = p /\ pull.step = "refused"
        /\ UNCHANGED <<library, installed, check, updates, seen, waiting, told, mixed, unsaved, late>>
    BY <1>4 DEF U!PullEnds, PFailed
  <2>2. p \in PullState /\ p.step = "none" /\ ~p.active /\ p.done = pull.done
    BY <1>0, PullFields
  <2> HIDE DEF p
  <2>3. PullFits(p, library, installed, waiting')
    BY <2>1, <2>2, <1>0 DEF PullFits
  <2>4. QED
    BY <2>1, <2>2, <2>3, <1>0, DownloadFits
<1>5. QED
  BY <1>1, <1>2, <1>3, <1>4

LEMMA InstallFits ==
    ASSUME UpdatesFit, U!ServerInstalls
    PROVE  UpdatesFit'
<1> DEFINE m == pull.model
           p == PGoes(pull, "written")
<1>0. /\ pull \in PullState /\ PullFits(pull, library, installed, waiting) /\ updates \in VersionMap
      /\ DOMAIN updates \subseteq LocalModel
  BY UpdateFacts, Maps DEF UpdatesFit
<1>1. /\ pull.step = "pulling" /\ pull' = p /\ U!Missed(m)
      /\ installed' = [installed EXCEPT ![m] = library[m]]
      /\ UNCHANGED <<library, updates, seen, waiting, told, mixed, unsaved, late>>
  BY DEF U!ServerInstalls, PGoes
<1>2. m \in LocalModel /\ pull.least <= library[m] /\ m \in waiting /\ m = pull.model
  BY <1>0, <1>1 DEF PullFits
<1>3. "written" \in PullStep
  BY DEF PullStep
<1>4. /\ p \in PullState /\ p.step = "written" /\ p.active = pull.active /\ p.done = pull.done
      /\ p.failed = pull.failed /\ p.model = m /\ p.least = pull.least
  BY <1>0, <1>3, PullFields
<1> HIDE DEF m, p
<1>5. /\ check' \in [Checker -> CheckState] /\ \A c \in Checker : GoesOn(check'[c], check[c])
      /\ ChecksFit' /\ installed' \in [LocalModel -> 0..LastVersion]
      /\ \A n \in LocalModel : installed'[n] = IF n = m THEN library[m] ELSE installed[n]
  BY <1>1, <1>2, MissedFits
<1>6. UpdatesTyped'
  BY <1>1, <1>4, <1>5 DEF UpdatesFit, UpdatesTyped, HistoryTyped
<1>7. PullFits(p, library, installed', waiting)
  BY <1>0, <1>1, <1>2, <1>4, <1>5 DEF PullFits
<1>8. PullFits(pull, library, installed, waiting)'
  BY <1>1, <1>7 DEF PullFits
<1>9. OffersFit'
  <2>1. SUFFICES ASSUME NEW n \in DOMAIN updates, updates[n] = installed'[n]
                 PROVE  n \in late \cup waiting
    BY <1>1 DEF OffersFit
  <2>2. CASE n = m
    BY <2>2, <1>2
  <2>3. CASE n # m
    BY <2>1, <2>3, <1>0, <1>5 DEF UpdatesFit, OffersFit
  <2>4. QED
    BY <2>2, <2>3
<1>10. ~mixed' => OnceFits'
  BY <1>1, <1>5, SameLibrary
<1>11. QED
  BY <1>5, <1>6, <1>8, <1>9, <1>10 DEF UpdatesFit

\* Others install what the library has.
LEMMA OthersPullFits ==
    ASSUME UpdatesFit, NEW m \in LocalModel, U!OthersPull(m)
    PROVE  UpdatesFit'
<1>0. /\ pull \in PullState /\ PullFits(pull, library, installed, waiting) /\ updates \in VersionMap
      /\ DOMAIN updates \subseteq LocalModel /\ late \subseteq LocalModel /\ library \in [LocalModel -> Versions]
  BY UpdateFacts, Maps DEF UpdatesFit
<1>1. /\ U!Missed(m) /\ installed' = [installed EXCEPT ![m] = library[m]]
      /\ late' = late \cup ({m} \cap DOMAIN updates)
      /\ UNCHANGED <<library, pull, updates, seen, waiting, told, mixed, unsaved>>
  BY DEF U!OthersPull
<1>2. /\ check' \in [Checker -> CheckState] /\ \A c \in Checker : GoesOn(check'[c], check[c])
      /\ ChecksFit' /\ installed' \in [LocalModel -> 0..LastVersion]
      /\ \A n \in LocalModel : installed'[n] = IF n = m THEN library[m] ELSE installed[n]
  BY <1>1, MissedFits
<1>3. UpdatesTyped'
  BY <1>0, <1>1, <1>2 DEF UpdatesFit, UpdatesTyped, HistoryTyped
<1>4. PullFits(pull, library, installed', waiting)
  BY <1>0, <1>2 DEF PullFits
<1>5. PullFits(pull, library, installed, waiting)'
  BY <1>1, <1>4 DEF PullFits
<1>6. OffersFit'
  <2>1. SUFFICES ASSUME NEW n \in DOMAIN updates, updates[n] = installed'[n]
                 PROVE  n \in late' \cup waiting
    BY <1>1 DEF OffersFit
  <2>2. CASE n = m
    BY <2>1, <2>2, <1>1
  <2>3. CASE n # m
    BY <2>1, <2>3, <1>0, <1>1, <1>2 DEF UpdatesFit, OffersFit
  <2>4. QED
    BY <2>2, <2>3
<1>7. ~mixed' => OnceFits'
  BY <1>1, <1>2, SameLibrary
<1>8. QED
  BY <1>2, <1>3, <1>5, <1>6, <1>7 DEF UpdatesFit

LEMMA UpdatedFits ==
    ASSUME UpdatesFit, NEW m \in LocalModel, U!Updated(m)
    PROVE  UpdatesFit'
<1> DEFINE ms == DOMAIN updates \ {m}
           less == U!Restrict(updates, ms)
<1>0. updates \in VersionMap /\ ms \in SUBSET DOMAIN updates /\ PullFits(pull, library, installed, waiting)
      /\ pull.done \in BOOLEAN
  BY UpdateFacts DEF UpdatesFit
<1>1. /\ pull.done /\ updates' = less /\ waiting' = waiting \ {m}
      /\ UNCHANGED <<library, installed, pull, seen, told, mixed, unsaved, late>>
  BY DEF U!Updated
<1>c. /\ check' \in [Checker -> CheckState] /\ \A c \in Checker : GoesOn(check'[c], check[c])
      /\ ChecksFit'
  <2>1. PICK ns \in SUBSET LocalModel :
          check' = [c \in Checker |-> IF U!Announcing(c) /\ m \in DOMAIN updates THEN CSkips(check[c], ns) ELSE check[c]]
    BY DEF U!Updated, CSkips
  <2>2. ASSUME NEW c \in Checker
        PROVE  check'[c] \in CheckState /\ GoesOn(check'[c], check[c]) /\ CheckFits(check'[c], library, installed)
    <3>1. check[c] \in CheckState /\ CheckFits(check[c], library, installed)
      BY UpdateFacts
    <3>2. CASE check'[c] = check[c]
      BY <3>1, <3>2 DEF GoesOn
    <3>3. CASE check'[c] = CSkips(check[c], ns)
      <4> DEFINE q == CSkips(check[c], ns)
      <4>1. /\ q \in CheckState /\ q.at = check[c].at /\ q.local = check[c].local /\ q.found = check[c].found
            /\ q.seen = check[c].seen /\ q.left = check[c].left \ ns /\ q.late = check[c].late
            /\ q.todo = check[c].todo
        BY <3>1, CSkipsFields
      <4>2. check'[c] = q
        BY <3>3
      <4> HIDE DEF q
      <4>3. QED
        BY <4>1, <4>2, <3>1 DEF GoesOn, CheckFits
    <3>4. QED
      BY <3>2, <3>3, <2>1
  <2>3. check' \in [Checker -> CheckState]
    BY <2>1, <2>2
  <2>4. ChecksFit'
    BY <2>2, <1>1 DEF ChecksFit, CheckFits
  <2>5. QED
    BY <2>2, <2>3, <2>4
<1>2. less \in VersionMap /\ DOMAIN less = ms /\ \A n \in ms : less[n] = updates[n]
  BY <1>0, Less
<1>3. ms = DOMAIN updates \ {m}
  OBVIOUS
<1> HIDE DEF less, ms
<1>4. UpdatesTyped'
  BY <1>1, <1>2, <1>c DEF UpdatesFit, UpdatesTyped, HistoryTyped
<1>5. pull.step # "pulling"
  BY <1>0, <1>1 DEF PullFits
<1>6. PullFits(pull, library, installed, waiting)'
  BY <1>0, <1>1, <1>5 DEF PullFits
<1>8. OffersFit'
  BY <1>1, <1>2, <1>3 DEF UpdatesFit, OffersFit
<1>9. ~mixed' => OnceFits'
  BY <1>1, <1>c, SameLibrary
<1>10. QED
  BY <1>4, <1>6, <1>c, <1>8, <1>9 DEF UpdatesFit

LEMMA DeleteFits ==
    ASSUME UpdatesFit, NEW m \in LocalModel, U!Delete(m) \/ U!OthersDelete(m)
    PROVE  UpdatesFit'
<1> DEFINE p == IF pull.model = m THEN PForgets(pull) ELSE pull
<1>0. /\ pull \in PullState /\ PullFits(pull, library, installed, waiting)
      /\ installed \in [LocalModel -> 0..LastVersion] /\ updates \in VersionMap
      /\ DOMAIN updates \subseteq LocalModel /\ \A n \in DOMAIN updates : updates[n] \in Versions
      /\ library \in [LocalModel -> Versions] /\ \A c \in Checker : CheckFits(check[c], library, installed)
  BY UpdateFacts, Maps DEF UpdatesFit
<1>zero. 0 \in 0..LastVersion
  BY UpdatesAssumption
<1>1. /\ pull' = p /\ installed' = [installed EXCEPT ![m] = 0]
      /\ UNCHANGED <<library, check, updates, seen, waiting, told, mixed, unsaved, late>>
  BY DEF U!Delete, U!OthersDelete, U!Gone, PForgets
<1>2. /\ PForgets(pull) \in PullState /\ PForgets(pull).step = pull.step /\ PForgets(pull).active = pull.active
      /\ PForgets(pull).done = pull.done /\ PForgets(pull).failed = pull.failed /\ PForgets(pull).model = pull.model
      /\ PForgets(pull).least = 0
  BY <1>0, PullFields
<1>3. installed' \in [LocalModel -> 0..LastVersion]
      /\ \A n \in LocalModel : installed'[n] = IF n = m THEN 0 ELSE installed[n]
  BY <1>0, <1>zero, <1>1
<1>4. p \in PullState /\ PullFits(p, library, installed', waiting)
  <2>1. CASE pull.model = m
    <3>1. library[m] \in Nat /\ 0 <= library[m]
      BY <1>0 DEF Versions
    <3>2. p = PForgets(pull) /\ installed'[m] = 0
      BY <2>1, <1>3
    <3>3. QED
      BY <2>1, <3>1, <3>2, <1>0, <1>2 DEF PullFits
  <2>2. CASE pull.model # m
    <3>1. p = pull
      BY <2>2
    <3>2. QED
      BY <2>2, <3>1, <1>0, <1>3 DEF PullFits
  <2>3. QED
    BY <2>1, <2>2
<1> HIDE DEF p
<1>5. UpdatesTyped'
  BY <1>1, <1>3, <1>4 DEF UpdatesFit, UpdatesTyped, HistoryTyped
<1>6. PullFits(pull, library, installed, waiting)'
  BY <1>1, <1>4 DEF PullFits
<1>7. ChecksFit'
  <2>1. SUFFICES ASSUME NEW c \in Checker
                 PROVE  CheckFits(check[c], library, installed')
    BY <1>1 DEF ChecksFit, CheckFits
  <2>2. CheckFits(check[c], library, installed) /\ check[c].todo \subseteq LocalModel
        /\ DOMAIN check[c].found \subseteq LocalModel
    BY <1>0, UpdateFacts
  <2>3. \A n \in DOMAIN check[c].found : check[c].found[n] # 0
    <3>1. check[c].found \in VersionMap
      BY UpdateFacts
    <3>2. QED
      BY <3>1, Maps DEF Versions
  <2>4. QED
    BY <2>2, <2>3, <1>3 DEF CheckFits
<1>8. OffersFit'
  <2>1. SUFFICES ASSUME NEW n \in DOMAIN updates, updates[n] = installed'[n]
                 PROVE  n \in late \cup waiting
    BY <1>1 DEF OffersFit
  <2>2. n # m
    BY <2>1, <1>0, <1>3 DEF Versions
  <2>3. QED
    BY <2>1, <2>2, <1>0, <1>3 DEF UpdatesFit, OffersFit
<1>9. ~mixed' => OnceFits'
  BY <1>1, SameLibrary, SameChecks
<1>10. QED
  BY <1>5, <1>6, <1>7, <1>8, <1>9 DEF UpdatesFit

LEMMA NewVersionFits ==
    ASSUME UpdatesFit, NEW m \in LocalModel, U!NewVersion(m)
    PROVE  UpdatesFit'
<1>0. library \in [LocalModel -> Versions] /\ PullFits(pull, library, installed, waiting) /\ pull.least \in 0..LastVersion
      /\ \A c \in Checker : CheckFits(check[c], library, installed) /\ check[c].found \in VersionMap
  BY UpdateFacts DEF UpdatesFit
<1>1. /\ library[m] < LastVersion /\ library' = [library EXCEPT ![m] = library[m] + 1]
      /\ UNCHANGED <<installed, pull, check, updates, seen, waiting, told, mixed, unsaved, late>>
  BY <1>0 DEF U!NewVersion
<1>2. library[m] \in Versions
  BY <1>0
<1> DEFINE v == library[m] + 1
<1>3. v \in Versions /\ library[m] <= v
  BY <1>1, <1>2, UpdatesAssumption DEF Versions
<1>4. library' = [library EXCEPT ![m] = v]
  BY <1>1
<1> HIDE DEF v
<1>5. library' \in [LocalModel -> Versions] /\ \A n \in LocalModel : library'[n] = IF n = m THEN v ELSE library[n]
  BY <1>0, <1>3, <1>4
<1>6. \A n \in LocalModel : library[n] <= library'[n]
  <2>1. SUFFICES ASSUME NEW n \in LocalModel
                 PROVE  library[n] <= library'[n]
    OBVIOUS
  <2>2. library[n] \in Versions
    BY <1>0
  <2>3. library[n] <= library[n]
    BY <2>2 DEF Versions
  <2>4. QED
    BY <2>3, <1>3, <1>5
<1>7. \A n \in LocalModel, k \in 0..LastVersion : k <= library[n] => k <= library'[n]
  <2>1. SUFFICES ASSUME NEW n \in LocalModel, NEW k \in 0..LastVersion, k <= library[n]
                 PROVE  k <= library'[n]
    OBVIOUS
  <2>2. library[n] \in Versions /\ library'[n] \in Versions /\ library[n] <= library'[n]
    BY <1>0, <1>5, <1>6
  <2>3. QED
    BY <2>1, <2>2 DEF Versions
<1>8. UpdatesTyped'
  BY <1>1, <1>5 DEF UpdatesFit, UpdatesTyped, HistoryTyped
<1>9. PullFits(pull, library', installed, waiting)
  BY <1>0, <1>7 DEF PullFits
<1>10. PullFits(pull, library, installed, waiting)'
  BY <1>1, <1>9 DEF PullFits
<1>11. ChecksFit'
  <2>1. SUFFICES ASSUME NEW c \in Checker
                 PROVE  CheckFits(check[c], library', installed)
    BY <1>1 DEF ChecksFit, CheckFits
  <2>2. CheckFits(check[c], library, installed) /\ check[c].found \in VersionMap
    BY <1>0
  <2>3. \A n \in DOMAIN check[c].found : n \in LocalModel /\ check[c].found[n] \in 0..LastVersion
    BY <2>2, Maps DEF Versions
  <2>4. \A n \in DOMAIN check[c].found : check[c].found[n] <= library'[n]
    BY <2>2, <2>3, <1>7 DEF CheckFits
  <2>5. QED
    BY <2>2, <2>4 DEF CheckFits
<1>12. OffersFit'
  BY <1>1, OffersStay
<1>13. ~mixed' => OnceFits'
  BY <1>1, <1>5, <1>6, OnceStays, SameChecks
<1>14. QED
  BY <1>8, <1>10, <1>11, <1>12, <1>13 DEF UpdatesFit

LEMMA UpdatesRestart ==
    ASSUME UpdatesFit, U!Restart
    PROVE  UpdatesFit'
<1>1. /\ mixed' = (mixed \/ \E c \in Checker : U!Announcing(c))
      /\ pull' = U!NoPull /\ check' = [c \in Checker |-> U!NoCheck]
      /\ updates' = U!Nothing /\ waiting' = {} /\ late' = {}
      /\ told' = IF mixed' THEN [x \in LocalModel \X Versions |-> 0] ELSE told
      /\ unsaved' = IF mixed' THEN {} ELSE unsaved
      /\ UNCHANGED <<library, installed, seen>>
  BY DEF U!Restart, U!Counts, U!Version, Versions
<1> DEFINE q == U!NoCheck
           p == U!NoPull
<1>2. q \in CheckState /\ q.at = "idle" /\ DOMAIN q.found = {} /\ check' = [c \in Checker |-> q]
  BY <1>1, IdleCheck
<1>3. p \in PullState /\ p.step = "none" /\ ~p.done /\ ~p.active /\ pull' = p
  BY <1>1, IdlePull
<1> HIDE DEF q, p
<1>4. check' \in [Checker -> CheckState] /\ \A c \in Checker : check'[c] = q
  BY <1>2
<1>5. mixed' \in BOOLEAN /\ updates' \in VersionMap /\ DOMAIN updates' = {}
  BY <1>1, Maps
<1>13. HistoryTyped' /\ (~mixed' => UNCHANGED <<told, unsaved>>)
  BY <1>1, <1>5, ForgetsHistory, UpdateFacts
<1>6. UpdatesTyped'
  BY <1>1, <1>3, <1>4, <1>5, <1>13 DEF UpdatesFit, UpdatesTyped, HistoryTyped
<1>7. PullFits(pull, library, installed, waiting)'
  BY <1>3 DEF PullFits
<1>8. CheckFits(q, library, installed) /\ NotTold(q, told) /\ ~Announces(q)
  BY <1>2 DEF CheckFits, NotTold, Announces
<1>9. ChecksFit'
  BY <1>1, <1>4, <1>8 DEF ChecksFit, CheckFits
<1>10. OffersFit'
  BY <1>5 DEF OffersFit
<1>11. ASSUME ~mixed'
       PROVE  OnceFits'
  <2>1. ~mixed /\ told' = told /\ unsaved' = unsaved /\ \A c \in Checker : check[c].at # "announce"
    BY <1>1, <1>11, <1>13 DEF U!Announcing
  <2>2. OnceFits
    BY <2>1 DEF UpdatesFit
  <2>3. OneAnnounces' /\ AskersAreLate'
    BY <1>4, <1>8 DEF OneAnnounces, AskersAreLate
  <2>4. NoneIsTold'
    BY <2>1, <1>4, <1>8 DEF NoneIsTold
  <2>5. TellerKnows'
    BY <1>2, <1>4 DEF TellerKnows
  <2>6. SavedFits' /\ ToldIsThere' /\ ToldOnce'
    BY <2>1, <2>2, <1>1 DEF OnceFits, SavedFits, Tells, ToldIsThere, ToldOnce
  <2>7. QED
    BY <2>3, <2>4, <2>5, <2>6 DEF OnceFits
<1>12. QED
  BY <1>6, <1>7, <1>9, <1>10, <1>11 DEF UpdatesFit

LEMMA UpdatesBegin ==
    ASSUME U!Init
    PROVE  UpdatesFit
<1> DEFINE q == U!NoCheck
           p == U!NoPull
           none == U!Nothing
<1>1. /\ library = [m \in LocalModel |-> 1] /\ installed = [m \in LocalModel |-> 1]
      /\ pull = p /\ check = [c \in Checker |-> q]
      /\ updates = none /\ seen = none /\ waiting = {} /\ late = {} /\ unsaved = {} /\ mixed = FALSE
      /\ told = [x \in LocalModel \X Versions |-> 0]
  BY DEF U!Init, U!Version, Versions
<1>2. q \in CheckState /\ q.at = "idle" /\ DOMAIN q.found = {}
  BY IdleCheck
<1>3. p \in PullState /\ p.step = "none" /\ ~p.done /\ ~p.active
  BY IdlePull
<1>4. none \in VersionMap /\ DOMAIN none = {}
  BY Maps
<1> HIDE DEF q, p, none
<1>5. 1 \in Versions /\ 1 \in 0..LastVersion /\ 0 \in 0..2
  BY UpdatesAssumption DEF Versions
<1>6. mixed \in BOOLEAN /\ told \in [LocalModel \X Versions -> 0..2]
  BY <1>1, <1>5
<1>7. UpdatesTyped
  BY <1>1, <1>2, <1>3, <1>4, <1>5, <1>6 DEF UpdatesTyped, HistoryTyped
<1>8. PullFits(pull, library, installed, waiting)
  BY <1>1, <1>3 DEF PullFits
<1>9. CheckFits(q, library, installed) /\ NotTold(q, told) /\ ~Announces(q)
  BY <1>2 DEF CheckFits, NotTold, Announces
<1>10. \A c \in Checker : check[c] = q
  BY <1>1
<1>11. ChecksFit
  BY <1>9, <1>10 DEF ChecksFit
<1>12. OffersFit
  BY <1>1, <1>4 DEF OffersFit
<1>13. \A m \in LocalModel, v \in Versions : told[<<m, v>>] = 0
  BY <1>1
<1>14. OneAnnounces /\ AskersAreLate /\ NoneIsTold
  BY <1>9, <1>10 DEF OneAnnounces, AskersAreLate, NoneIsTold
<1>15. TellerKnows
  BY <1>2, <1>10 DEF TellerKnows
<1>16. SavedFits
  BY <1>1, <1>4, <1>13 DEF SavedFits
<1>17. ToldIsThere /\ ToldOnce
  BY <1>13 DEF ToldIsThere, ToldOnce
<1>18. OnceFits
  BY <1>14, <1>15, <1>16, <1>17 DEF OnceFits
<1>19. QED
  BY <1>7, <1>8, <1>11, <1>12, <1>18 DEF UpdatesFit

LEMMA UpdatesGoOn ==
    ASSUME UpdatesFit, [U!Next]_(U!vars)
    PROVE  UpdatesFit'
<1>1. CASE U!Next
  <2>1. ASSUME NEW c \in Checker,
               \/ U!CheckUpdates(c) \/ U!Keep(c) \/ U!ReadSeen(c)
               \/ \E ok \in BOOLEAN : U!LocalDigests(c, ok) \/ U!WriteSeen(c, ok) \/ \E m \in LocalModel : U!RemoteDigest(c, m, ok)
               \/ \E m \in LocalModel : U!Announce(c, m)
        PROVE  UpdatesFit'
    <3>1. CASE U!CheckUpdates(c) \/ U!Keep(c) \/ U!ReadSeen(c)
      BY <3>1, BeginFits, KeepFits, SeenFits
    <3>2. ASSUME NEW ok \in BOOLEAN,
                 U!LocalDigests(c, ok) \/ U!WriteSeen(c, ok) \/ \E m \in LocalModel : U!RemoteDigest(c, m, ok)
          PROVE  UpdatesFit'
      BY <3>2, LocalFits, RemoteFits, WriteFits
    <3>3. ASSUME NEW m \in LocalModel, U!Announce(c, m)
          PROVE  UpdatesFit'
      BY <3>3, KnownFits, TellFits
    <3>4. QED
      BY <2>1, <3>1, <3>2, <3>3
  <2>2. ASSUME NEW m \in LocalModel,
               \/ U!StartPull(m) \/ U!Updated(m) \/ U!Delete(m) \/ U!OthersDelete(m) \/ U!OthersPull(m)
               \/ U!NewVersion(m)
        PROVE  UpdatesFit'
    BY <2>2, PullsFit, UpdatedFits, DeleteFits, OthersPullFits, NewVersionFits
  <2>3. CASE U!ServerInstalls \/ U!Success \/ U!PullFails \/ U!PullEnds \/ U!Restart
    BY <2>3, InstallFits, PullsFit, UpdatesRestart
  <2>4. QED
    BY <1>1, <2>1, <2>2, <2>3 DEF U!Next
<1>2. CASE UNCHANGED U!vars
  <2>1. UNCHANGED <<library, installed, pull, check, updates, seen, waiting, told, mixed, unsaved, late>>
    BY <1>2 DEF U!vars
  <2>2. UpdatesTyped'
    BY <2>1 DEF UpdatesFit, UpdatesTyped, HistoryTyped
  <2>3. PullFits(pull, library, installed, waiting)' /\ ChecksFit' /\ OffersFit'
    BY <2>1 DEF UpdatesFit, PullFits, ChecksFit, CheckFits, OffersFit
  <2>4. ~mixed' => OnceFits'
    BY <2>1, SameLibrary, SameChecks
  <2>5. QED
    BY <2>2, <2>3, <2>4 DEF UpdatesFit
<1>3. QED
  BY <1>1, <1>2

LEMMA UpdatesHold ==
    ASSUME UpdatesFit
    PROVE  U!TypeOK /\ U!AnnouncedOnce /\ U!DoneIsInstalled /\ U!OfferedIsNewer
<1>1. \A f \in VersionMap : U!VersionsOf(f)
  BY Maps DEF U!VersionsOf, U!Version, Versions
<1>2. PullFits(pull, library, installed, waiting) /\ pull \in PullState
  BY UpdateFacts DEF UpdatesFit
<1>3. pull.active = (pull.step # "none") /\ ~(pull.done /\ pull.failed)
  BY <1>2 DEF PullState, PullFits
<1>4. \A c \in Checker : check[c].at \in {"idle", "local", "ask", "seen", "announce"} /\ U!VersionsOf(check[c].found)
                          /\ check[c].late \subseteq LocalModel
  BY <1>1, UpdateFacts DEF CheckStep, CheckState
<1>5. U!TypeOK
  BY <1>1, <1>3, <1>4, UpdateFacts DEF U!TypeOK, U!Version, Versions, PullStep
<1>6. U!AnnouncedOnce
  BY DEF UpdatesFit, OnceFits, ToldOnce, U!AnnouncedOnce, U!Version, Versions
<1>7. U!DoneIsInstalled
  <2>1. ASSUME pull.done
        PROVE  pull.least <= installed[pull.model]
    BY <2>1, <1>2 DEF PullFits
  <2>2. ASSUME pull.done
        PROVE  installed[pull.model] \in 0..LastVersion /\ pull.least \in 0..LastVersion
    BY <2>2, <1>2, UpdateFacts DEF PullFits
  <2>3. QED
    BY <2>1, <2>2 DEF U!DoneIsInstalled
<1>8. U!OfferedIsNewer
  BY DEF UpdatesFit, OffersFit, U!OfferedIsNewer
<1>9. QED
  BY <1>5, <1>6, <1>7, <1>8

\* Local models (aitools/aitools.go, CheckUpdates and announce; ollama/pull.go): however many
\* models, checks and versions there are, whatever is downloaded or deleted beside NovelCheck, a
\* version is announced once unless two checks overlapped, one was cut off or its save failed, a
\* download that is done left at least the version there was when it began, unless the model was
\* deleted, and the page offers no version that is installed, but for one that came during the
\* check, was installed by others, or whose download the page has not reported yet.
THEOREM UpdatesStayTrue == Spec => []UpdatesAreTrue
<1> DEFINE Fit == running = "updates" => UpdatesFit
<1>1. Init => Fit
  BY UpdatesBegin DEF Init
<1>2. Fit /\ [Next]_vars => Fit'
  <2>1. ASSUME [Next]_vars, running' = "updates"
        PROVE  running = "updates" /\ [U!Next]_(U!vars)
    BY <2>1 DEF Next, vars, updateVars, U!vars
  <2>2. QED
    BY <2>1, UpdatesGoOn
<1>3. Fit => UpdatesAreTrue
  BY UpdatesHold DEF UpdatesAreTrue
<1>4. QED
  BY <1>1, <1>2, <1>3, PTL DEF Spec

-----------------------------------------------------------------------------
(* Speed tests and the look at the graphics card.                          *)

TestStep  == {"idle", "next", "rate", "part", "read", "write"}
TestState ==
    [at : TestStep, machine : Machine, left : SUBSET T!Model, model : T!Model \cup {Biggest},
     bench : T!Bench, all : [T!Key -> T!Bench]]
LookStep  == {"idle", "first", "load", "again", "unload"}
LookState == [at : LookStep, gone : BOOLEAN]

TestsTyped ==
    /\ benching \in BOOLEAN /\ results \in [T!Key -> T!Bench] /\ newest \in [T!Key -> T!Bench]
    /\ clock \in 0..MaxTests
    /\ tester \in [Tester -> TestState]
    /\ look \in [Page -> LookState]
    /\ loaded \subseteq T!Model \cup {Biggest}
    /\ ours \subseteq {Biggest}
    /\ unanswered \in BOOLEAN

\* A request that tests holds the flag, and no other does; what it is about to save with its
\* own test is what is saved.
OneTests ==
    /\ \A t \in Tester : tester[t].at # "idle" => benching
    /\ \A t, u \in Tester : tester[t].at # "idle" /\ tester[u].at # "idle" => t = u
ReadIsSaved == \A t \in Tester : tester[t].at = "write" => tester[t].all = results

\* Who loaded a model for a look has yet to unload it.
SomeoneLooks == ours # {} /\ ~unanswered => \E p \in Page : look[p].at \in {"again", "unload"}

BenchFits == OneTests /\ ReadIsSaved /\ results = newest
TestsFit  == TestsTyped /\ BenchFits /\ SomeoneLooks

-----------------------------------------------------------------------------

\* What a test and a look become.
TStarts(x, ms)    == [T!NoTest EXCEPT !.at = "next", !.machine = x, !.left = ms]
TTimed(p, m, b)   == [p EXCEPT !.at = "rate", !.left = p.left \ {m}, !.model = m, !.bench = b]
TCalled(p, ok)    == [p EXCEPT !.at = IF ok /\ @ = "rate" THEN "part" ELSE "read", !.bench.ok = ok /\ p.at = "part"]
TRead(p, all)     == [p EXCEPT !.at = "write", !.all = all]
TGoes(p, v)       == [p EXCEPT !.at = v]
LGoes(p, v)       == [p EXCEPT !.at = v]
LGone(p)          == [p EXCEPT !.gone = TRUE]

LEMMA Untested == T!Untested \in T!Bench
<1>1. 0 \in 0..MaxTests /\ FALSE \in BOOLEAN
  BY TestsAssumption
<1>2. QED
  BY <1>1 DEF T!Untested, T!Bench

LEMMA IdleTest == T!NoTest \in TestState /\ T!NoTest.at = "idle"
<1> DEFINE x == CHOOSE x \in Machine : TRUE
           f == [k \in T!Key |-> T!Untested]
<1>1. x \in Machine
  BY TestsAssumption
<1>2. f \in [T!Key -> T!Bench] /\ T!Untested \in T!Bench
  BY Untested
<1>3. {} \in SUBSET T!Model /\ Biggest \in T!Model \cup {Biggest} /\ "idle" \in TestStep
  BY DEF TestStep
<1>4. T!NoTest = [at |-> "idle", machine |-> x, left |-> {}, model |-> Biggest, bench |-> T!Untested, all |-> f]
  BY DEF T!NoTest
<1> HIDE DEF x, f
<1>5. QED
  BY <1>1, <1>2, <1>3, <1>4 DEF TestState

LEMMA IdleLook == T!NoLook \in LookState /\ T!NoLook.at = "idle"
<1>1. FALSE \in BOOLEAN /\ "idle" \in LookStep
  BY DEF LookStep
<1>2. QED
  BY <1>1 DEF T!NoLook, LookState

LEMMA TStartsFields ==
    ASSUME NEW x \in Machine, NEW ms \in SUBSET T!Model
    PROVE  TStarts(x, ms) \in TestState /\ TStarts(x, ms).at = "next"
  BY IdleTest DEF TestState, TestStep, TStarts

LEMMA TTimedFields ==
    ASSUME NEW p \in TestState, NEW m \in T!Model, NEW b \in T!Bench
    PROVE  TTimed(p, m, b) \in TestState /\ TTimed(p, m, b).at = "rate"
<1>1. m \in T!Model \cup {Biggest} /\ p.left \ {m} \in SUBSET T!Model
  BY DEF TestState
<1>2. QED
  BY <1>1 DEF TestState, TestStep, TTimed

LEMMA TCalledFields ==
    ASSUME NEW p \in TestState, NEW ok \in BOOLEAN
    PROVE  TCalled(p, ok) \in TestState /\ TCalled(p, ok).at \in {"part", "read"}
<1> DEFINE v == IF ok /\ p.at = "rate" THEN "part" ELSE "read"
           b == [p.bench EXCEPT !.ok = ok /\ p.at = "part"]
<1>1. v \in TestStep /\ v \in {"part", "read"}
  BY DEF TestStep
<1>2. (ok /\ p.at = "part") \in BOOLEAN /\ p.bench \in T!Bench
  BY DEF TestState
<1>3. b \in T!Bench
  BY <1>2 DEF T!Bench
<1>4. TCalled(p, ok) = [p EXCEPT !.at = v, !.bench = b]
  BY DEF TCalled, TestState
<1> HIDE DEF v, b
<1>5. QED
  BY <1>1, <1>3, <1>4 DEF TestState

LEMMA TReadFields ==
    ASSUME NEW p \in TestState, NEW all \in [T!Key -> T!Bench]
    PROVE  TRead(p, all) \in TestState /\ TRead(p, all).at = "write" /\ TRead(p, all).all = all
  BY DEF TestState, TestStep, TRead

LEMMA TGoesFields ==
    ASSUME NEW p \in TestState, NEW v \in TestStep
    PROVE  TGoes(p, v) \in TestState /\ TGoes(p, v).at = v
  BY DEF TestState, TGoes

LEMMA LookFields ==
    ASSUME NEW p \in LookState, NEW v \in LookStep
    PROVE  /\ LGoes(p, v) \in LookState /\ LGoes(p, v).at = v
           /\ LGone(p) \in LookState /\ LGone(p).at = p.at
<1>1. LGoes(p, v) \in LookState /\ LGoes(p, v).at = v
  BY DEF LookState, LGoes
<1>2. LGone(p) \in LookState /\ LGone(p).at = p.at
  BY DEF LookState, LGone
<1>3. QED
  BY <1>1, <1>2

LEMMA TestFacts ==
    ASSUME TestsFit
    PROVE  /\ benching \in BOOLEAN /\ results \in [T!Key -> T!Bench] /\ newest = results
           /\ clock \in 0..MaxTests /\ clock \in Nat /\ tester \in [Tester -> TestState] /\ look \in [Page -> LookState]
           /\ loaded \subseteq T!Model \cup {Biggest} /\ ours \subseteq {Biggest} /\ unanswered \in BOOLEAN
           /\ \A t \in Tester : /\ tester[t] \in TestState /\ tester[t].at \in TestStep /\ tester[t].machine \in Machine
                                /\ tester[t].model \in T!Model \cup {Biggest} /\ tester[t].bench \in T!Bench
                                /\ tester[t].all \in [T!Key -> T!Bench]
           /\ \A p \in Page : look[p] \in LookState /\ look[p].at \in LookStep
  BY TestsAssumption DEF TestsFit, BenchFits, TestsTyped, TestState, LookState

\* One request takes a step of its test; only the holder of the flag is at work.
LEMMA TestMoves ==
    ASSUME TestsFit, NEW t \in Tester, NEW p \in TestState, tester' = [tester EXCEPT ![t] = p],
           tester[t].at # "idle" \/ ~benching,
           benching' = (p.at # "idle"), p.at = "write" => p.all = results',
           results' \in [T!Key -> T!Bench], newest' = results', clock' \in 0..MaxTests,
           loaded' \subseteq T!Model \cup {Biggest}, ours' \subseteq ours, UNCHANGED <<look, unanswered>>
    PROVE  TestsFit'
<1>1. TestsTyped'
  BY DEF TestsFit, TestsTyped
<1>2. \A u \in Tester : tester'[u] = IF u = t THEN p ELSE tester[u]
  BY DEF TestsFit, TestsTyped
<1>3. \A u \in Tester : u # t => tester[u].at = "idle"
  BY DEF TestsFit, BenchFits, OneTests
<1>4. BenchFits'
  BY <1>2, <1>3 DEF BenchFits, OneTests, ReadIsSaved
<1>5. SomeoneLooks'
  BY DEF TestsFit, SomeoneLooks
<1>6. QED
  BY <1>1, <1>4, <1>5 DEF TestsFit

\* A page takes a step of its look, and the tests are left alone.
LEMMA LookMoves ==
    ASSUME TestsFit, look' \in [Page -> LookState], loaded' \subseteq T!Model \cup {Biggest},
           ours' \subseteq {Biggest}, unanswered' \in BOOLEAN, SomeoneLooks',
           UNCHANGED <<benching, tester, results, clock, newest>>
    PROVE  TestsFit'
<1>1. TestsTyped'
  BY DEF TestsFit, TestsTyped
<1>2. BenchFits'
  BY DEF TestsFit, BenchFits, OneTests, ReadIsSaved
<1>3. QED
  BY <1>1, <1>2 DEF TestsFit

LEMMA StartFits ==
    ASSUME TestsFit, NEW t \in Tester, NEW x \in Machine, T!StartBench(t, x)
    PROVE  TestsFit'
<1> DEFINE p == TStarts(x, TestedModels[x])
<1>1. TestedModels[x] \in SUBSET T!Model
  BY DEF T!Model
<1>2. p \in TestState /\ p.at = "next"
  BY <1>1, TStartsFields
<1>3. /\ tester' = [tester EXCEPT ![t] = p] /\ ~benching /\ benching' = TRUE
      /\ UNCHANGED <<results, clock, loaded, look, newest, ours, unanswered>>
  BY DEF T!StartBench, T!NotBusy, TStarts
<1> HIDE DEF p
<1>4. QED
  BY <1>2, <1>3, TestFacts, TestMoves

LEMMA TimeFits ==
    ASSUME TestsFit, NEW t \in Tester, NEW m \in T!Model, T!TimeModel(t, m)
    PROVE  TestsFit'
<1> DEFINE b == [at |-> clock + 1, ok |-> FALSE]
           p == TTimed(tester[t], m, b)
<1>1. clock + 1 \in 0..MaxTests /\ FALSE \in BOOLEAN
  BY TestFacts, TestsAssumption DEF T!TimeModel
<1>2. b \in T!Bench
  BY <1>1 DEF T!Bench
<1>3. /\ tester' = [tester EXCEPT ![t] = p] /\ clock' = clock + 1 /\ tester[t].at = "next"
      /\ UNCHANGED <<benching, results, loaded, look, newest, ours, unanswered>>
  BY TestFacts DEF T!TimeModel, TTimed
<1> HIDE DEF b
<1>4. p \in TestState /\ p.at = "rate"
  BY <1>2, TestFacts, TTimedFields
<1> HIDE DEF p
<1>5. benching = TRUE
  BY <1>3, TestFacts DEF TestsFit, BenchFits, OneTests
<1>6. QED
  BY <1>1, <1>3, <1>4, <1>5, TestFacts, TestMoves

LEMMA CallFits ==
    ASSUME TestsFit, NEW t \in Tester, NEW ok \in BOOLEAN, T!Call(t, ok)
    PROVE  TestsFit'
<1> DEFINE p == TCalled(tester[t], ok)
<1>1. /\ tester' = [tester EXCEPT ![t] = p] /\ tester[t].at # "idle"
      /\ UNCHANGED <<benching, results, clock, look, newest, unanswered>>
  BY TestFacts, ZenonT(60) DEF T!Call, TCalled
<1>2. /\ loaded' = (IF ok THEN loaded \cup {tester[t].model} ELSE loaded)
      /\ ours' = ours \ {tester[t].model}
  BY DEF T!Call
<1>3. p \in TestState /\ p.at \in {"part", "read"}
  BY TestFacts, TCalledFields
<1> HIDE DEF p
<1>4. benching = TRUE
  BY <1>1, TestFacts DEF TestsFit, BenchFits, OneTests
<1>5. loaded' \subseteq T!Model \cup {Biggest} /\ ours' \subseteq ours
  BY <1>2, TestFacts
<1>6. QED
  BY <1>1, <1>3, <1>4, <1>5, TestFacts, TestMoves

LEMMA ReadFits ==
    ASSUME TestsFit, NEW t \in Tester, T!ReadBenchmarks(t)
    PROVE  TestsFit'
<1> DEFINE p == TRead(tester[t], results)
<1>1. /\ tester' = [tester EXCEPT ![t] = p] /\ tester[t].at = "read"
      /\ UNCHANGED <<benching, results, clock, loaded, look, newest, ours, unanswered>>
  BY TestFacts DEF T!ReadBenchmarks, TRead
<1>2. p \in TestState /\ p.at = "write" /\ p.all = results
  BY TestFacts, TReadFields
<1> HIDE DEF p
<1>3. benching = TRUE
  BY <1>1, TestFacts DEF TestsFit, BenchFits, OneTests
<1>4. QED
  BY <1>1, <1>2, <1>3, TestFacts, TestMoves

LEMMA SaveBenchFits ==
    ASSUME TestsFit, NEW t \in Tester, NEW ok \in BOOLEAN, T!SaveBench(t, ok)
    PROVE  TestsFit'
<1> DEFINE p == TGoes(tester[t], "next")
           k == <<tester[t].machine, tester[t].model>>
<1>1. /\ tester' = [tester EXCEPT ![t] = p] /\ tester[t].at = "write"
      /\ UNCHANGED <<benching, clock, loaded, look, ours, unanswered>>
  BY TestFacts DEF T!SaveBench, TGoes
<1>2. /\ results' = (IF ok THEN [tester[t].all EXCEPT ![k] = tester[t].bench] ELSE results)
      /\ newest' = (IF ok THEN [newest EXCEPT ![k] = tester[t].bench] ELSE newest)
  BY DEF T!SaveBench
<1>3. tester[t].all = results /\ newest = results
  BY <1>1 DEF TestsFit, BenchFits, ReadIsSaved
<1>4. "next" \in TestStep
  BY DEF TestStep
<1>5. p \in TestState /\ p.at = "next"
  BY <1>4, TestFacts, TGoesFields
<1> HIDE DEF p, k
<1>6. newest' = results'
  BY <1>2, <1>3
<1>7. results' \in [T!Key -> T!Bench]
  <2>1. tester[t].bench \in T!Bench /\ results \in [T!Key -> T!Bench]
    BY TestFacts
  <2>2. [results EXCEPT ![k] = tester[t].bench] \in [T!Key -> T!Bench]
    BY <2>1
  <2>3. QED
    BY <2>1, <2>2, <1>2, <1>3
<1>8. benching = TRUE
  BY <1>1, TestFacts DEF TestsFit, BenchFits, OneTests
<1>9. QED
  BY <1>1, <1>5, <1>6, <1>7, <1>8, TestFacts, TestMoves

LEMMA EndFits ==
    ASSUME TestsFit, NEW t \in Tester, T!BenchEnds(t)
    PROVE  TestsFit'
<1>1. /\ tester' = [tester EXCEPT ![t] = T!NoTest] /\ tester[t].at # "idle" /\ benching' = FALSE
      /\ UNCHANGED <<results, clock, loaded, look, newest, ours, unanswered>>
  BY DEF T!BenchEnds
<1>2. QED
  BY <1>1, IdleTest, TestFacts, TestMoves

-----------------------------------------------------------------------------

\* A look that holds no model of its own goes elsewhere.
LEMMA LookFits ==
    ASSUME TestsFit, NEW p \in Page, NEW q \in LookState, look' = [look EXCEPT ![p] = q],
           \/ look[p].at \notin {"again", "unload"}
           \/ q.at \in {"again", "unload"},
           UNCHANGED <<benching, tester, results, clock, loaded, newest, ours, unanswered>>
    PROVE  TestsFit'
<1>1. look \in [Page -> LookState]
  BY TestFacts
<1>2. \A r \in Page : look'[r] = IF r = p THEN q ELSE look[r]
  BY <1>1
<1>3. look' \in [Page -> LookState]
  BY <1>1
<1>4. SomeoneLooks'
  <2>1. SUFFICES ASSUME ours # {}, ~unanswered
                 PROVE  \E r \in Page : look'[r].at \in {"again", "unload"}
    BY DEF SomeoneLooks
  <2>2. PICK r \in Page : look[r].at \in {"again", "unload"}
    BY <2>1 DEF TestsFit, SomeoneLooks
  <2>3. look'[r].at \in {"again", "unload"}
    BY <1>2, <2>2
  <2>4. QED
    BY <2>3
<1>5. QED
  BY <1>3, <1>4, TestFacts, LookMoves

LEMMA LooksFit ==
    ASSUME TestsFit, NEW p \in Page, NEW ok \in BOOLEAN, NEW there \in BOOLEAN,
           T!MeasureGPU(p) \/ T!Gone(p) \/ T!SecondLook(p) \/ T!FirstLook(p, ok)
    PROVE  TestsFit'
<1>0. look[p] \in LookState /\ look \in [Page -> LookState]
  BY TestFacts
<1>1. \A v \in LookStep : LGoes(look[p], v) \in LookState /\ LGoes(look[p], v).at = v
  BY <1>0, LookFields
<1>2. "first" \in LookStep /\ "load" \in LookStep /\ "unload" \in LookStep
  BY DEF LookStep
<1>3. CASE T!MeasureGPU(p)
  <2>1. look' = [look EXCEPT ![p] = LGoes(look[p], "first")] /\ look[p].at = "idle"
        /\ UNCHANGED <<benching, tester, results, clock, loaded, newest, ours, unanswered>>
    BY <1>0, <1>3 DEF T!MeasureGPU, T!At, LGoes
  <2>2. QED
    BY <2>1, <1>1, <1>2, LookFits
<1>4. CASE T!Gone(p)
  <2>1. look' = [look EXCEPT ![p] = LGone(look[p])]
        /\ UNCHANGED <<benching, tester, results, clock, loaded, newest, ours, unanswered>>
    BY <1>0, <1>4 DEF T!Gone, LGone
  <2>2. LGone(look[p]) \in LookState /\ LGone(look[p]).at = look[p].at
    BY <1>0, <1>2, LookFields
  <2>3. QED
    BY <2>1, <2>2, LookFits
<1>5. CASE T!SecondLook(p)
  <2>1. look' = [look EXCEPT ![p] = LGoes(look[p], "unload")]
        /\ UNCHANGED <<benching, tester, results, clock, loaded, newest, ours, unanswered>>
    BY <1>0, <1>5 DEF T!SecondLook, T!At, LGoes
  <2>2. QED
    BY <2>1, <1>1, <1>2, LookFits
<1>6. CASE T!FirstLook(p, ok)
  <2>1. look[p].at = "first"
        /\ UNCHANGED <<benching, tester, results, clock, loaded, newest, ours, unanswered>>
    BY <1>6 DEF T!FirstLook
  <2>2. look' = [look EXCEPT ![p] = T!NoLook] \/ look' = [look EXCEPT ![p] = LGoes(look[p], "load")]
    BY <1>0, <1>6 DEF T!FirstLook, T!Answer, T!At, LGoes
  <2>3. CASE look' = [look EXCEPT ![p] = T!NoLook]
    BY <2>1, <2>3, IdleLook, LookFits
  <2>4. CASE look' = [look EXCEPT ![p] = LGoes(look[p], "load")]
    BY <2>1, <2>4, <1>1, <1>2, LookFits
  <2>5. QED
    BY <2>2, <2>3, <2>4
<1>7. QED
  BY <1>3, <1>4, <1>5, <1>6

LEMMA LoadFits ==
    ASSUME TestsFit, NEW p \in Page, NEW ok \in BOOLEAN, NEW there \in BOOLEAN, T!Load(p, ok, there)
    PROVE  TestsFit'
<1>0. look[p] \in LookState /\ look \in [Page -> LookState] /\ look[p].at = "load"
      /\ UNCHANGED <<benching, tester, results, clock, newest>>
  BY TestFacts DEF T!Load
<1>1. /\ ok => there
      /\ loaded' = (IF there THEN loaded \cup {Biggest} ELSE loaded)
      /\ ours' = (IF there /\ Biggest \notin loaded THEN ours \cup {Biggest} ELSE ours)
      /\ unanswered' = (unanswered \/ (there /\ ~ok))
  BY DEF T!Load
<1>2. loaded' \subseteq T!Model \cup {Biggest} /\ ours' \subseteq {Biggest} /\ unanswered' \in BOOLEAN
  BY <1>1, TestFacts
<1>3. CASE ok
  <2>1. "again" \in LookStep
    BY DEF LookStep
  <2>2. look' = [look EXCEPT ![p] = LGoes(look[p], "again")]
    BY <1>0, <1>3 DEF T!Load, T!At, LGoes
  <2>3. LGoes(look[p], "again") \in LookState /\ LGoes(look[p], "again").at = "again"
    BY <1>0, <2>1, LookFields
  <2>4. look' \in [Page -> LookState] /\ look'[p].at = "again"
    BY <1>0, <2>2, <2>3
  <2>5. SomeoneLooks'
    BY <2>4 DEF SomeoneLooks
  <2>6. QED
    BY <1>0, <1>2, <2>4, <2>5, LookMoves
<1>4. CASE ~ok
  <2>1. look' = [look EXCEPT ![p] = T!NoLook]
    BY <1>4 DEF T!Load, T!Answer
  <2>2. look' \in [Page -> LookState] /\ \A r \in Page : r # p => look'[r] = look[r]
    BY <1>0, <2>1, IdleLook
  <2>3. SomeoneLooks'
    <3>1. SUFFICES ASSUME ours' # {}, ~unanswered'
                   PROVE  \E r \in Page : look'[r].at \in {"again", "unload"}
      BY DEF SomeoneLooks
    <3>2. ours # {} /\ ~unanswered
      BY <3>1, <1>1, <1>4
    <3>3. PICK r \in Page : look[r].at \in {"again", "unload"}
      BY <3>2 DEF TestsFit, SomeoneLooks
    <3>4. QED
      BY <3>3, <2>2, <1>0
  <2>4. QED
    BY <1>0, <1>2, <2>2, <2>3, LookMoves
<1>5. QED
  BY <1>3, <1>4

LEMMA UnloadFits ==
    ASSUME TestsFit, NEW p \in Page, NEW ok \in BOOLEAN, T!Unload(p, ok)
    PROVE  TestsFit'
<1>0. look \in [Page -> LookState] /\ UNCHANGED <<benching, tester, results, clock, newest>>
  BY TestFacts DEF T!Unload
<1>1. /\ look' = [look EXCEPT ![p] = T!NoLook]
      /\ loaded' = (IF ok THEN loaded \ {Biggest} ELSE loaded)
      /\ ours' = (IF ok THEN ours \ {Biggest} ELSE ours)
      /\ unanswered' = (unanswered \/ ~ok)
  BY DEF T!Unload, T!UnloadSent, T!Answer
<1>2. look' \in [Page -> LookState]
  BY <1>0, <1>1, IdleLook
<1>3. loaded' \subseteq T!Model \cup {Biggest} /\ ours' \subseteq {Biggest} /\ unanswered' \in BOOLEAN
  BY <1>1, TestFacts
<1>4. ours \subseteq {Biggest}
  BY TestFacts
<1>5. SomeoneLooks'
  BY <1>1, <1>4 DEF SomeoneLooks
<1>6. QED
  BY <1>0, <1>2, <1>3, <1>5, LookMoves

LEMMA ExpireFits ==
    ASSUME TestsFit, NEW m \in loaded, T!Expire(m)
    PROVE  TestsFit'
<1>1. /\ loaded' = loaded \ {m} /\ ours' = ours \ {m}
      /\ UNCHANGED <<benching, tester, results, clock, look, newest, unanswered>>
  BY DEF T!Expire
<1>2. loaded' \subseteq T!Model \cup {Biggest} /\ ours' \subseteq {Biggest} /\ unanswered' \in BOOLEAN
      /\ look' \in [Page -> LookState]
  BY <1>1, TestFacts
<1>3. SomeoneLooks'
  BY <1>1 DEF TestsFit, SomeoneLooks
<1>4. QED
  BY <1>1, <1>2, <1>3, LookMoves

LEMMA TestsRestart ==
    ASSUME TestsFit, T!Restart
    PROVE  TestsFit'
<1>1. /\ benching' = FALSE /\ tester' = [t \in Tester |-> T!NoTest] /\ look' = [p \in Page |-> T!NoLook]
      /\ unanswered' = (unanswered \/ \E p \in Page : look[p].at \in {"load", "again", "unload"})
      /\ UNCHANGED <<results, clock, loaded, newest, ours>>
  BY DEF T!Restart
<1>2. tester' \in [Tester -> TestState] /\ look' \in [Page -> LookState] /\ benching' \in BOOLEAN /\ unanswered' \in BOOLEAN
  BY <1>1, IdleTest, IdleLook
<1>3. TestsTyped'
  BY <1>1, <1>2 DEF TestsFit, TestsTyped
<1>4. \A t \in Tester : tester'[t].at = "idle"
  BY <1>1, IdleTest
<1>5. BenchFits'
  BY <1>1, <1>4 DEF TestsFit, BenchFits, OneTests, ReadIsSaved
<1>6. SomeoneLooks'
  BY <1>1 DEF TestsFit, SomeoneLooks
<1>7. QED
  BY <1>3, <1>5, <1>6 DEF TestsFit

LEMMA TestsBegin ==
    ASSUME T!Init
    PROVE  TestsFit
<1>1. /\ benching = FALSE /\ tester = [t \in Tester |-> T!NoTest] /\ look = [p \in Page |-> T!NoLook]
      /\ results = [k \in T!Key |-> T!Untested] /\ newest = results /\ clock = 0
      /\ loaded = {} /\ ours = {} /\ unanswered = FALSE
  BY DEF T!Init
<1>2. tester \in [Tester -> TestState] /\ look \in [Page -> LookState] /\ benching \in BOOLEAN /\ unanswered \in BOOLEAN
  BY <1>1, IdleTest, IdleLook
<1>3. results \in [T!Key -> T!Bench] /\ clock \in 0..MaxTests
  BY <1>1, Untested, TestsAssumption
<1>4. TestsTyped
  BY <1>1, <1>2, <1>3 DEF TestsTyped
<1>5. \A t \in Tester : tester[t].at = "idle"
  BY <1>1, IdleTest
<1>6. BenchFits /\ SomeoneLooks
  BY <1>1, <1>5 DEF BenchFits, OneTests, ReadIsSaved, SomeoneLooks
<1>7. QED
  BY <1>4, <1>6 DEF TestsFit

LEMMA TestsGoOn ==
    ASSUME TestsFit, [T!Next]_(T!vars)
    PROVE  TestsFit'
<1>1. CASE T!Next
  <2>1. ASSUME NEW t \in Tester,
               \/ \E x \in Machine : T!StartBench(t, x)
               \/ \E m \in T!Model : T!TimeModel(t, m)
               \/ T!ReadBenchmarks(t) \/ T!BenchEnds(t)
               \/ \E ok \in BOOLEAN : T!Call(t, ok) \/ T!SaveBench(t, ok)
        PROVE  TestsFit'
    BY <2>1, StartFits, TimeFits, ReadFits, EndFits, CallFits, SaveBenchFits
  <2>2. ASSUME NEW p \in Page,
               \/ T!MeasureGPU(p) \/ T!Gone(p) \/ T!SecondLook(p)
               \/ \E ok, there \in BOOLEAN : T!FirstLook(p, ok) \/ T!Load(p, ok, there) \/ T!Unload(p, ok)
        PROVE  TestsFit'
    <3>1. CASE T!MeasureGPU(p) \/ T!Gone(p) \/ T!SecondLook(p)
      <4>1. TRUE \in BOOLEAN
        OBVIOUS
      <4>2. QED
        BY <3>1, <4>1, LooksFit
    <3>2. ASSUME NEW ok \in BOOLEAN, NEW there \in BOOLEAN, T!FirstLook(p, ok) \/ T!Load(p, ok, there) \/ T!Unload(p, ok)
          PROVE  TestsFit'
      BY <3>2, LooksFit, LoadFits, UnloadFits
    <3>3. QED
      BY <2>2, <3>1, <3>2
  <2>3. ASSUME NEW m \in loaded, T!Expire(m)
        PROVE  TestsFit'
    BY <2>3, ExpireFits
  <2>4. QED
    BY <1>1, <2>1, <2>2, <2>3, TestsRestart DEF T!Next
<1>2. CASE UNCHANGED T!vars
  BY <1>2 DEF T!vars, TestsFit, TestsTyped, BenchFits, OneTests, ReadIsSaved, SomeoneLooks
<1>3. QED
  BY <1>1, <1>2

LEMMA TestsHold ==
    ASSUME TestsFit
    PROVE  T!TypeOK /\ T!BenchKept /\ T!MeasuredIsUnloaded
<1>1. T!TypeOK
  BY DEF TestsFit, TestsTyped, TestState, TestStep, LookState, LookStep, T!TypeOK
<1>2. T!BenchKept
  BY DEF TestsFit, BenchFits, T!BenchKept
<1>3. T!MeasuredIsUnloaded
  BY DEF TestsFit, SomeoneLooks, T!MeasuredIsUnloaded
<1>4. QED
  BY <1>1, <1>2, <1>3

\* Speed tests (aitools/bench.go, its flag and SaveBench; ollama/gpu.go): however many requests,
\* machines, models and pages there are, no saved test is lost to another, and a model loaded only
\* for a look at the card is unloaded again, the page gone or not, unless the server does not
\* answer or the process ends.
THEOREM TestsKeepTheirResult == Spec => []TestsLeaveTheirResult
<1> DEFINE Fit == running = "tests" => TestsFit
<1>1. Init => Fit
  BY TestsBegin DEF Init
<1>2. Fit /\ [Next]_vars => Fit'
  <2>1. ASSUME [Next]_vars, running' = "tests"
        PROVE  running = "tests" /\ [T!Next]_(T!vars)
    BY <2>1 DEF Next, vars, testVars, T!vars
  <2>2. QED
    BY <2>1, TestsGoOn
<1>3. Fit => TestsLeaveTheirResult
  BY TestsHold DEF TestsLeaveTheirResult
<1>4. QED
  BY <1>1, <1>2, <1>3, PTL DEF Spec

-----------------------------------------------------------------------------
(* Sums over finite sets.                                                  *)

\* A set of numbers that has zero and with each number the next has them all.
LEMMA Climb ==
    ASSUME NEW G \in SUBSET Nat, 0 \in G, \A n \in G : n + 1 \in G
    PROVE  G = Nat
<1>1. SUFFICES ASSUME Nat \ G # {}
               PROVE  FALSE
  OBVIOUS
<1>2. PICK x \in Nat \ G : \A z \in Nat \ G : <<z, x>> \notin OpToRel(<, Nat)
  BY <1>1, NatLessThanWellFounded, WFMin
<1>3. x # 0 /\ x \in Nat
  BY <1>2
<1>4. x - 1 \in Nat /\ x - 1 < x
  BY <1>3
<1>5. x - 1 \in G
  BY <1>2, <1>4 DEF OpToRel
<1>6. (x - 1) + 1 \in G
  BY <1>5
<1>7. (x - 1) + 1 = x
  BY <1>3
<1>. QED
  BY <1>2, <1>6, <1>7

\* A function that is computed of a set by taking an element out, again and again.
Unfolds(A, V, base, step, pick, g) ==
    /\ g \in [SUBSET A -> V]
    /\ \A D \in SUBSET A : g[D] = IF D = {} THEN base ELSE step[<<pick[D], g[D \ {pick[D]}]>>]

\* What is computed of a finite set by taking an element out, again and again, exists.
LEMMA Unfolded ==
    ASSUME NEW A, IsFiniteSet(A), NEW V, NEW base \in V, NEW step \in [A \X V -> V],
           NEW pick, \A D \in SUBSET A : D # {} => pick[D] \in D
    PROVE  \E g : Unfolds(A, V, base, step, pick, g)
<1>. DEFINE Right(g, n) == \A D \in SUBSET A : Cardinality(D) <= n =>
                g[D] = IF D = {} THEN base ELSE step[<<pick[D], g[D \ {pick[D]}]>>]
            G == {n \in Nat : \E g \in [SUBSET A -> V] : Right(g, n)}
<1>0. \A D \in SUBSET A : IsFiniteSet(D) /\ Cardinality(D) \in Nat /\ Cardinality(D) <= Cardinality(A)
  BY FS_Subset, FS_CardinalityType
<1>1. 0 \in G
  <2>. DEFINE g == [D \in SUBSET A |-> base]
  <2>1. g \in [SUBSET A -> V]
    OBVIOUS
  <2>2. \A D \in SUBSET A : Cardinality(D) <= 0 => D = {}
    BY <1>0, FS_EmptySet
  <2>3. Right(g, 0)
    BY <2>2
  <2>. QED
    BY <2>1, <2>3
<1>2. ASSUME NEW n \in G
      PROVE  n + 1 \in G
  <2>1. PICK g \in [SUBSET A -> V] : Right(g, n)
    OBVIOUS
  <2>. DEFINE Of(D) == IF D = {} THEN base ELSE step[<<pick[D], g[D \ {pick[D]}]>>]
              h == [D \in SUBSET A |-> Of(D)]
  <2>2. ASSUME NEW D \in SUBSET A
        PROVE  Of(D) \in V
    <3>1. D # {} => g[D \ {pick[D]}] \in V /\ pick[D] \in A
      OBVIOUS
    <3>. QED
      BY <3>1
  <2>3. h \in [SUBSET A -> V]
    BY <2>2
  <2>4. ASSUME NEW D \in SUBSET A, D # {}, Cardinality(D) <= n + 1
        PROVE  h[D \ {pick[D]}] = g[D \ {pick[D]}]
    <3>1. pick[D] \in D /\ D \ {pick[D]} \in SUBSET A
      BY <2>4
    <3>2. Cardinality(D \ {pick[D]}) = Cardinality(D) - 1
      BY <1>0, <3>1, FS_RemoveElement
    <3>3. Cardinality(D \ {pick[D]}) <= n
      BY <1>0, <3>2, <2>4
    <3>4. g[D \ {pick[D]}] = Of(D \ {pick[D]})
      BY <2>1, <3>1, <3>3
    <3>. QED
      BY <3>4, <3>1
  <2>5. Right(h, n + 1)
    <3>1. SUFFICES ASSUME NEW D \in SUBSET A, Cardinality(D) <= n + 1
                   PROVE  h[D] = IF D = {} THEN base ELSE step[<<pick[D], h[D \ {pick[D]}]>>]
      OBVIOUS
    <3>. QED
      BY <2>4, <3>1
  <2>. HIDE DEF h, Right
  <2>6. \E k \in [SUBSET A -> V] : Right(k, n + 1)
    BY <2>3, <2>5
  <2>. QED
    BY <2>6
<1>3. Cardinality(A) \in G
  <2>. HIDE DEF G
  <2>1. G \in SUBSET Nat
    BY DEF G
  <2>2. G = Nat
    BY <1>1, <1>2, <2>1, Climb
  <2>. QED
    BY <2>2, <1>0
<1>4. PICK g \in [SUBSET A -> V] : Right(g, Cardinality(A))
  BY <1>3
<1>5. Unfolds(A, V, base, step, pick, g)
  BY <1>4, <1>0 DEF Unfolds
<1>. QED
  BY <1>5

\* One step of a sum over the subsets of a set.
SumStep(A, f, g) ==
    [D \in SUBSET A |-> IF D = {} THEN 0
        ELSE f[CHOOSE x \in D : TRUE] + g[D \ {CHOOSE x \in D : TRUE}]]

\* A sum over a finite set is taken one element at a time.
LEMMA SumExists ==
    ASSUME NEW A, IsFiniteSet(A), NEW f \in [A -> Int]
    PROVE  \E g : g = SumStep(A, f, g)
<1>. DEFINE pick == [D \in SUBSET A |-> CHOOSE x \in D : TRUE]
            step == [p \in A \X Int |-> f[p[1]] + p[2]]
<1>1. step \in [A \X Int -> Int]
  OBVIOUS
<1>2. \A D \in SUBSET A : D # {} => pick[D] \in D
  OBVIOUS
<1>3. \A D \in SUBSET A : pick[D] = CHOOSE x \in D : TRUE
  OBVIOUS
<1>4. \A a \in A, v \in Int : step[<<a, v>>] = f[a] + v
  OBVIOUS
<1>. HIDE DEF pick, step
<1>9. 0 \in Int
  OBVIOUS
<1>8. \E g : Unfolds(A, Int, 0, step, pick, g)
  BY <1>1, <1>2, <1>9, Unfolded
<1>5. PICK g : Unfolds(A, Int, 0, step, pick, g)
  BY <1>8
<1>6. ASSUME NEW D \in SUBSET A
      PROVE  g[D] = IF D = {} THEN 0 ELSE f[CHOOSE x \in D : TRUE] + g[D \ {CHOOSE x \in D : TRUE}]
  <2>1. CASE D = {}
    BY <2>1, <1>5 DEF Unfolds
  <2>2. CASE D # {}
    <3>1. pick[D] \in A /\ g[D \ {pick[D]}] \in Int
      BY <2>2, <1>2, <1>5 DEF Unfolds
    <3>2. g[D] = f[pick[D]] + g[D \ {pick[D]}]
      BY <3>1, <1>4, <1>5, <2>2 DEF Unfolds
    <3>. QED
      BY <3>2, <1>3, <2>2
  <2>. QED
    BY <2>1, <2>2
<1>7. g = SumStep(A, f, g)
  BY <1>5, <1>6 DEF SumStep, Unfolds
<1>. QED
  BY <1>7

\* A sum over the subsets of a set, one element at a time.
IsSum(A, f, g) ==
    /\ g[{}] = 0
    /\ \A D \in SUBSET A : g[D] \in Int /\ (D # {} => \E x \in D : g[D] = f[x] + g[D \ {x}])

\* What takes this step is such a sum.
LEMMA SumSteps ==
    ASSUME NEW A, IsFiniteSet(A), NEW f \in [A -> Int], NEW g,
           g = SumStep(A, f, g)
    PROVE  IsSum(A, f, g)
<1>. USE DEF SumStep
<1>. DEFINE G == {n \in Nat : \A D \in SUBSET A : Cardinality(D) <= n => g[D] \in Int}
<1>0. \A D \in SUBSET A : IsFiniteSet(D) /\ Cardinality(D) \in Nat /\ Cardinality(D) <= Cardinality(A)
  BY FS_Subset, FS_CardinalityType
<1>1. g[{}] = 0
  OBVIOUS
<1>2. ASSUME NEW D \in SUBSET A, D # {}
      PROVE  \E x \in D : g[D] = f[x] + g[D \ {x}]
  <2>1. (CHOOSE x \in D : TRUE) \in D
    BY <1>2
  <2>. QED
    BY <2>1, <1>2
<1>3. 0 \in G
  <2>1. \A D \in SUBSET A : Cardinality(D) <= 0 => D = {}
    BY <1>0, FS_EmptySet
  <2>. QED
    BY <1>1, <2>1
<1>4. ASSUME NEW n \in G
      PROVE  n + 1 \in G
  <2>1. ASSUME NEW D \in SUBSET A, Cardinality(D) <= n + 1, D # {}
        PROVE  g[D] \in Int
    <3>1. PICK x \in D : g[D] = f[x] + g[D \ {x}]
      BY <1>2, <2>1
    <3>2. Cardinality(D \ {x}) = Cardinality(D) - 1
      BY <1>0, <3>1, FS_RemoveElement
    <3>3. D \ {x} \in SUBSET A /\ Cardinality(D \ {x}) <= n
      BY <1>0, <3>2, <2>1
    <3>4. g[D \ {x}] \in Int
      BY <3>3
    <3>. QED
      BY <3>1, <3>4
  <2>. QED
    BY <1>1, <2>1
<1>5. G = Nat
  <2>1. G \in SUBSET Nat
    OBVIOUS
  <2>. HIDE DEF G
  <2>. QED
    BY <1>3, <1>4, <2>1, Climb
<1>. QED
  BY <1>0, <1>1, <1>2, <1>5 DEF IsSum

\* A sum of which some terms are bounded, the others bring nothing, and one of them takes away.
LEMMA SumBounded ==
    ASSUME NEW A, IsFiniteSet(A), NEW f \in [A -> Int], NEW g, IsSum(A, f, g),
           NEW Good \in SUBSET A, NEW r \in A \ Good, NEW most \in Nat, NEW less \in Nat,
           \A x \in Good : f[x] <= most, \A x \in A \ Good : f[x] <= 0, f[r] = 0 - less
    PROVE  g[A] \in Int /\ g[A] <= most * Cardinality(Good) - less
<1>. DEFINE Bound(D) == most * Cardinality(D \cap Good) - (IF r \in D THEN less ELSE 0)
            G == {n \in Nat : \A D \in SUBSET A : Cardinality(D) <= n => g[D] <= Bound(D)}
<1>1. /\ g[{}] = 0
      /\ \A D \in SUBSET A : g[D] \in Int /\ (D # {} => \E x \in D : g[D] = f[x] + g[D \ {x}])
  BY DEF IsSum
<1>2. \A D \in SUBSET A : IsFiniteSet(D) /\ Cardinality(D) \in Nat
  BY FS_Subset, FS_CardinalityType
<1>9. \A D \in SUBSET A : IsFiniteSet(D \cap Good) /\ Cardinality(D \cap Good) \in Nat
  BY FS_Subset, FS_CardinalityType
<1>3. ASSUME NEW D \in SUBSET A, NEW x \in D, g[D \ {x}] <= Bound(D \ {x}), g[D] = f[x] + g[D \ {x}]
      PROVE  g[D] <= Bound(D)
  <2>1. g[D] \in Int /\ g[D \ {x}] \in Int /\ f[x] \in Int
    BY <1>1
  <2>2. PICK c \in Nat : c = Cardinality(D \cap Good)
    BY <1>9
  <2>3. CASE x \in Good
    <3>1. (D \ {x}) \cap Good = (D \cap Good) \ {x} /\ x \in D \cap Good
      BY <2>3
    <3>2. Cardinality((D \ {x}) \cap Good) = c - 1
      <4>1. IsFiniteSet(D \cap Good)
        BY <1>9
      <4>2. Cardinality((D \cap Good) \ {x}) = Cardinality(D \cap Good) - 1
        BY <3>1, <4>1, FS_RemoveElement
      <4>. QED
        BY <2>2, <3>1, <4>2
    <3>3. most * (c - 1) = most * c - most /\ most * c \in Int
      BY <2>2
    <3>4. x # r /\ f[x] <= most
      BY <2>3
    <3>5. Bound(D \ {x}) = Bound(D) - most /\ Bound(D) \in Int
      BY <2>2, <3>2, <3>3, <3>4
    <3>. HIDE DEF Bound
    <3>. QED
      BY <1>3, <2>1, <3>4, <3>5
  <2>4. CASE x \notin Good
    <3>1. (D \ {x}) \cap Good = D \cap Good
      BY <2>4
    <3>2. most * c \in Int
      BY <2>2
    <3>6. Cardinality((D \ {x}) \cap Good) = c
      BY <2>2, <3>1
    <3>3. f[x] <= 0
      BY <2>4
    <3>4. CASE x = r
      <4>1. Bound(D \ {x}) = most * c /\ Bound(D) = most * c - less
        <5>1. r \in D /\ r \notin D \ {x}
          BY <3>4
        <5>. QED
          BY <2>2, <3>2, <3>6, <5>1
      <4>2. f[x] = 0 - less
        BY <3>4
      <4>. HIDE DEF Bound
      <4>. QED
        BY <1>3, <2>1, <3>2, <4>1, <4>2
    <3>5. CASE x # r
      <4>1. Bound(D \ {x}) = Bound(D) /\ Bound(D) \in Int
        <5>1. r \in D <=> r \in D \ {x}
          BY <3>5
        <5>. QED
          BY <2>2, <3>2, <3>6, <5>1
      <4>. HIDE DEF Bound
      <4>. QED
        BY <1>3, <2>1, <3>3, <4>1
    <3>. QED
      BY <3>4, <3>5
  <2>. QED
    BY <2>3, <2>4
<1>4. 0 \in G
  <2>1. \A D \in SUBSET A : Cardinality(D) <= 0 => D = {}
    BY <1>2, FS_EmptySet
  <2>2. {} \cap Good = {} /\ Cardinality({}) = 0 /\ most * 0 = 0
    BY FS_EmptySet
  <2>3. g[{}] <= Bound({})
    BY <1>1, <2>2
  <2>. HIDE DEF Bound
  <2>. QED
    BY <2>1, <2>3
<1>5. ASSUME NEW n \in G
      PROVE  n + 1 \in G
  <2>. HIDE DEF Bound
  <2>1. ASSUME NEW D \in SUBSET A, Cardinality(D) <= n + 1
        PROVE  g[D] <= Bound(D)
    <3>1. CASE D = {}
      <4>1. Cardinality({}) <= n /\ {} \in SUBSET A
        BY FS_EmptySet
      <4>. QED
        BY <3>1, <4>1
    <3>2. CASE D # {}
      <4>1. PICK x \in D : g[D] = f[x] + g[D \ {x}]
        BY <1>1, <3>2
      <4>2. Cardinality(D \ {x}) = Cardinality(D) - 1 /\ D \ {x} \in SUBSET A
        BY <1>2, FS_RemoveElement
      <4>3. Cardinality(D \ {x}) <= n
        BY <1>2, <2>1, <4>2
      <4>4. g[D \ {x}] <= Bound(D \ {x})
        BY <4>2, <4>3
      <4>. QED
        BY <1>3, <4>1, <4>4
    <3>. QED
      BY <3>1, <3>2
  <2>. QED
    BY <2>1
<1>6. G = Nat
  <2>1. G \in SUBSET Nat
    OBVIOUS
  <2>. HIDE DEF G
  <2>. QED
    BY <1>4, <1>5, <2>1, Climb
<1>7. g[A] <= Bound(A)
  <2>1. A \in SUBSET A /\ Cardinality(A) \in Nat
    BY <1>2
  <2>. HIDE DEF Bound
  <2>. QED
    BY <1>6, <2>1
<1>8. A \cap Good = Good /\ r \in A
  OBVIOUS
<1>. QED
  BY <1>1, <1>7, <1>8

-----------------------------------------------------------------------------
(* Suggestions.                                                            *)

PagePlace == {"closed", "pool", "picks", "set"}
ViewState == [at : PagePlace, pool : SUBSET Novel, picks : SUBSET Novel, due : BOOLEAN]
PickSet   == [mode : {"none", "ai"}, age : {"new", "hour", "day"}, picks : SUBSET Novel, failed : BOOLEAN]
PickCall  == [mode : {"none", "ai"}, picks : SUBSET Novel]

SuggestTyped ==
    /\ visible \in SUBSET Novel /\ queue \in [Novel -> S!Status] /\ votes \in [Novel -> S!Vote]
    /\ mode \in {"free", "ai"} /\ set \in PickSet /\ picking \in BOOLEAN /\ call \in PickCall
    /\ view \in [View -> ViewState]

LEMMA SuggestTypes == SuggestTyped <=> S!TypeOK
  BY DEF SuggestTyped, S!TypeOK, ViewState, PagePlace, PickSet, PickCall

LEMMA SuggestBegins ==
    ASSUME S!Init
    PROVE  SuggestTyped
  BY SuggestAssumption
  DEF S!Init, SuggestTyped, S!None, S!NoCall, S!Closed, PickSet, PickCall, ViewState, PagePlace, S!Status, S!Vote

LEMMA SuggestSteps ==
    ASSUME SuggestTyped, [S!Next]_(S!vars)
    PROVE  SuggestTyped'
<1>1. ASSUME NEW say \in Said, S!SayAbout(say[1], say[2], say[3])
      PROVE  SuggestTyped'
  <2>1. say[1] \in Novel /\ say[2] \in S!Status /\ say[3] \in S!Vote
    BY <1>1, SuggestAssumption DEF S!Status, S!Vote
  <2>. QED
    BY <1>1, <2>1 DEF SuggestTyped, S!SayAbout
<1>2. ASSUME NEW v \in Allowed, S!ChangeRules(v)
      PROVE  SuggestTyped'
  BY <1>2, SuggestAssumption DEF SuggestTyped, S!ChangeRules
<1>3. ASSUME NEW m \in {"free", "ai"}, S!SetMode(m)
      PROVE  SuggestTyped'
  BY <1>3 DEF SuggestTyped, S!SetMode
<1>4. ASSUME NEW p \in View, S!ReadPool(p)
      PROVE  SuggestTyped'
  <2>1. S!SuggestPool \in SUBSET Novel
    BY DEF SuggestTyped, S!SuggestPool
  <2>. QED
    BY <1>4, <2>1, ZenonT(60) DEF SuggestTyped, S!ReadPool, ViewState, PagePlace
<1>5. ASSUME NEW p \in View, S!ReadSignals(p)
      PROVE  SuggestTyped'
  <2>1. view[p] \in ViewState
    BY DEF SuggestTyped
  <2>2. S!Rank(view[p].pool, S!Signals) \in SUBSET Novel
    BY <2>1 DEF S!Rank, S!Diverse, ViewState
  <2>3. S!Liked(S!Signals) \in BOOLEAN
    BY DEF S!Liked
  <2>. HIDE DEF S!Rank, S!Liked
  <2>. QED
    BY <1>5, <2>1, <2>2, <2>3 DEF SuggestTyped, S!ReadSignals, ViewState, PagePlace
<1>6. ASSUME NEW p \in View, S!ReadSet(p)
      PROVE  SuggestTyped'
  BY <1>6, ZenonT(60) DEF SuggestTyped, S!ReadSet, ViewState, PagePlace
<1>7. ASSUME NEW p \in View, NEW able \in BOOLEAN, S!Show(p, able)
      PROVE  SuggestTyped'
  <2>1. S!Closed \in ViewState
    BY DEF S!Closed, ViewState, PagePlace
  <2>2. view[p] \in ViewState
    BY DEF SuggestTyped
  <2>3. view' \in [View -> ViewState]
    BY <1>7, <2>1 DEF SuggestTyped, S!Show
  <2>4. picking' \in BOOLEAN /\ call' \in PickCall
    <3>1. CASE view[p].due /\ able /\ ~picking
      <4>1. picking' = TRUE /\ call' = [mode |-> "ai", picks |-> view[p].picks]
        BY <1>7, <3>1 DEF S!Show
      <4>2. view[p].picks \in SUBSET Novel
        BY <2>2 DEF ViewState
      <4>. QED
        BY <4>1, <4>2 DEF PickCall
    <3>2. CASE ~(view[p].due /\ able /\ ~picking)
      BY <1>7, <3>2 DEF SuggestTyped, S!Show
    <3>. QED
      BY <3>1, <3>2
  <2>. QED
    BY <1>7, <2>3, <2>4 DEF SuggestTyped, S!Show
<1>8. ASSUME NEW picks \in SUBSET Novel, S!Answer(picks)
      PROVE  SuggestTyped'
  BY <1>8 DEF SuggestTyped, S!Answer, S!NoCall, PickCall, PickSet
<1>9. ASSUME S!ClearSuggestionVotes \/ S!Age \/ S!Restart
      PROVE  SuggestTyped'
  <2>1. CASE S!ClearSuggestionVotes
    BY <2>1 DEF SuggestTyped, S!ClearSuggestionVotes, S!Vote
  <2>2. CASE S!Age
    BY <2>2 DEF SuggestTyped, S!Age, PickSet
  <2>3. CASE S!Restart
    BY <2>3 DEF SuggestTyped, S!Restart, S!NoCall, S!Closed, PickCall, ViewState, PagePlace
  <2>. QED
    BY <1>9, <2>1, <2>2, <2>3
<1>10. ASSUME UNCHANGED S!vars
       PROVE  SuggestTyped'
  BY <1>10 DEF SuggestTyped, S!vars
<1>. QED
  BY <1>1, <1>2, <1>3, <1>4, <1>5, <1>6, <1>7, <1>8, <1>9, <1>10 DEF S!Next

\* What a reader says of a book weighs one of these, twice over.
Weights == {-2, 3, 4, 6, 8}

LEMMA SignalTypes ==
    ASSUME SuggestTyped
    PROVE  /\ S!Signals \subseteq [of : Novel, weight : Weights]
           /\ IsFiniteSet(S!Signals)
<1>1. ASSUME NEW b \in Novel
      PROVE  S!Weight(b) \subseteq Weights
  BY DEF S!Weight, Weights, SuggestTyped, S!Status, S!Vote
<1>2. S!Signals \subseteq [of : Novel, weight : Weights]
  BY <1>1 DEF S!Signals
<1>3. IsFiniteSet(Weights)
  <2>1. -2 \in Int /\ 8 \in Int /\ Weights \in SUBSET ((-2)..8)
    BY DEF Weights
  <2>2. IsFiniteSet((-2)..8)
    BY <2>1, FS_Interval
  <2>. QED
    BY <2>1, <2>2, FS_Subset
<1>4. IsFiniteSet([of : Novel, weight : Weights])
  <2>. DEFINE pair == [p \in Novel \X Weights |-> [of |-> p[1], weight |-> p[2]]]
  <2>1. IsFiniteSet(Novel \X Weights)
    BY <1>3, FS_Product, SuggestAssumption
  <2>2. pair \in Surjection(Novel \X Weights, [of : Novel, weight : Weights])
    <3>1. ASSUME NEW s \in [of : Novel, weight : Weights]
          PROVE  <<s.of, s.weight>> \in Novel \X Weights /\ pair[<<s.of, s.weight>>] = s
      OBVIOUS
    <3>2. pair \in [Novel \X Weights -> [of : Novel, weight : Weights]]
      OBVIOUS
    <3>. HIDE DEF pair
    <3>. QED
      BY <3>1, <3>2 DEF Surjection
  <2>. HIDE DEF pair
  <2>. QED
    BY <2>1, <2>2, FS_Surjection
<1>. QED
  BY <1>2, <1>4, FS_Subset

-----------------------------------------------------------------------------

\* How much a book is like another, twice over.
LEMMA MatchBounds ==
    ASSUME NEW b \in Novel, NEW s \in Novel
    PROVE  S!Match(b, s) \in 0..31
<1>. DEFINE series == IF ~S!SameSeries(b, s) THEN 0
                      ELSE CASE Numbered[b] - Numbered[s] = 1 -> 20 [] Numbered[b] - Numbered[s] > 1 -> 3 [] OTHER -> 4
            likes == series + (IF S!SameAuthor(b, s) THEN 6 ELSE 0) + (IF {b, s} \in AlikeNovels THEN 4 ELSE 0)
<1>1. series \in 0..20
  OBVIOUS
<1>2. likes \in 0..30
  <2>. HIDE DEF series
  <2>. QED
    BY <1>1
<1>3. S!Match(b, s) = IF likes > 0 /\ S!Rated(b, s) /\ Peppers[b] - Peppers[s] \in -1..1 THEN likes + 1 ELSE likes
  BY DEF S!Match
<1>. HIDE DEF likes
<1>. QED
  BY <1>2, <1>3

\* What speaks against a book is never less than nothing.
LEMMA AgainstBounds ==
    ASSUME SuggestTyped, NEW b \in Novel, NEW s \in Novel
    PROVE  /\ S!Against(b, s) \in Nat
           /\ S!RulesOut(b, s, votes[s]) => S!Against(b, s) = 60000
<1>1. PICK m \in 0..31 : m = S!Match(b, s)
  BY MatchBounds
<1>2. 10 * m \in Nat
  BY <1>1
<1>3. S!Against(b, s) \in {60000, 225, 0, 10 * m}
  BY <1>1 DEF S!Against, S!Dislike
<1>4. S!RulesOut(b, s, votes[s]) => S!Against(b, s) = 60000
  BY DEF S!Against, S!Dislike, S!RulesOut
<1>. QED
  BY <1>2, <1>3, <1>4

\* What one signal does for a book.
Points(b) ==
    [s \in S!Signals |-> IF s.weight < 0 THEN 0 - S!Against(b, s.of) ELSE 5 * S!Match(b, s.of) * s.weight]

LEMMA PointsBounds ==
    ASSUME SuggestTyped, NEW b \in Novel, NEW s \in S!Signals
    PROVE  /\ Points(b)[s] \in Int
           /\ s.weight > 0 => Points(b)[s] <= 1240
           /\ s.weight <= 0 => Points(b)[s] <= 0
           /\ s.weight <= 0 /\ S!RulesOut(b, s.of, votes[s.of]) => Points(b)[s] = -60000
<1>1. s.of \in Novel /\ s.weight \in Weights
  BY SignalTypes
<1>2. Points(b)[s] = IF s.weight < 0 THEN 0 - S!Against(b, s.of) ELSE 5 * S!Match(b, s.of) * s.weight
  BY DEF Points
<1>3. CASE s.weight = -2
  BY <1>1, <1>2, <1>3, AgainstBounds
<1>4. CASE s.weight \in {3, 4, 6, 8}
  <2>1. PICK m \in 0..31 : m = S!Match(b, s.of)
    BY <1>1, MatchBounds
  <2>2. Points(b)[s] = 5 * m * s.weight
    BY <1>2, <1>4, <2>1
  <2>3. \A w \in {3, 4, 6, 8} : 5 * m * w \in Int /\ 5 * m * w <= 1240
    OBVIOUS
  <2>. QED
    BY <1>4, <2>2, <2>3
<1>. QED
  BY <1>1, <1>3, <1>4 DEF Weights

\* A book's score is the sum of these, over the signals in any order.
LEMMA TotalIsSum ==
    ASSUME SuggestTyped, NEW b \in Novel
    PROVE  \E g : IsSum(S!Signals, Points(b), g) /\ S!Total(b, S!Signals) = g[S!Signals]
<1>. DEFINE A == S!Signals
            Worth(s) == IF s.weight < 0 THEN 0 - S!Against(b, s.of) ELSE 5 * S!Match(b, s.of) * s.weight
            Step(g) == [D \in SUBSET A |-> IF D = {} THEN 0
                         ELSE Worth(CHOOSE x \in D : TRUE) + g[D \ {CHOOSE x \in D : TRUE}]]
            h == CHOOSE g : g = Step(g)
<1>1. S!Total(b, A) = h[A]
  BY DEF S!Total, S!MapThenSumSet, S!MapThenFoldSet
<1>2. ASSUME NEW g
      PROVE  Step(g) = SumStep(A, Points(b), g)
  <2>1. ASSUME NEW D \in SUBSET A, D # {}
        PROVE  Worth(CHOOSE x \in D : TRUE) = Points(b)[CHOOSE x \in D : TRUE]
    <3>1. (CHOOSE x \in D : TRUE) \in A
      BY <2>1
    <3>. QED
      BY <3>1 DEF Points
  <2>. HIDE DEF A, Worth
  <2>. QED
    BY <2>1 DEF SumStep
<1>3. Points(b) \in [A -> Int] /\ IsFiniteSet(A)
  BY PointsBounds, SignalTypes DEF Points
<1>4. \E g : g = SumStep(A, Points(b), g)
  <2>. HIDE DEF A
  <2>. QED
    BY <1>3, SumExists
<1>5. \E g : g = Step(g)
  <2>. HIDE DEF Step
  <2>. QED
    BY <1>2, <1>4
<1>6. h = Step(h)
  <2>. HIDE DEF Step
  <2>. QED
    BY <1>5
<1>. HIDE DEF h, Step
<1>7. h = SumStep(A, Points(b), h)
  BY <1>2, <1>6
<1>. HIDE DEF A
<1>8. IsSum(A, Points(b), h)
  BY <1>3, <1>7, SumSteps
<1>. QED
  BY <1>1, <1>8 DEF A

\* At most 1240 points for each like, and 60000 less for a vote that rules the book out.
LEMMA RuledOutTotal ==
    ASSUME SuggestTyped, NEW b \in Novel, NEW r \in S!Signals, r.weight <= 0, S!RulesOut(b, r.of, votes[r.of])
    PROVE  /\ S!Total(b, S!Signals) \in Int
           /\ S!Total(b, S!Signals) <= 1240 * Cardinality({s \in S!Signals : s.weight > 0}) - 60000
<1>. DEFINE Likes == {s \in S!Signals : s.weight > 0}
<1>1. PICK g : IsSum(S!Signals, Points(b), g) /\ S!Total(b, S!Signals) = g[S!Signals]
  BY TotalIsSum
<1>2. Points(b) \in [S!Signals -> Int] /\ IsFiniteSet(S!Signals)
  BY PointsBounds, SignalTypes DEF Points
<1>3. \A s \in Likes : Points(b)[s] <= 1240
  BY PointsBounds
<1>4. ASSUME NEW s \in S!Signals \ Likes
      PROVE  Points(b)[s] <= 0
  <2>1. s.weight <= 0
    BY SignalTypes DEF Weights
  <2>. QED
    BY <2>1, PointsBounds
<1>5. Points(b)[r] = 0 - 60000
  BY PointsBounds
<1>6. Likes \in SUBSET S!Signals /\ r \in S!Signals \ Likes
  BY SignalTypes DEF Weights
<1>7. 1240 \in Nat /\ 60000 \in Nat
  OBVIOUS
<1>. HIDE DEF Likes
<1>8. g[S!Signals] \in Int /\ g[S!Signals] <= 1240 * Cardinality(Likes) - 60000
  BY <1>1, <1>2, <1>3, <1>4, <1>5, <1>6, <1>7, SumBounded
<1>. QED
  BY <1>1, <1>8 DEF Likes

\* As long as the reader likes no more than 48 times, a vote against a book outweighs all of it.
LikesFew == Cardinality({s \in S!Signals : s.weight > 0}) <= 48

LEMMA RuledOutIsNotRanked ==
    ASSUME SuggestTyped, LikesFew
    PROVE  S!RuledOutIsOut
<1>1. SUFFICES ASSUME S!Liked(S!Signals), NEW b \in S!Rank(S!SuggestPool, S!Signals), S!RuledOut(b)
               PROVE  FALSE
  BY DEF S!RuledOutIsOut
<1>2. b \in Novel /\ S!Score(b, S!Signals) >= 60
  BY DEF S!Rank, S!Diverse, S!SuggestPool, SuggestTyped
<1>3. PICK s \in Novel : S!RulesOut(b, s, votes[s])
  BY <1>1 DEF S!RuledOut
<1>4. votes[s] \in {"author", "series", "spicy"}
  BY <1>3 DEF S!RulesOut
<1>5. [of |-> s, weight |-> -2] \in S!Signals
  <2>1. -2 \in S!Weight(s)
    BY <1>4 DEF S!Weight
  <2>. QED
    BY <2>1, <1>3 DEF S!Signals
<1>6. PICK r \in S!Signals : r.weight <= 0 /\ S!RulesOut(b, r.of, votes[r.of])
  BY <1>3, <1>5
<1>7. S!Total(b, S!Signals) \in Int /\ S!Total(b, S!Signals) <= 1240 * Cardinality({t \in S!Signals : t.weight > 0}) - 60000
  BY <1>2, <1>6, RuledOutTotal
<1>8. Cardinality({t \in S!Signals : t.weight > 0}) \in Nat
  <2>1. {t \in S!Signals : t.weight > 0} \in SUBSET S!Signals
    OBVIOUS
  <2>. QED
    BY <2>1, SignalTypes, FS_Subset, FS_CardinalityType
<1>9. S!Total(b, S!Signals) < 0
  BY <1>7, <1>8 DEF LikesFew
<1>10. S!Score(b, S!Signals) = S!Total(b, S!Signals)
  BY <1>1, <1>7, <1>9 DEF S!Score
<1>. QED
  BY <1>2, <1>7, <1>9, <1>10

\* Suggestions (suggest/rank.go): whatever is known of however many books, however votes, places
\* on the Nightstand and rules change, a book that a vote of the reader rules out is not among the
\* free picks of a reader who likes something, as long as the reader has said so no more than 48
\* times: from there on likes can add up to more than a vote takes away.
THEOREM RuledOutStaysOut == Spec => []((running = "suggest" => S!TypeOK) /\ (LikesFew => RuledOutIsOut))
<1>. DEFINE Fit == running = "suggest" => SuggestTyped
<1>1. Init => Fit
  BY SuggestBegins DEF Init
<1>2. Fit /\ [Next]_vars => Fit'
  <2>1. ASSUME [Next]_vars, running' = "suggest"
        PROVE  running = "suggest" /\ [S!Next]_(S!vars)
    BY <2>1 DEF Next, vars, suggestVars, S!vars
  <2>. QED
    BY <2>1, SuggestSteps
<1>3. Fit => (running = "suggest" => S!TypeOK) /\ (LikesFew => RuledOutIsOut)
  BY SuggestTypes, RuledOutIsNotRanked DEF RuledOutIsOut
<1>. QED
  BY <1>1, <1>2, <1>3, PTL DEF Spec
=============================================================================
