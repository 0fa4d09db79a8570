----------------------------- MODULE HideRules -----------------------------
(***************************************************************************)
(* What a kid may see (store/filters.go, content.go, content/rules.go,     *)
(* users.go): one book, its rating and the content items a check found in  *)
(* it, and one kid with the rules of the profile. A rating, a content      *)
(* check and a profile are each saved in several statements of their own.  *)
(* The rules on columns of the rating itself (peppers, nudity ...) and on  *)
(* where a book is (private libraries, collections) are further conjuncts  *)
(* of the same clause, decided by one statement each, and are left out;    *)
(* "Hide unrated", which every kid account starts with, stays on.          *)
(***************************************************************************)
EXTENDS Naturals, FiniteSets

CONSTANTS
    Item,       \* content items of one group
    Always,     \* the item every rating has checked ("lgbtq")
    Group,      \* the rule for the whole group, with what is added to it later
    Writer,     \* who saves: the AI's worker, the scan, a parent
    Parent,         \* the writers who are parents
    Ages            \* the age groups a parent may set, 0 for none

Rule == {Always, Group}     \* rules by item other than these are like the group's
KidAge == 1

VARIABLES
    book,       \* books: the row as far as rules read it, and its book_content
    rules,      \* user_hidden_content of one kid
    page,       \* a parent's save of that profile, under way
    save,       \* each writer's rating or check, under way
    begun,      \* history: how many content checks began to be saved (counted to 2)
    found       \* history: the items the first of them said, until the second

vars == <<book, rules, page, save, begun, found>>

Idle == [at |-> "idle", items |-> {}, checks |-> FALSE, keep |-> FALSE]
NoPage == [at |-> "idle", left |-> {}]

TypeOK ==
    /\ book \in [status : {"pending", "analyzed"}, by : {"nobody", "ai", "hand"}, approved : BOOLEAN,
                 age : Ages, checked : BOOLEAN, content : SUBSET Item]
    /\ rules \in SUBSET Rule
    /\ page \in [at : {"idle", "clear", "insert"}, left : SUBSET Rule]
    /\ save \in [Writer -> [at : {"idle", "asked", "rate", "clear", "insert", "stamp"},
                            items : SUBSET Item, checks : BOOLEAN, keep : BOOLEAN]]
    /\ begun \in 0..2 /\ found \subseteq Item

Init ==
    /\ book = [status |-> "pending", by |-> "nobody", approved |-> FALSE, age |-> 0,
               checked |-> FALSE, content |-> {}]
    /\ rules \in SUBSET Rule
    /\ page = NoPage /\ save = [w \in Writer |-> Idle]
    /\ begun = 0 /\ found = {}

-----------------------------------------------------------------------------
(* What is shown.                                                          *)

Expand(keys) == IF Group \in keys THEN Item ELSE keys
Hidden == Expand(rules)

\* A parent's age group counts as a rating and as a check.
Rated == book.status = "analyzed" \/ book.age > 0
NeedsCheck == ~ Hidden \subseteq {Always}

ContentRuleConds ==
    /\ book.content \cap Hidden = {}
    /\ NeedsCheck => book.checked \/ book.age > 0

\* A book marked OK passes every rule but the age group.
VisibilityClause ==
    /\ \/ book.approved
       \/ /\ Rated
          /\ ContentRuleConds
    /\ book.age <= KidAge

-----------------------------------------------------------------------------
(* Ratings and checks.                                                     *)

KeepsRating == book.by = "hand"

\* The AI is asked; whether the book keeps its rating is read before.
Rerate(w) ==
    /\ w \notin Parent /\ save[w] = Idle
    /\ ~(KeepsRating /\ book.checked)
    /\ save' = [save EXCEPT ![w] = [Idle EXCEPT !.at = "asked", !.keep = book.status = "analyzed" /\ KeepsRating]]
    /\ UNCHANGED <<book, rules, page, begun, found>>

\* It answers with the items of the book.
Answer(w, items) ==
    /\ save[w].at = "asked"
    /\ save' = [save EXCEPT ![w] = [at |-> IF save[w].keep THEN "clear" ELSE "rate",
                                    items |-> items, checks |-> TRUE, keep |-> FALSE]]
    /\ UNCHANGED <<book, rules, page, begun, found>>

\* Ticking nothing on a book that was never checked is no check.
Counts(items) == items # {} \/ book.checked

\* A parent's rating, with items or with nothing ticked, or without the list.
SetVerdict(w, items, listed) ==
    /\ w \in Parent /\ save[w] = Idle
    /\ listed \/ items = {}
    /\ LET checks == listed /\ Counts(items) IN
       save' = [save EXCEPT ![w] = [at |-> "rate", items |-> IF checks THEN items ELSE {}, checks |-> checks, keep |-> FALSE]]
    /\ UNCHANGED <<book, rules, page, begun, found>>

\* SaveAnalysis begins with the rating's columns, in one statement.
SaveAnalysis(w) ==
    /\ save[w].at = "rate"
    /\ book' = [book EXCEPT !.status = "analyzed", !.by = IF w \in Parent THEN "hand" ELSE "ai"]
    /\ save' = [save EXCEPT ![w] = IF save[w].checks THEN [@ EXCEPT !.at = "clear"] ELSE Idle]
    /\ UNCHANGED <<rules, page, begun, found>>

\* Mutant: the book is stamped as the save begins.
ClearStamped(w) ==
    /\ save[w].at = "clear"
    /\ book' = [book EXCEPT !.content = {}, !.checked = TRUE]
    /\ save' = [save EXCEPT ![w].at = IF save[w].items = {} THEN "stamp" ELSE "insert"]
    /\ found' = IF begun = 0 THEN save[w].items ELSE {}
    /\ begun' = IF begun < 2 THEN begun + 1 ELSE 2
    /\ UNCHANGED <<rules, page>>

\* setBookContent: the old items go, the new ones come one by one, and last the stamp.
ClearContent(w) ==
    /\ save[w].at = "clear"
    /\ book' = [book EXCEPT !.content = {}]
    /\ save' = [save EXCEPT ![w].at = IF save[w].items = {} THEN "stamp" ELSE "insert"]
    /\ found' = IF begun = 0 THEN save[w].items ELSE {}
    /\ begun' = IF begun < 2 THEN begun + 1 ELSE 2
    /\ UNCHANGED <<rules, page>>

InsertContent(w, i) ==
    /\ save[w].at = "insert" /\ i \in save[w].items
    /\ book' = [book EXCEPT !.content = @ \cup {i}]
    /\ save' = [save EXCEPT ![w].items = @ \ {i}, ![w].at = IF save[w].items = {i} THEN "stamp" ELSE "insert"]
    /\ UNCHANGED <<rules, page, begun, found>>

Stamp(w) ==
    /\ save[w].at = "stamp"
    /\ book' = [book EXCEPT !.checked = TRUE]
    /\ save' = [save EXCEPT ![w] = Idle]
    /\ UNCHANGED <<rules, page, begun, found>>

-----------------------------------------------------------------------------
(* A parent's other decisions, and the profile.                            *)

SetApproved(yes) == book' = [book EXCEPT !.approved = yes] /\ UNCHANGED <<rules, page, save, begun, found>>
SetBookAge(age)  == book' = [book EXCEPT !.age = age] /\ UNCHANGED <<rules, page, save, begun, found>>

\* The row of the kid, then the rules are deleted and inserted one by one.
UpdateUserProfile(keys) ==
    /\ page = NoPage
    /\ page' = [at |-> "clear", left |-> keys]
    /\ UNCHANGED <<book, rules, save, begun, found>>

ClearRules ==
    /\ page.at = "clear"
    /\ rules' = {}
    /\ page' = IF page.left = {} THEN NoPage ELSE [page EXCEPT !.at = "insert"]
    /\ UNCHANGED <<book, save, begun, found>>

InsertRule(r) ==
    /\ page.at = "insert" /\ r \in page.left
    /\ rules' = rules \cup {r}
    /\ page' = IF page.left = {r} THEN NoPage ELSE [page EXCEPT !.left = @ \ {r}]
    /\ UNCHANGED <<book, save, begun, found>>

\* The process ends between two statements.
Restart ==
    /\ page' = NoPage /\ save' = [w \in Writer |-> Idle]
    /\ UNCHANGED <<book, rules, begun, found>>

Next ==
    \/ \E w \in Writer :
         \/ Rerate(w) \/ SaveAnalysis(w) \/ ClearContent(w) \/ Stamp(w)
         \/ \E items \in SUBSET Item : Answer(w, items) \/ \E l \in BOOLEAN : SetVerdict(w, items, l)
         \/ \E i \in Item : InsertContent(w, i)
    \/ \E yes \in BOOLEAN : SetApproved(yes)
    \/ \E age \in Ages : SetBookAge(age)
    \/ \E keys \in SUBSET Rule : UpdateUserProfile(keys)
    \/ ClearRules \/ Restart
    \/ \E r \in Rule : InsertRule(r)

Spec == Init /\ [][Next]_vars

-----------------------------------------------------------------------------

\* A kid with "Hide unrated" and a rule that needs a check is not shown, in
\* the middle of the book's first check or after one that was cut off, a book
\* in which that check found something the rules hide.
FirstCheckHides ==
    (begun = 1 /\ NeedsCheck /\ book.age = 0 /\ ~book.approved /\ VisibilityClause) => found \cap Hidden = {}
=============================================================================
