------------------------------ MODULE Discover ------------------------------
(***************************************************************************)
(* Discover (discover/service.go, sources.go, rows.go, store/discover.go,  *)
(* api/discover_handlers.go): outside lists fetched once a day, the New    *)
(* York Times' once a week, one call after another with a pause, saved     *)
(* over the last ones; then a day's allowance of unrated listed books goes *)
(* to the rating worker. The loop and an admin may both begin.             *)
(***************************************************************************)
EXTENDS Naturals, FiniteSets, Sequences

CONSTANTS
    Book,
    NYT,        \* nytLists, in order
    Fallback,   \* the list that stands in for them
    Classics,   \* ol:classics
    On,         \* the books each list has when it answers
    Caller,     \* who begins a refresh: the loop
    Loop,
    Week,       \* days between two fetches of the NYT lists
    Daily,      \* discover_daily_ratings
    MaxDay      \* bound: the last day there is

Lists == {NYT[i] : i \in DOMAIN NYT}
List == Lists \cup {Fallback, Classics}
Days == 0..MaxDay

VARIABLES
    today,
    items,      \* discover_items of each list
    status,     \* books.status
    running,    \* Service.running
    last,       \* discover_last_refresh: a day, or MaxDay + 1 for never
    nytLast,    \* discover_nyt_fetched, the same way
    rated,      \* discover_rated_day and discover_rated_count
    notice,     \* the key was refused
    at,         \* each caller's place in Refresh
    fetched,    \* Refresh's own: a NYT list came
    chosen,     \* Refresh's own: the books it marked
    sent        \* history: books sent to be rated today

vars == <<today, items, status, running, last, nytLast, rated, notice, at, fetched, chosen, sent>>

Never == MaxDay + 1
Age(day) == IF day = Never THEN Never ELSE today - day
Place == {"idle", "begin", "fill", "classics", "choose", "count", "end"} \cup Lists    \* or a list that is asked for

TypeOK ==
    /\ today \in Days /\ running \in BOOLEAN /\ notice \in BOOLEAN /\ fetched \in BOOLEAN
    /\ (\A l \in List : items[l] \in {{}, On[l]}) /\ status \in [Book -> {"pending", "queued", "analyzed"}]
    /\ last \in Days \cup {Never} /\ nytLast \in Days \cup {Never}
    /\ rated \in [day : Days \cup {Never}, count : 0..Cardinality(Book)]
    /\ at \in [Caller -> Place]
    /\ sent \subseteq Book /\ chosen \subseteq Book

Init ==
    /\ today = 0
    /\ items = [l \in List |-> {}] /\ status = [b \in Book |-> "pending"]
    /\ running = FALSE /\ last = Never /\ nytLast = Never
    /\ rated = [day |-> Never, count |-> 0] /\ notice = FALSE
    /\ at = [c \in Caller |-> "idle"] /\ fetched = FALSE
    /\ chosen = {} /\ sent = {}

-----------------------------------------------------------------------------
(* The rest of the program.                                                *)

\* A choosing and its count are a moment apart, and of one day.
NextDay ==
    /\ \A c \in Caller : at[c] # "count"
    /\ today < MaxDay /\ today' = today + 1 /\ sent' = {}
    /\ UNCHANGED <<items, status, running, last, nytLast, rated, notice, at, fetched, chosen>>

\* The worker rates what is queued.
Rate(b) ==
    /\ status[b] = "queued" /\ status' = [status EXCEPT ![b] = "analyzed"]
    /\ UNCHANGED <<today, items, running, last, nytLast, rated, notice, at, fetched, chosen, sent>>

-----------------------------------------------------------------------------
(* Refresh.                                                                *)

Due == Age(last) >= 1
NytDue == Age(nytLast) >= Week

\* The loop looks whether a refresh is due, the handler whether one is running.
Start(c) ==
    /\ at[c] = "idle"
    /\ IF c = Loop THEN Due ELSE ~running
    /\ at' = [at EXCEPT ![c] = "begin"]
    /\ UNCHANGED <<today, items, status, running, last, nytLast, rated, notice, fetched, chosen, sent>>

Free == ~running

\* An admin may set or clear the NYT key before any refresh.
SkipsLists(c, key) == key /\ c = Loop /\ ~NytDue

\* The lock: the second of two is told that Discover is busy.
Begin(c, key) ==
    /\ at[c] = "begin"
    /\ IF Free
       THEN /\ running' = TRUE
            /\ fetched' = SkipsLists(c, key)
            /\ at' = [at EXCEPT ![c] = IF ~key THEN "fill" ELSE IF SkipsLists(c, key) THEN "classics" ELSE NYT[1]]
            /\ IF SkipsLists(c, key) THEN items' = [items EXCEPT ![Fallback] = {}] /\ notice' = FALSE ELSE UNCHANGED <<items, notice>>
       ELSE at' = [at EXCEPT ![c] = "idle"] /\ UNCHANGED <<running, fetched, items, notice>>
    /\ UNCHANGED <<today, status, last, nytLast, rated, chosen, sent>>

\* SaveDiscoverList: the old books go, then the new ones come one by one.
SaveDiscoverList(l) == items' = [items EXCEPT ![l] = On[l]]

\* Where the loop over the lists goes on: NYT's week is recorded, the stand-ins go or come.
Then(c, i, got) ==
    IF i < Len(NYT)
    THEN at' = [at EXCEPT ![c] = NYT[i + 1]] /\ UNCHANGED nytLast
    ELSE /\ at' = [at EXCEPT ![c] = IF got THEN "classics" ELSE "fill"]
         /\ nytLast' = IF got THEN today ELSE nytLast

Cleared(c, i, got) == i = Len(NYT) /\ got

NYTList(c, i) ==
    /\ at[c] = NYT[i]
    /\ \/ /\ fetched' = TRUE
          /\ items' = [items EXCEPT ![NYT[i]] = On[NYT[i]], ![Fallback] = IF Cleared(c, i, TRUE) THEN {} ELSE @]
          /\ notice' = (notice /\ ~Cleared(c, i, TRUE))
          /\ Then(c, i, TRUE)
       \/ /\ fetched' = fetched                 \* no answer, or "slow down": on to the next list
          /\ items' = [items EXCEPT ![Fallback] = IF Cleared(c, i, fetched) THEN {} ELSE @]
          /\ notice' = (notice /\ ~Cleared(c, i, fetched))
          /\ Then(c, i, fetched)
       \/ /\ fetched' = fetched                 \* the key is refused: no more lists
          /\ notice' = ~fetched
          /\ items' = [items EXCEPT ![Fallback] = IF fetched THEN {} ELSE @]
          /\ at' = [at EXCEPT ![c] = IF fetched THEN "classics" ELSE "fill"]
          /\ nytLast' = IF fetched THEN today ELSE nytLast
    /\ UNCHANGED <<today, status, running, last, rated, chosen, sent>>

OLTrending(c) ==
    /\ at[c] = "fill"
    /\ items' = items \/ SaveDiscoverList(Fallback)
    /\ at' = [at EXCEPT ![c] = "classics"]
    /\ UNCHANGED <<today, status, running, last, nytLast, rated, notice, fetched, chosen, sent>>

OLSubject(c) ==
    /\ at[c] = "classics"
    /\ items' = items \/ SaveDiscoverList(Classics)
    /\ at' = [at EXCEPT ![c] = "choose"]
    /\ UNCHANGED <<today, status, running, last, nytLast, rated, notice, fetched, chosen, sent>>

\* Mutant: every refresh has the day's allowance.
DoneFresh == 0

Done == IF rated.day = today THEN rated.count ELSE 0

Listed == {b \in Book : status[b] = "pending" /\ \E l \in List : b \in items[l]}

Left == IF Done <= Daily THEN Daily - Done ELSE 0

\* The best ranked unrated ones are marked.
Choose(c) ==
    /\ at[c] = "choose"
    /\ \E ids \in SUBSET Listed :
         /\ Cardinality(ids) = Left \/ (ids = Listed /\ Cardinality(ids) < Left)
         /\ chosen' = ids
         /\ status' = [b \in Book |-> IF b \in ids THEN "queued" ELSE status[b]]
         /\ at' = [at EXCEPT ![c] = IF ids = {} THEN "end" ELSE "count"]
    /\ UNCHANGED <<today, items, running, last, nytLast, rated, notice, fetched, sent>>

\* The day and the count are saved, then the worker gets them.
QueueRatings(c) ==
    /\ at[c] = "count"
    /\ rated' = [day |-> today, count |-> Done + Cardinality(chosen)]
    /\ sent' = sent \cup chosen /\ chosen' = {}
    /\ at' = [at EXCEPT ![c] = "end"]
    /\ UNCHANGED <<today, items, status, running, last, nytLast, notice, fetched>>

Finish(c) ==
    /\ at[c] = "end"
    /\ last' = today /\ running' = FALSE /\ fetched' = FALSE
    /\ at' = [at EXCEPT ![c] = "idle"]
    /\ UNCHANGED <<today, items, status, nytLast, rated, notice, chosen, sent>>

\* Ten minutes are over in a pause between two lists.
Cancel(c) ==
    /\ at[c] \in Lists \ {NYT[1]}
    /\ running' = FALSE /\ fetched' = FALSE
    /\ at' = [at EXCEPT ![c] = "idle"]
    /\ UNCHANGED <<today, items, status, last, nytLast, rated, notice, chosen, sent>>

\* A list that was being saved over is left empty.
Restart ==
    /\ running' = FALSE /\ fetched' = FALSE /\ chosen' = {} /\ at' = [c \in Caller |-> "idle"]
    /\ \/ items' = items
       \/ \E l \in List : items' = [items EXCEPT ![l] = {}] /\ \E c \in Caller : at[c] \in Lists \cup {"fill", "classics"}
    /\ UNCHANGED <<today, status, last, nytLast, rated, notice, sent>>

Next ==
    \/ NextDay \/ Restart \/ \E b \in Book : Rate(b)
    \/ \E c \in Caller :
         \/ Start(c) \/ (\E key \in BOOLEAN : Begin(c, key)) \/ OLTrending(c) \/ OLSubject(c) \/ Choose(c) \/ QueueRatings(c) \/ Finish(c) \/ Cancel(c)
         \/ \E i \in DOMAIN NYT : NYTList(c, i)

Spec == Init /\ [][Next]_vars

-----------------------------------------------------------------------------

\* ErrBusy: the lists are never fetched twice at once, however the loop and the admin meet.
OneRefresh == Cardinality({c \in Caller : at[c] \notin {"idle", "begin"}}) <= 1

\* A day's refreshes together hand the worker no more books than the day's allowance, through
\* cancelled refreshes and restarts.
DailyAllowance == Cardinality(sent) <= Daily
=============================================================================
