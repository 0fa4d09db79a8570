---------------------------- MODULE Suggestions ----------------------------
(***************************************************************************)
(* Suggested Reads of one reader (suggest/, store/suggestions.go,          *)
(* llm/suggest.go, api/suggest_handlers.go, taste_handlers.go): the free   *)
(* matching of the library with what the reader likes and does not, and    *)
(* the AI's picks from its shortlist, made in the background and kept.     *)
(* Scores are whole numbers, sixty to a point; texts are alike or not.     *)
(***************************************************************************)
EXTENDS Integers, FiniteSets, FiniteSetsExt

CONSTANTS
    Book,
    Series, Index, Author, Spice,   \* of each book; "" is no series, -1 not rated
    Alike,          \* pairs of books whose descriptions are alike
    Family,         \* how many others of the family read a book
    Page,           \* views of the reader's page
    Says,           \* bound: what the reader may say: book, place on the Nightstand, vote with its reason
    Rules           \* bound: what the rules may allow

VARIABLES
    visible,    \* owned books the reader's rules allow
    queue,      \* queue_items of the reader
    votes,      \* suggestion_votes of the reader
    mode,       \* suggest_mode
    set,        \* suggestion_sets: the AI's last answer, and its age
    running,    \* the AI picks for this reader
    call,       \* what it was asked with
    page        \* each view between its reads

vars == <<visible, queue, votes, mode, set, running, call, page>>

Status == {"none", "queued", "reading"}
Vote == {"none", "up", "read", "down", "story", "author", "series", "spicy"}

None == [mode |-> "none", age |-> "new", picks |-> {}, failed |-> FALSE]
NoCall == [mode |-> "none", picks |-> {}]
Closed == [at |-> "closed", pool |-> {}, picks |-> {}, due |-> FALSE]

TypeOK ==
    /\ visible \subseteq Book /\ queue \in [Book -> Status] /\ votes \in [Book -> Vote]
    /\ mode \in {"free", "ai"}
    /\ set \in [mode : {"none", "ai"}, age : {"new", "hour", "day"}, picks : SUBSET Book, failed : BOOLEAN]
    /\ running \in BOOLEAN /\ call \in [mode : {"none", "ai"}, picks : SUBSET Book]
    /\ page \in [Page -> [at : {"closed", "pool", "picks", "set"}, pool : SUBSET Book, picks : SUBSET Book, due : BOOLEAN]]

Init ==
    /\ visible = Book /\ queue = [b \in Book |-> "none"] /\ votes = [b \in Book |-> "none"]
    /\ mode = "ai" /\ set = None /\ running = FALSE /\ call = NoCall
    /\ page = [p \in Page |-> Closed]

-----------------------------------------------------------------------------
(* The free matching.                                                      *)

\* Twice the weight of what the reader said; signals without one are no signals.
Weight(b) ==
    {w \in {CASE queue[b] = "queued" -> 4 [] queue[b] = "reading" -> 6 [] OTHER -> 0} : w # 0}
    \cup {w \in {CASE votes[b] = "up" -> 8 [] votes[b] = "read" -> 3 [] votes[b] = "none" -> 0 [] OTHER -> -2} : w # 0}

Signals == UNION {{[of |-> b, weight |-> w] : w \in Weight(b)} : b \in Book}
Liked(signals) == \E s \in signals : s.weight > 0

SuggestPool == {b \in visible : queue[b] = "none" /\ votes[b] = "none"}

SameSeries(b, s) == Series[b] # "" /\ Series[b] = Series[s]
SameAuthor(b, s) == Author[b] # "" /\ Author[b] = Author[s]
Rated(b, s) == Spice[b] >= 0 /\ Spice[s] >= 0

\* Twice the points of a likeness.
Match(b, s) ==
    LET series == IF ~SameSeries(b, s) THEN 0
                  ELSE CASE Index[b] - Index[s] = 1 -> 20 [] Index[b] - Index[s] > 1 -> 3 [] OTHER -> 4
        likes  == series + (IF SameAuthor(b, s) THEN 6 ELSE 0) + (IF {b, s} \in Alike THEN 4 ELSE 0)
    IN  IF likes > 0 /\ Rated(b, s) /\ Spice[b] - Spice[s] \in -1..1 THEN likes + 1 ELSE likes

\* A reason that names the author, the series or the peppers rules books out.
RulesOut(b, s, why) ==
    \/ why = "author" /\ SameAuthor(b, s)
    \/ why = "series" /\ SameSeries(b, s)
    \/ why = "spicy" /\ Rated(b, s) /\ Spice[b] >= Spice[s]

Dislike(b, s) ==
    CASE RulesOut(b, s, votes[s]) -> 60000
      [] votes[s] = "story" -> IF {b, s} \in Alike THEN 225 ELSE 0
      [] votes[s] = "down"  -> 10 * Match(b, s)
      [] OTHER -> 0

\* Mutant: "too spicy" is one dislike among others.
DislikeLightly(b, s) ==
    IF RulesOut(b, s, votes[s]) THEN 10 * Match(b, s) ELSE 0

Against(b, s) == Dislike(b, s)

Total(b, signals) ==
    MapThenSumSet(LAMBDA s : IF s.weight < 0 THEN 0 - Against(b, s.of) ELSE 5 * Match(b, s.of) * s.weight, signals)

\* What others of the family read counts, and is all there is for a reader who likes nothing yet.
Score(b, signals) ==
    LET total == Total(b, signals) IN
    CASE Family[b] = 0 -> total
      [] ~Liked(signals) -> 60 * (Family[b] + 1)
      [] total > 0 -> total + 18 * Family[b]
      [] OTHER -> total

Before(b, c, signals) ==
    \/ Score(b, signals) > Score(c, signals)
    \/ Score(b, signals) = Score(c, signals) /\ Index[b] < Index[c]

\* One book of each series: the best of them.
Diverse(picks, signals) ==
    {b \in picks : \A c \in picks \ {b} : SameSeries(b, c) => ~Before(c, b, signals)}

Rank(pool, signals) == Diverse({b \in pool : Score(b, signals) >= 60}, signals)

-----------------------------------------------------------------------------
(* The page and the AI's picks.                                            *)

SayAbout(b, q, v) ==
    /\ b \in visible
    /\ queue' = [queue EXCEPT ![b] = q] /\ votes' = [votes EXCEPT ![b] = v]
    /\ (q = queue[b]) # (v = votes[b])
    /\ UNCHANGED <<visible, mode, set, running, call, page>>

ClearSuggestionVotes ==
    /\ votes' = [b \in Book |-> "none"]
    /\ UNCHANGED <<visible, queue, mode, set, running, call, page>>

\* A parent changes the reader's rules.
ChangeRules(v) == visible' = v /\ UNCHANGED <<queue, votes, mode, set, running, call, page>>

SetMode(m) == mode' = m /\ UNCHANGED <<visible, queue, votes, set, running, call, page>>

ReadPool(p) ==
    /\ page[p] = Closed
    /\ page' = [page EXCEPT ![p].at = "pool", ![p].pool = SuggestPool]
    /\ UNCHANGED <<visible, queue, votes, mode, set, running, call>>

ReadSignals(p) ==
    /\ page[p].at = "pool"
    /\ page' = [page EXCEPT ![p].at = "picks", ![p].picks = Rank(page[p].pool, Signals), ![p].due = Liked(Signals)]
    /\ UNCHANGED <<visible, queue, votes, mode, set, running, call>>

\* Never picked, or another setting, or a day ago, or an hour ago and it failed or little is left of it.
Due(pool) ==
    \/ set.mode # mode \/ set.age = "day"
    \/ set.age = "hour" /\ (set.failed \/ Cardinality(set.picks \cap pool) < Min({3, Cardinality(set.picks)}))

\* Whether the AI should pick again is decided by the set as it is read ...
ReadSet(p) ==
    /\ page[p].at = "picks"
    /\ page' = [page EXCEPT ![p].at = "set", ![p].pool = {},
                            ![p].due = @ /\ mode = "ai" /\ page[p].picks # {} /\ Due(page[p].pool)]
    /\ UNCHANGED <<visible, queue, votes, mode, set, running, call>>

\* ... and it is asked if one is set up, the hour's tokens last, and it is not being asked.
Show(p, able) ==
    /\ page[p].at = "set"
    /\ IF page[p].due /\ able /\ ~running
       THEN running' = TRUE /\ call' = [mode |-> "ai", picks |-> page[p].picks]
       ELSE UNCHANGED <<running, call>>
    /\ page' = [page EXCEPT ![p] = Closed]
    /\ UNCHANGED <<visible, queue, votes, mode, set>>

\* ParseSuggest: picks from the shortlist, at least one.
Answer(picks) ==
    /\ running /\ picks \subseteq call.picks
    /\ set' = [mode |-> call.mode, age |-> "new", picks |-> picks, failed |-> picks = {}]
    /\ running' = FALSE /\ call' = NoCall
    /\ UNCHANGED <<visible, queue, votes, mode, page>>

Age ==
    /\ set.mode # "none" /\ set.age # "day"
    /\ set' = [set EXCEPT !.age = IF @ = "new" THEN "hour" ELSE "day"]
    /\ UNCHANGED <<visible, queue, votes, mode, running, call, page>>

Restart ==
    /\ running' = FALSE /\ call' = NoCall /\ page' = [p \in Page |-> Closed]
    /\ UNCHANGED <<visible, queue, votes, mode, set>>

Next ==
    \/ \E say \in Says : SayAbout(say[1], say[2], say[3])
    \/ \E v \in Rules : ChangeRules(v)
    \/ \E m \in {"free", "ai"} : SetMode(m)
    \/ \E p \in Page : ReadPool(p) \/ ReadSignals(p) \/ ReadSet(p) \/ \E able \in BOOLEAN : Show(p, able)
    \/ \E picks \in SUBSET Book : Answer(picks)
    \/ ClearSuggestionVotes \/ Age \/ Restart

Spec == Init /\ [][Next]_vars

-----------------------------------------------------------------------------

RuledOut(b) == \E s \in Book : RulesOut(b, s, votes[s])

\* For a reader who likes something, a vote against an author, a series or the
\* peppers outweighs whatever else speaks for a book.
RuledOutIsOut == Liked(Signals) => \A b \in Rank(SuggestPool, Signals) : ~RuledOut(b)
=============================================================================
