---------------------------- MODULE EventPages ----------------------------
(***************************************************************************)
(* Reading an event's list (events/fetch.go, more.go, parse.go): the page  *)
(* shows the first books and leaves the rest for "Load more" (by offset or *)
(* by page number) or for next pages; what all answers bring is put into   *)
(* one list, without repeats.                                              *)
(*                                                                         *)
(* A page is a sequence of cards: a heading, and a link with its words     *)
(* ("" when they only say what to do, as "Buy now").                       *)
(***************************************************************************)
EXTENDS Naturals, SequencesExt

CONSTANTS
    Lists,      \* what sites list: sequences of cards
    Sites,      \* how sites give out their lists
    maxMore,    \* extra requests for one list (60 in the code)
    maxTotal,   \* what they may bring (16 MB in the code), here in cards
    maxPage,    \* what is read of an answer (4 MB), in cards
    Reach,      \* how far before a link its heading may be (1500 characters), in cards
    MaxBooks    \* books of one event (500 in the code)

VARIABLES
    list, site,
    at, next, asked, links,
    got,        \* the cards of all answers so far
    brought,    \* how many of them the extra requests brought
    cutShort    \* history: a request failed

vars == <<list, site, at, next, asked, links, got, brought, cutShort>>

TypeOK ==
    /\ list \in Lists /\ site \in Sites
    /\ at \in {"page", "count", "links", "done", "refused"}
    /\ next \in Nat /\ asked \in 0..maxMore /\ links \subseteq Nat
    /\ brought \in Nat /\ cutShort \in BOOLEAN

Init ==
    /\ list \in Lists /\ site \in Sites
    /\ at = "page" /\ next = 0 /\ asked = 0 /\ links = {} /\ got = <<>> /\ brought = 0 /\ cutShort = FALSE

-----------------------------------------------------------------------------
(* The site. Its page shows site.first cards and each answer site.chunk    *)
(* more. `kind` is how the rest is asked for, `home` whether on the page's *)
(* own site, `tells` whether an answer says that it is the last, `gives`   *)
(* whether it says what to ask for next, and `round` whether it begins     *)
(* again after its last cards.                                             *)

Cards(low, high) == SubSeq(list, low, IF high < Len(list) THEN high ELSE Len(list))
FirstOf(k) == IF site.kind = "offset" THEN k ELSE site.first + (k - 2) * site.chunk
Served(k)  == IF FirstOf(k) >= Len(list) /\ site.round
              THEN Cards(1, site.first)
              ELSE Cards(FirstOf(k) + 1, FirstOf(k) + site.chunk)
IsLast(k)    == FirstOf(k) + site.chunk >= Len(list)
MoreAfter(k) == site.kind = "links" /\ IF k = 1 THEN site.first < Len(list) ELSE ~IsLast(k)

-----------------------------------------------------------------------------
(* The books on a page.                                                    *)

\* What a card does not tell.
Blank == ""

\* A link that says only what to do has its title from the nearest heading before it,
\* which is looked for so far and no farther.
Title(page, i) ==
    LET before == {j \in 1..i : page[j].heading # Blank /\ i <= j + Reach} IN
    IF ~page[i].amazon THEN Blank
    ELSE IF page[i].words # Blank THEN page[i].words
    ELSE IF before = {} THEN Blank ELSE page[Max(before)].heading

Entry(page, i) == [asin |-> page[i].asin, title |-> Title(page, i), author |-> page[i].author]

\* Links without a title are passed over.
fromHTML(page) ==
    FoldLeft(LAMBDA es, i : IF Title(page, i) = Blank THEN es ELSE Append(es, Entry(page, i)),
             <<>>, [i \in DOMAIN page |-> i])

Key(e) == IF e.asin = Blank THEN e.title ELSE e.asin

\* `seen` remembers ASINs and titles of the books in the list.
Known(seen, e) ==
    LET by(k) == {i \in DOMAIN seen : k \in seen[i]} IN
    IF by(Key(e)) # {} THEN by(Key(e)) ELSE by(e.title)

Short(title) == Len(title) < 2

Add(st, e) ==
    LET known == Known(st.seen, e)
        i == CHOOSE j \in known : TRUE
    IN  IF known # {}
        THEN [st EXCEPT !.books[i].author = IF @ = Blank THEN e.author ELSE @]
        ELSE IF Short(e.title) \/ Len(st.books) >= MaxBooks THEN st
        ELSE [books |-> Append(st.books, e), seen |-> Append(st.seen, {Key(e), e.title})]

Parse(page) == FoldLeft(Add, [books |-> <<>>, seen |-> <<>>], fromHTML(page)).books

-----------------------------------------------------------------------------
(* Fetching.                                                               *)

\* An answer is read up to a size; what comes after is cut off.
Whole(page) == Len(page) <= maxPage
get(page)   == IF Whole(page) THEN page ELSE SubSeq(page, 1, maxPage)

\* What an answer says: plain HTML says neither whether more is left nor what to ask for, and
\* neither does JSON that was cut.
readChunk(k) ==
    [html |-> get(Served(k)),
     more |-> ~(site.tells /\ IsLast(k) /\ Whole(Served(k))),
     next |-> IF ~site.gives \/ ~Whole(Served(k)) THEN 0 ELSE IF site.kind = "offset" THEN k + site.chunk ELSE k + 1]

\* Links to other sites are ignored.
sameSite(links_) == IF site.home THEN links_ ELSE {}

\* The number on the button, where the page has one.
Start == IF site.kind = "offset" THEN site.first ELSE 2

loadMore ==
    IF site.kind \in {"offset", "page"}
    THEN IF sameSite({Start}) # {} /\ Start > 0 THEN "count" ELSE "done"
    ELSE "links"

\* The page itself must be readable.
Fetch(ok) ==
    /\ at = "page"
    /\ IF ok
       THEN got' = get(Cards(1, site.first)) /\ next' = Start /\ at' = loadMore
       ELSE at' = "refused" /\ UNCHANGED <<got, next>>
    /\ links' = {1}
    /\ UNCHANGED <<list, site, asked, brought, cutShort>>

\* The rest is left when an answer has no books or cannot be had: what came
\* before is kept.
Stops(ok, c) == ~ok \/ fromHTML(c.html) = <<>>

\* Mutant: page numbers go on as offsets do.
StepAsOffset == Start

\* The first offset is how many the page shows.
Step == IF site.kind = "offset" THEN Start ELSE 1

\* Some sites never stop answering: so many requests, or so much, and no more is asked for.
Enough(n, size) == n = maxMore \/ size >= maxTotal

byCount(ok) ==
    LET c == readChunk(next) IN
    /\ at = "count"
    /\ asked' = asked + 1
    /\ cutShort' = (cutShort \/ ~ok)
    /\ IF Stops(ok, c)
       THEN at' = "done" /\ UNCHANGED <<got, brought, next>>
       ELSE /\ got' = got \o c.html /\ brought' = brought + Len(c.html)
            /\ next' = IF c.next > next THEN c.next ELSE next + Step
            /\ at' = IF Enough(asked + 1, brought + Len(c.html)) \/ ~c.more THEN "done" ELSE "count"
    /\ UNCHANGED <<list, site, links>>

\* Where page k says the rest is.
nextLink(k) == sameSite(IF MoreAfter(k) THEN {k + 1} ELSE IF site.kind = "links" /\ site.round THEN {1} ELSE {})

\* A page that was read is not read again.
followLinks(ok) ==
    LET link == nextLink(next - 1)
        c == readChunk(next) IN
    /\ at = "links"
    /\ IF link \subseteq links
       THEN at' = "done" /\ UNCHANGED <<got, brought, next, asked, links, cutShort>>
       ELSE /\ asked' = asked + 1 /\ links' = links \cup link
            /\ cutShort' = (cutShort \/ ~ok)
            /\ IF Stops(ok, c)
               THEN at' = "done" /\ UNCHANGED <<got, brought, next>>
               ELSE /\ got' = got \o c.html /\ brought' = brought + Len(c.html) /\ next' = next + 1
                    /\ at' = IF Enough(asked + 1, brought + Len(c.html)) THEN "done" ELSE "links"
    /\ UNCHANGED <<list, site>>

Next == \E ok \in BOOLEAN : Fetch(ok) \/ byCount(ok) \/ followLinks(ok)

Spec == Init /\ [][Next]_vars

-----------------------------------------------------------------------------

\* The rest is asked for on the page's own site, the steps are those the page
\* shows or the answers give, each answer holds a book and is read whole, and no title is an ASIN.
Regular ==
    /\ site.kind # "none" /\ site.home
    /\ site.first <= maxPage /\ site.chunk <= maxPage
    /\ site.kind = "offset" => (site.chunk = site.first \/ site.gives) /\ site.first > 0
    /\ \A i \in DOMAIN list : fromHTML(Cards(i, i + site.chunk - 1)) # <<>>
    /\ \A i, j \in DOMAIN list : list[i].asin = Blank \/ list[i].asin \notin {list[j].heading, list[j].words}

\* When no request failed and what may be asked for was not used up, neither the number of
\* requests nor what they may bring, each book that the site lists is found.
AllFound ==
    at = "done" /\ ~cutShort /\ asked < maxMore /\ brought < maxTotal /\ Regular =>
        LET books == Parse(got)
            all == fromHTML(list) IN
        \A i \in DOMAIN all : Short(all[i].title) \/ Len(books) = MaxBooks \/
            \E j \in DOMAIN books :
                all[i].title = books[j].title \/ (all[i].asin = books[j].asin /\ all[i].asin # Blank)

\* No book is listed twice, whichever of a site's answers repeat one.
NoneTwice ==
    LET books == Parse(got) IN
    \A i, j \in DOMAIN books :
        i # j => /\ books[i].title # books[j].title
                 /\ books[i].asin = books[j].asin => books[i].asin = Blank
=============================================================================
