------------------------------ MODULE Library -------------------------------
(***************************************************************************)
(* The family's books (internal/store/books.go, calibrebooks.go, merge.go, *)
(* boxsets.go, catalogs.go, libraries.go, events.go, eventarchive.go) and  *)
(* the sync with Calibre (internal/calibre): one goroutine at a time files *)
(* what Calibre has while imports, removals, box sets, events and merges   *)
(* run, Calibre itself is edited, and the process dies.                    *)
(*                                                                         *)
(* One SQL statement, or transaction, is one step.  A title stands for the *)
(* key made of title and author (NormKey).  A book's rating and notes are  *)
(* part of its row: what loses the row loses them.                         *)
(***************************************************************************)
EXTENDS Naturals, FiniteSets

CONSTANTS
    Title,      \* titles that occur
    BoxTitle,   \* those that look like box sets
    Entry,      \* ids of Calibre's books
    Fileless,   \* the entries without a file
    Event,      \* bound: events that exist at once
    Req,        \* bound: requests under way at once
    MaxAsked,   \* bound: requests made
    MaxEdits,   \* bound: changes of Calibre, by hand or by choosing another library
    MaxList,    \* bound: books of one import, event or box set
    Id,         \* bound: book ids in use at once
    None

ASSUME LibraryAssumption ==
    /\ BoxTitle \subseteq Title
    /\ Entry \subseteq Nat
    /\ Fileless \subseteq Entry /\ Id \subseteq Nat
    /\ {MaxAsked, MaxEdits, MaxList} \subseteq Nat
    /\ None \notin Title \cup Id \cup Event \cup Entry
    /\ "sync" \notin Req

Sync == "sync"
Proc == Req \cup {Sync}
Catalog == {"Calibre", "Shelf", "Events"}   \* one imported library stands for them all

\* catalog_books: Calibre moves a book's folder when its title changes, and
\* an entry without files has a placeholder path.
CalibrePath(e, t) == IF e \in Fileless THEN <<e, None>> ELSE <<e, t>>
CalibreLink(e, i, t) == [cat |-> "Calibre", book |-> i, ext |-> e, path |-> CalibrePath(e, t)]
ListLink(c, i, t) == [cat |-> c, book |-> i, ext |-> None, path |-> <<None, t>>]

VARIABLES
    key, title,     \* books.norm_key and books.title (key None: no such row)
    links,          \* catalog_books
    alias,          \* book_aliases
    box,            \* box_sets.state
    members,        \* box_members
    events, listed, \* events, event_books
    calibre,        \* what Calibre has: its metadata.db
    at, job,        \* each request and the sync: where it is, its locals
    sync,           \* the locals of calibre.Sync
    asked, edits,   \* how many requests were made, and changes of Calibre
    disturbed,      \* history: since the sync began a request merged or deleted books
    settled,        \* history: the book an entry, unedited since, was filed under
    kept            \* history: the book a renamed entry should stay on, nothing else being done

rows    == <<key, title, alias, box>>
lists   == <<members, events, listed>>
history == <<disturbed, settled, kept>>
world   == <<calibre, edits, asked>>
vars    == <<rows, links, lists, world, at, job, sync, history>>

NoJob == [kind |-> "none", todo |-> {}, title |-> None, key |-> None, row |-> None, other |-> None,
          event |-> None, lib |-> TRUE, existed |-> FALSE, some |-> FALSE]
NoSync == [snap |-> [e \in Entry |-> None], todo |-> {}, cur |-> None, keep |-> {}, seen |-> {},
           drop |-> {}, stale |-> {}]
Nothing == [e \in Entry |-> None]

Least(S) == CHOOSE x \in S : \A y \in S : x <= y
Book == {i \in Id : key[i] # None}
Keyed(t) == {i \in Id : key[i] = t}
Calibres(ls) == {l \in ls : l.cat = "Calibre"}
Orphans(ls) == {i \in Book : \A l \in ls : l.book # i}
\* Where a title belongs: the book it was merged into, or its own.
Filed(t, i) == IF alias[t] # None THEN alias[t] = i ELSE key[i] = t

TypeOK ==
    /\ key \in [Id -> Title \cup {None}] /\ title \in [Id -> Title \cup {None}]
    /\ \A i, j \in Book : key[i] = key[j] => i = j
    /\ \A l \in links : l.cat \in Catalog /\ l.book \in Book
    /\ \A t \in Title : alias[t] \in Book \cup {None}
    /\ \A i \in Id : box[i] \in {None, "found", "split", "not_box"} /\ (box[i] # None => i \in Book)
    /\ \A m \in members : m.box \in Book /\ m.book \in Book
    /\ events \subseteq Event /\ \A x \in listed : x.event \in events /\ x.book \in Book
    /\ calibre \in [Entry -> Title \cup {None}]
    /\ \A p \in Proc : at[p] = "idle" => job[p] = NoJob
    /\ at[Sync] = "idle" => sync = NoSync

Init ==
    /\ key = [i \in Id |-> None] /\ title = [i \in Id |-> None]
    /\ links = {} /\ alias = [t \in Title |-> None] /\ box = [i \in Id |-> None]
    /\ members = {} /\ events = {} /\ listed = {}
    /\ calibre \in [Entry -> Title \cup {None}]
    /\ at = [p \in Proc |-> "idle"] /\ job = [p \in Proc |-> NoJob] /\ sync = NoSync
    /\ asked = 0 /\ edits = 0
    /\ disturbed = FALSE /\ settled = Nothing /\ kept = Nothing

\* ids are never used again (AUTOINCREMENT): a new one is none that a row, a
\* local variable or the history still holds.
Held == Book \cup {job[p].row : p \in Proc} \cup {job[p].other : p \in Proc}
    \cup {s[1] : s \in sync.seen \cup sync.stale} \cup {settled[e] : e \in Entry} \cup {kept[e] : e \in Entry}
Fresh == Id \ Held

\* Deleting books: everything that refers to them goes too (ON DELETE CASCADE).
DeleteBooks(gone, ls) ==
    /\ key' = [i \in Id |-> IF i \in gone THEN None ELSE key[i]]
    /\ title' = [i \in Id |-> IF i \in gone THEN None ELSE title[i]]
    /\ box' = [i \in Id |-> IF i \in gone THEN None ELSE box[i]]
    /\ alias' = [t \in Title |-> IF alias[t] \in gone THEN None ELSE alias[t]]
    /\ links' = {l \in ls : l.book \notin gone}
    /\ members' = {m \in members : m.box \notin gone /\ m.book \notin gone}
    /\ listed' = {x \in listed : x.book \notin gone}

Goto(p, place) == at' = [at EXCEPT ![p] = place]
Set(p, j) == job' = [job EXCEPT ![p] = j]
End(p) == Goto(p, "idle") /\ Set(p, NoJob)
\* On to the next book of the list.
Move(p) ==
    /\ Goto(p, "next")
    /\ Set(p, [job[p] EXCEPT !.title = None, !.key = None, !.row = None, !.existed = FALSE])
\* A request that writes: a rename under way is not the only thing being done.
Deletes == disturbed' = (at[Sync] # "idle" /\ (disturbed \/ Book' # Book))
Writes(p) == kept' = IF p = Sync THEN kept ELSE Nothing

-----------------------------------------------------------------------------
(* UpsertBook, called by the sync, imports, events and box sets.           *)

\* aliasKey: a title merged into another book joins it.
AliasKey(p) ==
    LET t == job[p].title IN
    /\ at[p] = "alias"
    /\ Set(p, [job[p] EXCEPT !.key = IF alias[t] # None THEN key[alias[t]] ELSE t])
    /\ Goto(p, "insert")
    /\ UNCHANGED <<rows, links, lists, world, sync, history>>

Insert(p) ==
    /\ at[p] = "insert"
    /\ \/ /\ Keyed(job[p].key) # {}         \* ON CONFLICT: fills in what is missing
          /\ UNCHANGED <<key, title>>
       \/ /\ Keyed(job[p].key) = {}
          /\ Fresh # {}
          /\ key' = [key EXCEPT ![Least(Fresh)] = job[p].key]
          /\ title' = [title EXCEPT ![Least(Fresh)] = job[p].title]
    /\ Goto(p, "select")
    /\ Writes(p)
    /\ UNCHANGED <<alias, box, links, lists, world, job, sync, disturbed, settled>>

AfterUpsert == [sync |-> "copy", import |-> "copy", event |-> "count", split |-> "member"]

\* The book is gone again: its title is left out.
Select(p) ==
    /\ at[p] = "select"
    /\ \/ /\ Keyed(job[p].key) = {}
          /\ Move(p)
       \/ \E i \in Keyed(job[p].key) :
            IF job[p].kind = "split" /\ i = job[p].other THEN Move(p)
            ELSE /\ Set(p, [job[p] EXCEPT !.row = i])
                 /\ Goto(p, AfterUpsert[job[p].kind])
    /\ UNCHANGED <<rows, links, lists, world, sync, history>>

-----------------------------------------------------------------------------
(* calibre.Sync, under Syncer.mu.                                          *)

\* A renamed entry that is alone with its book, and whose new title nothing
\* else has or had: followRename is to rename the book.
Renames(e) == {i \in Book :
    /\ {l.book : l \in {m \in links : m.cat = "Calibre" /\ m.ext = e}} = {i}
    /\ \A l \in links : l.book = i => l.cat = "Calibre" /\ l.ext = e
    /\ calibre[e] \notin {None, title[i], key[i]}
    /\ Keyed(calibre[e]) = {} /\ alias[calibre[e]] = None
    /\ \A d \in Entry \ {e} : /\ calibre[d] \notin {key[i], calibre[e]}
                              /\ calibre[d] # None => alias[calibre[d]] # i}

\* The sync reads Calibre's books once, at its start.
StartSync ==
    /\ at[Sync] = "idle"
    /\ sync' = [NoSync EXCEPT !.snap = calibre, !.todo = {e \in Entry : calibre[e] # None}]
    /\ Goto(Sync, "next")
    /\ Set(Sync, [NoJob EXCEPT !.kind = "sync"])
    /\ kept' = [e \in Entry |-> IF calibre[e] # None /\ Renames(e) # {} THEN CHOOSE i \in Renames(e) : TRUE ELSE None]
    /\ UNCHANGED <<rows, links, lists, world, disturbed, settled>>

\* Entries are read in the order of their ids.
NextEntry ==
    /\ at[Sync] = "next" /\ sync.todo # {}
    /\ LET e == Least(sync.todo) IN
       /\ sync' = [sync EXCEPT !.todo = @ \ {e}, !.cur = e]
       /\ Set(Sync, [job[Sync] EXCEPT !.title = sync.snap[e]])
    /\ Goto(Sync, "follow")
    /\ UNCHANGED <<rows, links, lists, world, history>>

\* followRename: the book the entry has been filed under.
FollowRead ==
    LET old == {l \in links : l.cat = "Calibre" /\ l.ext = sync.cur} IN
    /\ at[Sync] = "follow"
    /\ \/ /\ old = {} \/ \E l \in old : title[l.book] = job[Sync].title
          /\ Goto(Sync, "alias") /\ UNCHANGED job
       \/ \E l \in old :
            /\ title[l.book] # job[Sync].title
            /\ Set(Sync, [job[Sync] EXCEPT !.row = l.book])
            /\ Goto(Sync, IF key[l.book] = job[Sync].title THEN "rename" ELSE "others")
    /\ UNCHANGED <<rows, links, lists, world, sync, history>>

\* Mutant: the entry's own copies count as others.
FollowOthersOwn ==
    LET t == job[Sync].title IN
    /\ at[Sync] = "others"
    /\ Goto(Sync, IF /\ \A l \in links : l.book # job[Sync].row
                     /\ Keyed(t) = {} /\ alias[t] = None THEN "rename" ELSE "alias")
    /\ UNCHANGED <<rows, links, lists, world, job, sync, history>>

\* Another copy of the book, or a book with the new title: no rename.
FollowOthers ==
    LET t == job[Sync].title
        others == {l \in links : l.book = job[Sync].row /\ ~(l.cat = "Calibre" /\ l.ext = sync.cur)} IN
    /\ at[Sync] = "others"
    /\ Goto(Sync, IF others = {} /\ Keyed(t) = {} /\ alias[t] = None THEN "rename" ELSE "alias")
    /\ UNCHANGED <<rows, links, lists, world, job, sync, history>>

\* A key that another book took meanwhile makes the UPDATE fail, and the sync
\* leaves the entry out.
FollowRename ==
    LET i == job[Sync].row
        t == job[Sync].title
        clash == i \in Book /\ Keyed(t) \ {i} # {} IN
    /\ at[Sync] = "rename"
    /\ \/ /\ clash
          /\ Move(Sync)
          /\ UNCHANGED <<key, title>>
       \/ /\ ~clash
          /\ key' = IF i \in Book THEN [key EXCEPT ![i] = t] ELSE key
          /\ title' = IF i \in Book THEN [title EXCEPT ![i] = t] ELSE title
          /\ Goto(Sync, "alias")
          /\ Set(Sync, [job[Sync] EXCEPT !.row = None])
    /\ UNCHANGED <<alias, box, links, lists, world, sync, history>>

\* AddCalibreCopy: a book that is gone again fails the whole sync.
SyncCopy ==
    LET e == sync.cur
        i == job[Sync].row
        t == job[Sync].title IN
    /\ at[Sync] = "copy"
    /\ \/ /\ i \notin Book
          /\ End(Sync) /\ sync' = NoSync /\ disturbed' = FALSE /\ kept' = Nothing
          /\ UNCHANGED <<links, settled>>
       \/ /\ i \in Book
          /\ links' = links \cup {CalibreLink(e, i, t)}
          /\ sync' = [sync EXCEPT !.keep = @ \cup {e}, !.seen = @ \cup {<<i, CalibrePath(e, t)>>}]
          /\ settled' = IF calibre[e] = t /\ Filed(t, i) THEN [settled EXCEPT ![e] = i] ELSE settled
          /\ Move(Sync)
          /\ UNCHANGED <<disturbed, kept>>
    /\ UNCHANGED <<rows, lists, world>>

\* PruneCatalog: the entries that are not in Calibre any more.
PruneRead ==
    /\ at[Sync] = "next" /\ sync.todo = {}
    /\ sync' = [sync EXCEPT !.cur = None, !.drop = {l.ext : l \in Calibres(links)} \ sync.keep]
    /\ Goto(Sync, "prune")
    /\ UNCHANGED <<rows, links, lists, world, job, history>>

PruneEntry ==
    /\ at[Sync] = "prune"
    /\ \E e \in sync.drop :
         /\ links' = {l \in links : ~(l.cat = "Calibre" /\ l.ext = e)}
         /\ sync' = [sync EXCEPT !.drop = @ \ {e}]
    /\ UNCHANGED <<rows, lists, world, at, job, history>>

\* Books without any copy go, whoever they belonged to.
PruneBooks ==
    /\ at[Sync] = "prune" /\ sync.drop = {}
    /\ DeleteBooks(Orphans(links), links)
    /\ Goto(Sync, "read")
    /\ UNCHANGED <<events, world, job, sync, history>>

\* Mutant: a link is stale only when its whole entry was not seen.
StaleReadEntries ==
    /\ at[Sync] = "read"
    /\ sync' = [sync EXCEPT !.stale = {<<l.book, l.path>> : l \in {m \in Calibres(links) : m.ext \notin sync.keep}}]
    /\ Goto(Sync, "stale")
    /\ UNCHANGED <<rows, links, lists, world, job, history>>

\* PruneStaleCopies: the links the sync did not see.
StaleRead ==
    /\ at[Sync] = "read"
    /\ sync' = [sync EXCEPT !.stale = {<<l.book, l.path>> : l \in Calibres(links)} \ sync.seen]
    /\ Goto(Sync, "stale")
    /\ UNCHANGED <<rows, links, lists, world, job, history>>

StaleLink ==
    /\ at[Sync] = "stale"
    /\ \E s \in sync.stale :
         /\ links' = {l \in links : ~(l.cat = "Calibre" /\ <<l.book, l.path>> = s)}
         /\ sync' = [sync EXCEPT !.stale = @ \ {s}]
    /\ UNCHANGED <<rows, lists, world, at, job, history>>

EndSync ==
    /\ at[Sync] = "stale" /\ sync.stale = {}
    /\ DeleteBooks(Orphans(links), links)
    /\ End(Sync) /\ sync' = NoSync
    /\ disturbed' = FALSE /\ kept' = Nothing
    /\ UNCHANGED <<events, world, settled>>

SyncStep ==
    \/ StartSync \/ NextEntry \/ FollowRead \/ FollowOthers \/ FollowRename
    \/ AliasKey(Sync) \/ Insert(Sync) \/ Select(Sync) \/ SyncCopy
    \/ PruneRead \/ PruneEntry \/ PruneBooks \/ StaleRead \/ StaleLink \/ EndSync

-----------------------------------------------------------------------------
(* Requests.                                                               *)

Asks == asked < MaxAsked /\ asked' = asked + 1

Begin(r, j, place) ==
    /\ at[r] = "idle" /\ Asks
    /\ Goto(r, place)
    /\ Set(r, j)
    /\ UNCHANGED <<calibre, edits, sync, settled>>

Lists == {ts \in SUBSET Title : ts # {} /\ Cardinality(ts) <= MaxList}

\* The books of an import, an event or a box set, one after the other.
NextTitle(r) ==
    /\ at[r] = "next"
    /\ \E t \in job[r].todo :
         Set(r, [job[r] EXCEPT !.todo = @ \ {t}, !.title = t])
    /\ Goto(r, IF job[r].kind = "split" THEN "before" ELSE "alias")
    /\ UNCHANGED <<rows, links, lists, world, sync, history>>

ListEnds(r) ==
    /\ at[r] = "next" /\ job[r].todo = {}
    /\ IF job[r].some THEN Goto(r, "decide") /\ UNCHANGED job ELSE End(r)
    /\ UNCHANGED <<rows, links, lists, world, sync, history>>

\* handleImportDrive; saveLookup and the paper shelves do the same for one book.
Import(r) == \E ts \in Lists :
    /\ Begin(r, [NoJob EXCEPT !.kind = "import", !.todo = ts], "next")
    /\ UNCHANGED <<rows, links, lists, disturbed, kept>>

\* AddCopy: a book or a library that is gone again ends the request.
AddCopy(r) ==
    LET i == job[r].row IN
    /\ at[r] = "copy"
    /\ \/ /\ i \notin Book \/ ~job[r].lib
          /\ End(r) /\ UNCHANGED links
       \/ /\ i \in Book /\ job[r].lib
          /\ links' = links \cup {ListLink("Shelf", i, job[r].title)}
          /\ IF job[r].kind = "claim" THEN End(r) ELSE Move(r)
    /\ Writes(r)
    /\ UNCHANGED <<rows, lists, world, sync, disturbed, settled>>

\* RemoveFromCatalog
Remove(r) == \E i \in Book :
    /\ Begin(r, [NoJob EXCEPT !.kind = "remove", !.row = i], "orphan")
    /\ links' = {l \in links : ~(l.cat = "Shelf" /\ l.book = i)}
    /\ Writes(r)
    /\ UNCHANGED <<rows, lists, disturbed>>

\* Mutant: the book goes although another library has it.
RemoveBookAnyway(r) ==
    /\ at[r] = "orphan"
    /\ DeleteBooks({job[r].row} \cap Book, links)
    /\ End(r) /\ Writes(r) /\ Deletes
    /\ UNCHANGED <<events, world, sync, settled>>

RemoveBook(r) ==
    /\ at[r] = "orphan"
    /\ DeleteBooks({job[r].row} \cap Orphans(links), links)
    /\ End(r) /\ Writes(r) /\ Deletes
    /\ UNCHANGED <<events, world, sync, settled>>

\* DeleteCatalog, one transaction; imports into that library fail from now on.
DeleteCatalog(r) ==
    LET ls == {l \in links : l.cat # "Shelf"} IN
    /\ at[r] = "idle" /\ Asks
    /\ DeleteBooks(Orphans(ls), ls)
    /\ job' = [q \in Proc |-> IF job[q].kind \in {"import", "claim"} THEN [job[q] EXCEPT !.lib = FALSE] ELSE job[q]]
    /\ Writes(r) /\ Deletes
    /\ UNCHANGED <<events, calibre, edits, at, sync, settled>>

\* FindBoxSets, one book at a time.
FindBoxSet(r) == \E i \in Book :
    /\ at[r] = "idle" /\ Asks /\ Writes(r)
    /\ title[i] \in BoxTitle /\ box[i] = None
    /\ \E l \in links : l.book = i /\ l.cat # "Events"
    /\ \A m \in members : m.book # i
    /\ box' = [box EXCEPT ![i] = "found"]
    /\ UNCHANGED <<key, title, alias, links, lists, calibre, edits, at, job, sync, disturbed, settled>>

NotBoxSet(r) == \E i \in Book :
    /\ at[r] = "idle" /\ Asks /\ Writes(r)
    /\ box[i] # None
    /\ box' = [box EXCEPT ![i] = "not_box"]
    /\ UNCHANGED <<key, title, alias, links, lists, calibre, edits, at, job, sync, disturbed, settled>>

\* SplitBox
Split(r) == \E i \in Book, ts \in Lists :
    /\ box[i] = "found"
    /\ Begin(r, [NoJob EXCEPT !.kind = "split", !.todo = ts, !.other = i], "next")
    /\ UNCHANGED <<rows, links, lists, disturbed, kept>>

SplitBefore(r) ==
    LET t == job[r].title IN
    /\ at[r] = "before"
    /\ Set(r, [job[r] EXCEPT !.key = IF alias[t] # None THEN key[alias[t]] ELSE t])
    /\ Goto(r, "existed")
    /\ UNCHANGED <<rows, links, lists, world, sync, history>>

SplitExisted(r) ==
    /\ at[r] = "existed"
    /\ Set(r, [job[r] EXCEPT !.existed = Keyed(job[r].key) # {}])
    /\ Goto(r, "alias")
    /\ UNCHANGED <<rows, links, lists, world, sync, history>>

SplitMember(r) ==
    LET i == job[r].row
        b == job[r].other IN
    /\ at[r] = "member" /\ Writes(r)
    /\ \/ /\ {i, b} \subseteq Book
          /\ members' = IF \E m \in members : m.box = b /\ m.book = i THEN members
                        ELSE members \cup {[box |-> b, book |-> i, created |-> ~job[r].existed]}
          /\ Goto(r, "next")
          /\ Set(r, [job[r] EXCEPT !.title = None, !.key = None, !.row = None, !.existed = FALSE, !.some = TRUE])
       \/ /\ ~({i, b} \subseteq Book)
          /\ End(r) /\ UNCHANGED members
    /\ UNCHANGED <<rows, events, listed, links, world, sync, disturbed, settled>>

SplitDecide(r) ==
    LET b == job[r].other IN
    /\ at[r] = "decide" /\ Writes(r)
    /\ box' = IF box[b] # None THEN [box EXCEPT ![b] = "split"] ELSE box
    /\ End(r)
    /\ UNCHANGED <<key, title, alias, lists, links, world, sync, disturbed, settled>>

\* UndoSplit: what the split made goes, if nothing else uses it.
Undo(r) == \E b \in Book :
    /\ box[b] # None
    /\ Begin(r, [NoJob EXCEPT !.kind = "undo", !.other = b], "undo")
    /\ DeleteBooks({m.book : m \in {x \in members : x.box = b /\ x.created}} \cap
           {i \in Orphans(links) : \A m \in members : m.book = i => m.box = b}, links)
    /\ Writes(r) /\ Deletes
    /\ UNCHANGED events

UndoMembers(r) ==
    /\ at[r] = "undo" /\ Writes(r)
    /\ members' = {m \in members : m.box # job[r].other}
    /\ Goto(r, "found")
    /\ UNCHANGED <<rows, events, listed, links, world, job, sync, disturbed, settled>>

UndoFound(r) ==
    LET b == job[r].other IN
    /\ at[r] = "found" /\ Writes(r)
    /\ box' = IF box[b] # None THEN [box EXCEPT ![b] = "found"] ELSE box
    /\ End(r)
    /\ UNCHANGED <<key, title, alias, lists, links, world, sync, disturbed, settled>>

\* CreateEvent: a book no library has is filed under Events.
CreateEvent(r) == \E v \in Event \ (events \cup {job[q].event : q \in Req}), ts \in Lists :
    /\ Begin(r, [NoJob EXCEPT !.kind = "event", !.todo = ts, !.event = v], "next")
    /\ events' = events \cup {v}
    /\ UNCHANGED <<rows, links, members, listed, disturbed, kept>>

EventCopies(r) ==
    /\ at[r] = "count"
    /\ Goto(r, IF \E l \in links : l.book = job[r].row THEN "list" ELSE "file")
    /\ UNCHANGED <<rows, links, lists, world, job, sync, history>>

EventCopy(r) ==
    LET i == job[r].row IN
    /\ at[r] = "file" /\ Writes(r)
    /\ \/ /\ i \in Book
          /\ links' = links \cup {ListLink("Events", i, job[r].title)}
          /\ Goto(r, "list") /\ UNCHANGED job
       \/ i \notin Book /\ End(r) /\ UNCHANGED links
    /\ UNCHANGED <<rows, lists, world, sync, disturbed, settled>>

EventList(r) ==
    LET i == job[r].row
        v == job[r].event IN
    /\ at[r] = "list" /\ Writes(r)
    /\ \/ /\ i \in Book /\ v \in events
          /\ listed' = listed \cup {[event |-> v, book |-> i]}
          /\ Move(r)
       \/ /\ i \notin Book \/ v \notin events
          /\ End(r) /\ UNCHANGED listed
    /\ UNCHANGED <<rows, links, events, members, world, sync, disturbed, settled>>

\* DeleteEvent, then dropUnlistedEventCopies.
DeleteEvent(r) == \E v \in events :
    /\ Begin(r, [NoJob EXCEPT !.kind = "unlist"], "unlist")
    /\ events' = events \ {v}
    /\ listed' = {x \in listed : x.event # v}
    /\ Writes(r)
    /\ UNCHANGED <<rows, links, members, disturbed>>

DropUnlisted(r) ==
    /\ at[r] = "unlist" /\ Writes(r)
    /\ links' = {l \in links : l.cat # "Events" \/ \E x \in listed : x.book = l.book}
    /\ End(r)
    /\ UNCHANGED <<rows, lists, world, sync, disturbed, settled>>

\* ClaimEventBook; its copy is AddCopy's.
Claim(r) == \E x \in listed :
    /\ Begin(r, [NoJob EXCEPT !.kind = "claim", !.row = x.book], "copy")
    /\ UNCHANGED <<rows, links, lists, disturbed, kept>>

\* MergeBooks: which book is kept depends on the ratings and is free here.
Merge(r) == \E k, o \in Book :
    /\ k # o
    /\ Begin(r, [NoJob EXCEPT !.kind = "merge", !.row = k, !.other = o], "merge")
    /\ UNCHANGED <<rows, links, lists, disturbed, kept>>

MergeKey(r) ==
    LET o == job[r].other IN
    /\ at[r] = "merge"
    /\ IF o \in Book THEN Set(r, [job[r] EXCEPT !.key = key[o]]) /\ Goto(r, "tx") ELSE End(r)
    /\ UNCHANGED <<rows, links, lists, world, sync, history>>

\* The transaction; a kept book that is gone again rolls it back.
MergeTx(r) ==
    LET k == job[r].row
        o == job[r].other
        t == job[r].key
        moved(i) == IF i = o THEN k ELSE i IN
    /\ at[r] = "tx" /\ End(r)
    /\ \/ /\ k \notin Book
          /\ UNCHANGED <<rows, links, lists, history>>
       \/ /\ k \in Book
          /\ links' = {[l EXCEPT !.book = moved(@)] : l \in links}
          /\ listed' = {[x EXCEPT !.book = moved(@)] : x \in listed}
          /\ alias' = [a \in Title |-> IF a = t THEN k ELSE moved(alias[a])]
          /\ key' = [key EXCEPT ![o] = None] /\ title' = [title EXCEPT ![o] = None]
          /\ box' = [box EXCEPT ![o] = None]
          /\ members' = {m \in members : o \notin {m.box, m.book}}
          /\ disturbed' = (at[Sync] # "idle") /\ kept' = Nothing
          /\ settled' = [e \in Entry |-> IF settled[e] \in {k, o} \/ calibre[e] = t THEN None ELSE settled[e]]
          /\ UNCHANGED events
    /\ UNCHANGED <<world, sync>>

\* SetLibrary holds Syncer.mu; another library has other books under the same ids.
SetLibrary(r) == \E c \in [Entry -> Title \cup {None}] :
    /\ at[r] = "idle" /\ at[Sync] = "idle" /\ Asks
    /\ edits < MaxEdits /\ edits' = edits + 1
    /\ calibre' = c
    /\ links' = links \ Calibres(links)
    /\ settled' = Nothing /\ Writes(r)
    /\ UNCHANGED <<rows, lists, at, job, sync, disturbed>>

-----------------------------------------------------------------------------
\* A book is added to Calibre, renamed or removed there.
CalibreEdit == \E e \in Entry, t \in Title \cup {None} :
    /\ t # calibre[e]
    /\ edits < MaxEdits /\ edits' = edits + 1
    /\ calibre' = [calibre EXCEPT ![e] = t]
    /\ settled' = [settled EXCEPT ![e] = None]
    /\ UNCHANGED <<rows, links, lists, at, job, sync, asked, disturbed, kept>>

\* The process dies; the sync and the requests are not taken up again.
Crash ==
    /\ at' = [p \in Proc |-> "idle"] /\ job' = [p \in Proc |-> NoJob]
    /\ sync' = NoSync /\ disturbed' = FALSE /\ kept' = Nothing
    /\ UNCHANGED <<rows, links, lists, world, settled>>

Request(r) ==
    \/ Import(r) \/ NextTitle(r) \/ AliasKey(r) \/ Insert(r) \/ Select(r) \/ AddCopy(r) \/ ListEnds(r)
    \/ Remove(r) \/ RemoveBook(r) \/ DeleteCatalog(r) \/ SetLibrary(r)
    \/ FindBoxSet(r) \/ NotBoxSet(r)
    \/ Split(r) \/ SplitBefore(r) \/ SplitExisted(r) \/ SplitMember(r) \/ SplitDecide(r)
    \/ Undo(r) \/ UndoMembers(r) \/ UndoFound(r)
    \/ CreateEvent(r) \/ EventCopies(r) \/ EventCopy(r) \/ EventList(r)
    \/ DeleteEvent(r) \/ DropUnlisted(r) \/ Claim(r)
    \/ Merge(r) \/ MergeKey(r) \/ MergeTx(r)

Next ==
    \/ SyncStep
    \/ \E r \in Req : Request(r)
    \/ CalibreEdit
    \/ Crash

Spec == Init /\ [][Next]_vars

\* The timer asks for a sync again and again, and a sync is scheduled.
LiveSpec == Spec /\ WF_vars(SyncStep)

-----------------------------------------------------------------------------
(* Properties.                                                             *)

\* A book of a Calibre entry that nobody edited or merged keeps its row, and
\* with it its rating, notes and queue places, whatever imports, removals,
\* box sets, events and later syncs do.  (PruneCatalog, UndoSplit,
\* RemoveFromCatalog, DeleteCatalog)
CalibreKeepsBook == \A e \in Entry : settled[e] # None =>
    /\ settled[e] \in Book
    /\ \E l \in links : l.cat = "Calibre" /\ l.ext = e /\ l.book = settled[e]

\* The rows of books: what refers to one refers to one that is there, and one that an
\* untouched Calibre entry was filed under stays.
BooksKeepTheirRows == TypeOK /\ CalibreKeepsBook

\* A sync that ends well, without a merge meanwhile, leaves exactly one link
\* for each entry it filed, under the entry's title or what that was merged
\* into, and none for any other.  (calibre.Sync)
SyncMirrors == [][EndSync /\ ~disturbed =>
    /\ {l.ext : l \in Calibres(links')} = sync.keep
    /\ \A l, m \in Calibres(links') : l.ext = m.ext => l = m
    /\ \A l \in Calibres(links') : LET t == sync.snap[l.ext] IN
         /\ l.path = CalibrePath(l.ext, t)
         /\ t \in {key'[l.book], title'[l.book]} \/ alias'[t] = l.book]_vars

\* Renaming a book in Calibre keeps its row when the entry is alone with it,
\* the new title is free and nothing else writes meanwhile.  (followRename)
RenameKeepsBook == EndSync => \A e \in Entry : kept[e] # None =>
    /\ key'[kept[e]] = sync.snap[e]
    /\ CalibreLink(e, kept[e], sync.snap[e]) \in links'

\* Once nothing but the sync is at work, the Calibre library becomes what
\* Calibre has, each entry under its title or what that was merged into, and
\* no book is left without a copy, whatever merges, failed syncs and stops
\* left behind.
Mirrored ==
    /\ Calibres(links) = {CalibreLink(x[1], x[2], calibre[x[1]]) : x \in
                            {y \in Entry \X Book : calibre[y[1]] # None /\ Filed(calibre[y[1]], y[2])}}
    /\ \A e \in Entry : calibre[e] # None => \E l \in Calibres(links) : l.ext = e
    /\ Orphans(links) = {}
Converges == <>[][SyncStep]_vars => <>[]Mirrored

\* "The books of a split box set use its files and count as owned wherever
\* it is" (boxsets.go): while the box set is in a library, only a merge takes
\* one of its books away.
SplitKeepsBooks == [][\A m \in members :
    (/\ box[m.box] = "split" /\ box'[m.box] = "split"
     /\ m.book \notin Book'
     /\ \E l \in links' : l.book = m.box) => \E r \in Req : MergeTx(r)]_vars
=============================================================================
