----------------------------- MODULE Library_proofs -----------------------------
(***************************************************************************)
(* A book that an untouched Calibre entry was filed under keeps its row,   *)
(* for any number of books, entries and requests, and a sync nobody        *)
(* disturbed leaves Calibre's mirror.  An entry that was filed and not     *)
(* edited since is one the sync under way has still to file, files now, or *)
(* has kept and seen; while it files it, the key it looks for is that      *)
(* book's, and the only rename it can come to changes no key.  An entry    *)
(* that is renamed in Calibre and alone with its book stays on that book.  *)
(***************************************************************************)
EXTENDS Library, WellFoundedInduction, TLAPS

Name    == Title \cup {None}
Path    == (Entry \cup {None}) \X Name
Link    == [cat : Catalog, book : Id, ext : Entry \cup {None}, path : Path]
Listing == {"sync", "import", "event", "split"}
Kind    == Listing \cup {"none", "claim", "remove", "undo", "unlist", "merge"}

Job == [kind : Kind, todo : SUBSET Title, title : Name, key : Name, row : Id \cup {None},
        other : Id \cup {None}, event : Event \cup {None}, lib : BOOLEAN, existed : BOOLEAN, some : BOOLEAN]
SyncState == [snap : [Entry -> Name], todo : SUBSET Entry, cur : Entry \cup {None}, keep : SUBSET Entry,
              seen : SUBSET (Id \X Path), drop : SUBSET Entry, stale : SUBSET (Id \X Path)]

Place == {"idle", "next", "follow", "others", "rename", "alias", "insert", "select", "copy", "prune", "read",
          "stale", "orphan", "before", "existed", "member", "decide", "undo", "found", "count", "file", "list",
          "unlist", "merge", "tx"}
Filing == {"follow", "others", "rename", "alias", "insert", "select", "copy"}
Ending == {"prune", "read", "stale"}

Shapes ==
    /\ links \subseteq Link
    /\ \A l \in Calibres(links) : l.ext \in Entry /\ l.path[1] = l.ext
    /\ alias \in [Title -> Id \cup {None}]
    /\ box \in [Id -> {None, "found", "split", "not_box"}]
    /\ listed \subseteq [event : Event, book : Id]

\* What a request or the sync carries from one of its steps to the next.
Fits(place, j) ==
    /\ place \in {"next", "before", "existed", "alias", "insert", "select", "member", "count", "file", "list"}
         => j.kind \in Listing
    /\ place = "copy" => j.kind \in Listing \cup {"claim"}
    /\ place \in {"before", "existed", "alias", "insert", "select"} => j.title \in Title
    /\ place \in {"insert", "tx"} => j.key \in Title
    /\ place \in {"merge", "tx"} => j.row # j.other /\ j.other \in Id

Jobs ==
    /\ at \in [Proc -> Place] /\ job \in [Proc -> Job]
    /\ \A p \in Proc : Fits(at[p], job[p])

SyncFits ==
    /\ sync \in SyncState
    /\ at[Sync] \in {"idle", "next"} \cup Filing \cup Ending
    /\ at[Sync] # "idle" => job[Sync].kind = "sync"
    /\ at[Sync] \in Filing =>
         /\ sync.cur \in Entry /\ sync.cur \notin sync.todo \cup sync.keep
         /\ job[Sync].title = sync.snap[sync.cur] /\ job[Sync].title \in Title
    /\ sync.todo \cap sync.keep = {}
    /\ \A e \in sync.todo : sync.snap[e] \in Title
    /\ at[Sync] = "prune" => sync.drop \cap sync.keep = {}
    /\ at[Sync] = "stale" => sync.stale \cap sync.seen = {}

\* Where the sync is with an entry that was filed under book i and not edited since.
OnItsWay(e, i) ==
    /\ sync.snap[e] = calibre[e]
    /\ at[Sync] = "next" => e \in sync.todo \cup sync.keep
    /\ at[Sync] \in Filing => e \in sync.todo \cup sync.keep \cup {sync.cur}
    /\ at[Sync] \in Ending => e \in sync.keep
    /\ e \in sync.keep => <<i, CalibrePath(e, calibre[e])>> \in sync.seen
    /\ at[Sync] \in {"insert", "select"} /\ e = sync.cur => job[Sync].key = key[i]
    /\ at[Sync] = "copy" /\ e = sync.cur => job[Sync].row = i
    /\ at[Sync] = "rename" /\ (e = sync.cur \/ i = job[Sync].row) /\ job[Sync].row \in Book
         => key[job[Sync].row] = job[Sync].title

Settled ==
    /\ settled \in [Entry -> Id \cup {None}]
    /\ \A e \in Entry : settled[e] # None =>
         /\ settled[e] \in Book /\ calibre[e] \in Title
         /\ CalibreLink(e, settled[e], calibre[e]) \in links
         /\ Filed(calibre[e], settled[e])
         /\ at[Sync] # "idle" => OnItsWay(e, settled[e])

IInv == TypeOK /\ Shapes /\ Jobs /\ SyncFits /\ Settled

-----------------------------------------------------------------------------
(* The rows and what refers to them.                                       *)

\* The part of TypeOK that is about rows, and the shapes of what refers to them.
RowsFit ==
    /\ key \in [Id -> Name] /\ title \in [Id -> Name]
    /\ \A i, j \in Book : key[i] = key[j] => i = j
    /\ \A l \in links : l.cat \in Catalog /\ l.book \in Book
    /\ \A t \in Title : alias[t] \in Book \cup {None}
    /\ \A i \in Id : box[i] \in {None, "found", "split", "not_box"} /\ (box[i] # None => i \in Book)
    /\ \A m \in members : m.box \in Book /\ m.book \in Book
    /\ events \subseteq Event /\ \A x \in listed : x.event \in events /\ x.book \in Book
    /\ Shapes

\* TypeOK in two parts.
LEMMA TypeSplit ==
    TypeOK /\ Shapes <=>
    /\ RowsFit
    /\ calibre \in [Entry -> Name]
    /\ \A p \in Proc : at[p] = "idle" => job[p] = NoJob
    /\ at[Sync] = "idle" => sync = NoSync
  BY DEF TypeOK, RowsFit, Name

\* A nonempty set of numbers has a least one.
LEMMA LeastIsIn ==
    ASSUME NEW S \in SUBSET Nat, S # {}
    PROVE  Least(S) \in S
<1>1. PICK x \in S : \A y \in S : <<y, x>> \notin OpToRel(<, Nat)
  BY NatLessThanWellFounded, WFMin
<1>2. ASSUME NEW y \in S
      PROVE  x <= y
  <2>1. x \in Nat /\ y \in Nat
    OBVIOUS
  <2>2. ~(y < x)
    BY <1>1, <2>1 DEF OpToRel
  <2>. QED
    BY <2>1, <2>2
<1>. QED
  BY <1>2 DEF Least

\* A new book takes a number nobody holds.
LEMMA FreshIsFree ==
    ASSUME Fresh # {}
    PROVE  Least(Fresh) \in Id /\ Least(Fresh) \notin Held
  BY LeastIsIn, LibraryAssumption DEF Fresh

\* Deleting books leaves nothing that refers to them.
LEMMA DeletedCleanly ==
    ASSUME RowsFit, NEW gone \in SUBSET Id, NEW ls \in SUBSET links, DeleteBooks(gone, ls), events' = events
    PROVE  RowsFit'
<1>. USE DEF RowsFit, DeleteBooks, Name
<1>1. Book' = Book \ gone
  BY DEF Book
<1>2. (key \in [Id -> Name] /\ title \in [Id -> Name])'
  OBVIOUS
<1>3. (\A i, j \in Book : key[i] = key[j] => i = j)'
  BY <1>1 DEF Book
<1>4. (\A l \in links : l.cat \in Catalog /\ l.book \in Book)'
  BY <1>1
<1>5. (\A t \in Title : alias[t] \in Book \cup {None})'
  BY <1>1
<1>6. (\A i \in Id : box[i] \in {None, "found", "split", "not_box"} /\ (box[i] # None => i \in Book))'
  BY <1>1
<1>7. (\A m \in members : m.box \in Book /\ m.book \in Book)'
  BY <1>1
<1>8. (events \subseteq Event /\ \A x \in listed : x.event \in events /\ x.book \in Book)'
  BY <1>1
<1>9. Shapes'
  BY DEF Shapes, Calibres
<1>. QED
  BY <1>2, <1>3, <1>4, <1>5, <1>6, <1>7, <1>8, <1>9

-----------------------------------------------------------------------------
(* One step and the rows.                                                  *)

\* What files, deletes and merges books keeps the rows and what refers to them in order.
LEMMA InsertKeepsRows ==
    ASSUME IInv, NEW p \in Proc, Insert(p)
    PROVE  RowsFit'
<1>. USE DEF RowsFit, Insert, Name
<1>1. RowsFit /\ job[p].key \in Title /\ job[p].title \in Title
  BY TypeSplit DEF IInv, Jobs, Fits
<1>2. CASE UNCHANGED <<key, title>>
  BY <1>1, <1>2 DEF Book, Shapes, Calibres, lists
<1>3. CASE /\ Keyed(job[p].key) = {}
           /\ Fresh # {}
           /\ key' = [key EXCEPT ![Least(Fresh)] = job[p].key]
           /\ title' = [title EXCEPT ![Least(Fresh)] = job[p].title]
  <2>1. PICK n \in Id : n = Least(Fresh) /\ n \notin Book
    BY <1>3, FreshIsFree DEF Held
  <2>2. Book' = Book \cup {n}
    BY <1>1, <1>3, <2>1, LibraryAssumption DEF Book
  <2>3. (key \in [Id -> Name] /\ title \in [Id -> Name])'
    BY <1>1, <1>3, <2>1
  <2>4. (\A i, j \in Book : key[i] = key[j] => i = j)'
    BY <1>1, <1>3, <2>1, <2>2 DEF Keyed, Book
  <2>5. UNCHANGED <<links, alias, box, members, events, listed>>
    BY DEF lists
  <2>6. Shapes'
    BY <1>1, <2>5 DEF Shapes, Calibres
  <2>. QED
    BY <1>1, <2>2, <2>3, <2>4, <2>5, <2>6
<1>. QED
  BY <1>2, <1>3

LEMMA RenameKeepsRows ==
    ASSUME IInv, FollowRename
    PROVE  RowsFit'
<1>. USE DEF RowsFit, FollowRename, Name
<1>1. RowsFit /\ Sync \in Proc
  BY TypeSplit DEF IInv, Proc
<1>2. job[Sync].title \in Title
  BY DEF IInv, SyncFits, Filing
<1>3. UNCHANGED <<links, alias, box, members, events, listed>>
  BY DEF lists
<1>4. Shapes'
  BY <1>1, <1>3 DEF Shapes, Calibres
<1>5. Book' = Book /\ (key \in [Id -> Name] /\ title \in [Id -> Name])'
  BY <1>1, <1>2, LibraryAssumption DEF Book
<1>6. (\A i, j \in Book : key[i] = key[j] => i = j)'
  BY <1>1, <1>2, <1>5 DEF Book, Keyed
<1>. QED
  BY <1>1, <1>3, <1>4, <1>5, <1>6

LEMMA MergeKeepsRows ==
    ASSUME IInv, NEW r \in Req, MergeTx(r)
    PROVE  RowsFit'
<1>. DEFINE k == job[r].row
            o == job[r].other
            moved(i) == IF i = o THEN k ELSE i
            home(l) == [l EXCEPT !.book = moved(@)]
<1>. USE DEF RowsFit, Name
<1>1. RowsFit /\ r \in Proc
  BY TypeSplit DEF IInv, Proc
<1>2. k # o
  BY <1>1 DEF IInv, Jobs, Fits, MergeTx
<1>3. CASE k \notin Book
  BY <1>1, <1>3 DEF MergeTx, rows, lists, Book, Shapes, Calibres
<1>4. CASE k \in Book
  <2>1. /\ links' = {home(l) : l \in links}
        /\ listed' = {home(x) : x \in listed}
        /\ alias' = [a \in Title |-> IF a = job[r].key THEN k ELSE moved(alias[a])]
        /\ key' = [key EXCEPT ![o] = None] /\ title' = [title EXCEPT ![o] = None]
        /\ box' = [box EXCEPT ![o] = None]
        /\ members' = {m \in members : o \notin {m.box, m.book}}
        /\ events' = events
    BY <1>4 DEF MergeTx
  <2>2. Book' = Book \ {o} /\ k \in Book'
    BY <1>1, <1>2, <1>4, <2>1 DEF Book
  <2>3. (key \in [Id -> Name] /\ title \in [Id -> Name])'
    BY <1>1, <2>1
  <2>4. (\A i, j \in Book : key[i] = key[j] => i = j)'
    BY <1>1, <2>1, <2>2 DEF Book
  <2>5. \A l \in links : /\ home(l) \in Link /\ home(l).book \in Book'
                         /\ home(l).cat = l.cat /\ home(l).ext = l.ext /\ home(l).path = l.path
    BY <1>1, <2>2, <1>4 DEF Shapes, Link, Book
  <2>10. \A x \in listed : /\ home(x) \in [event : Event, book : Id]
                           /\ home(x).book \in Book' /\ home(x).event = x.event
    BY <1>1, <2>2, <1>4 DEF Shapes, Book
  <2>. HIDE DEF home
  <2>6. (\A l \in links : l.cat \in Catalog /\ l.book \in Book)'
    BY <1>1, <2>1, <2>5
  <2>7. (\A t \in Title : alias[t] \in Book \cup {None})'
    BY <1>1, <2>1, <2>2
  <2>8. (\A i \in Id : box[i] \in {None, "found", "split", "not_box"} /\ (box[i] # None => i \in Book))'
    BY <1>1, <2>1, <2>2 DEF Shapes
  <2>9. (\A m \in members : m.box \in Book /\ m.book \in Book)'
    BY <1>1, <2>1, <2>2
  <2>11. (events \subseteq Event /\ \A x \in listed : x.event \in events /\ x.book \in Book)'
    BY <1>1, <2>1, <2>10
  <2>12. (/\ links \subseteq Link
          /\ \A l \in Calibres(links) : l.ext \in Entry /\ l.path[1] = l.ext)'
    BY <1>1, <2>1, <2>5 DEF Shapes, Calibres
  <2>13. (alias \in [Title -> Id \cup {None}])'
    BY <1>1, <2>1, <1>4 DEF Shapes, Book
  <2>14. (listed \subseteq [event : Event, book : Id])'
    BY <2>1, <2>10
  <2>15. (box \in [Id -> {None, "found", "split", "not_box"}])'
    BY <1>1, <2>1 DEF Shapes
  <2>16. Shapes'
    BY <2>12, <2>13, <2>14, <2>15 DEF Shapes
  <2>. QED
    BY <2>3, <2>4, <2>6, <2>7, <2>8, <2>9, <2>11, <2>16
<1>. QED
  BY <1>3, <1>4

\* The links that are made are links.
LEMMA NewLinks ==
    ASSUME NEW i \in Id, NEW t \in Name
    PROVE  /\ \A e \in Entry : LET l == CalibreLink(e, i, t) IN
                /\ l \in Link /\ l.cat = "Calibre" /\ l.book = i /\ l.ext = e
                /\ l.path = CalibrePath(e, t) /\ l.path[1] = e
           /\ \A c \in {"Shelf", "Events"} : LET l == ListLink(c, i, t) IN
                l \in Link /\ l.cat = c /\ l.book = i
  BY DEF CalibreLink, CalibrePath, ListLink, Link, Path, Catalog, Name

\* What only adds or takes away links, lists and marks of books that are there.
LEMMA StepKeepsRows ==
    ASSUME IInv, Next
    PROVE  RowsFit'
<1>1. RowsFit /\ Sync \in Proc /\ Req \subseteq Proc
  BY TypeSplit DEF IInv, Proc
<1>2. Jobs /\ SyncFits
  BY DEF IInv
<1>3. ASSUME UNCHANGED <<rows, links, lists>>
      PROVE  RowsFit'
  BY <1>1, <1>3 DEF RowsFit, Shapes, Calibres, Book, rows, lists
<1>4. ASSUME UNCHANGED <<rows, lists>>, links' \subseteq Link,
             \A l \in links' : l \in links \/ (/\ l.cat \in Catalog /\ l.book \in Book
                                            /\ (l.cat = "Calibre" => l.ext \in Entry /\ l.path[1] = l.ext))
      PROVE  RowsFit'
  <2>1. Shapes'
    BY <1>1, <1>4 DEF RowsFit, Shapes, Calibres, rows, lists
  <2>. QED
    BY <2>1, <1>1, <1>4 DEF RowsFit, Book, rows, lists
<1>5. CASE SyncStep
  <2>1. CASE StartSync \/ NextEntry \/ FollowRead \/ FollowOthers \/ AliasKey(Sync) \/ Select(Sync)
             \/ PruneRead \/ StaleRead
    BY <2>1, <1>3 DEF StartSync, NextEntry, FollowRead, FollowOthers, AliasKey, Select, PruneRead, StaleRead
  <2>2. CASE FollowRename
    BY <2>2, RenameKeepsRows
  <2>3. CASE Insert(Sync)
    BY <2>3, <1>1, InsertKeepsRows
  <2>4. CASE SyncCopy
    <3>1. CASE UNCHANGED links
      BY <2>4, <3>1, <1>3 DEF SyncCopy
    <3>2. CASE job[Sync].row \in Book /\ links' = links \cup {CalibreLink(sync.cur, job[Sync].row, job[Sync].title)}
      <4>1. sync.cur \in Entry /\ job[Sync].title \in Title
        BY <1>2, <2>4 DEF SyncFits, Filing, SyncCopy
      <4>2. PICK l \in Link : l = CalibreLink(sync.cur, job[Sync].row, job[Sync].title) /\ l.cat = "Calibre"
                              /\ l.book = job[Sync].row /\ l.ext = sync.cur /\ l.path[1] = sync.cur
        BY <3>2, <4>1, NewLinks DEF Book, Name
      <4>3. UNCHANGED <<rows, lists>> /\ links' = links \cup {l} /\ links \subseteq Link
        BY <1>1, <3>2, <4>2, <2>4 DEF SyncCopy, RowsFit, Shapes
      <4>. QED
        BY <1>4, <3>2, <4>1, <4>2, <4>3 DEF Catalog
    <3>. QED
      BY <2>4, <3>1, <3>2 DEF SyncCopy
  <2>5. CASE PruneEntry \/ StaleLink
    BY <2>5, <1>1, <1>4 DEF PruneEntry, StaleLink, RowsFit, Shapes
  <2>6. CASE PruneBooks \/ EndSync
    BY <2>6, <1>1, DeletedCleanly DEF PruneBooks, EndSync, Orphans, Book
  <2>. QED
    BY <1>5, <2>1, <2>2, <2>3, <2>4, <2>5, <2>6 DEF SyncStep
<1>6. CASE \E r \in Req : Request(r)
  <2>. PICK r \in Req : Request(r)
    BY <1>6
  <2>1. CASE Import(r) \/ NextTitle(r) \/ AliasKey(r) \/ Select(r) \/ ListEnds(r) \/ Split(r) \/ SplitBefore(r)
             \/ SplitExisted(r) \/ EventCopies(r) \/ Claim(r) \/ Merge(r) \/ MergeKey(r)
    BY <2>1, <1>3 DEF Import, NextTitle, AliasKey, Select, ListEnds, Split, SplitBefore, SplitExisted,
         EventCopies, Claim, Merge, MergeKey
  <2>2. CASE Insert(r)
    BY <2>2, <1>1, InsertKeepsRows
  <2>3. CASE MergeTx(r)
    BY <2>3, MergeKeepsRows
  <2>4. CASE AddCopy(r)
    <3>1. CASE UNCHANGED links
      BY <2>4, <3>1, <1>3 DEF AddCopy
    <3>2. CASE job[r].row \in Book /\ links' = links \cup {ListLink("Shelf", job[r].row, job[r].title)}
      <4>1. PICK l \in Link : l = ListLink("Shelf", job[r].row, job[r].title) /\ l.cat = "Shelf" /\ l.book = job[r].row
        BY <1>1, <1>2, <3>2, NewLinks DEF Book, Jobs, Job
      <4>2. UNCHANGED <<rows, lists>> /\ links' = links \cup {l} /\ links \subseteq Link
        BY <1>1, <3>2, <4>1, <2>4 DEF AddCopy, RowsFit, Shapes
      <4>. QED
        BY <1>4, <3>2, <4>1, <4>2 DEF Catalog
    <3>. QED
      BY <2>4, <3>1, <3>2 DEF AddCopy
  <2>5. CASE EventCopy(r)
    <3>1. CASE UNCHANGED links
      BY <2>5, <3>1, <1>3 DEF EventCopy
    <3>2. CASE job[r].row \in Book /\ links' = links \cup {ListLink("Events", job[r].row, job[r].title)}
      <4>1. PICK l \in Link : l = ListLink("Events", job[r].row, job[r].title) /\ l.cat = "Events" /\ l.book = job[r].row
        BY <1>1, <1>2, <3>2, NewLinks DEF Book, Jobs, Job
      <4>2. UNCHANGED <<rows, lists>> /\ links' = links \cup {l} /\ links \subseteq Link
        BY <1>1, <3>2, <4>1, <2>5 DEF EventCopy, RowsFit, Shapes
      <4>. QED
        BY <1>4, <3>2, <4>1, <4>2 DEF Catalog
    <3>. QED
      BY <2>5, <3>1, <3>2 DEF EventCopy
  <2>6. CASE Remove(r) \/ DropUnlisted(r) \/ SetLibrary(r)
    BY <2>6, <1>1, <1>4 DEF Remove, DropUnlisted, SetLibrary, RowsFit, Shapes
  <2>7. CASE RemoveBook(r) \/ Undo(r)
    BY <2>7, <1>1, DeletedCleanly DEF RemoveBook, Undo, Orphans, Book
  <2>8. CASE DeleteCatalog(r)
    BY <2>8, <1>1, DeletedCleanly DEF DeleteCatalog, Orphans, Book
  <2>9. CASE FindBoxSet(r) \/ NotBoxSet(r) \/ SplitDecide(r) \/ UndoFound(r)
    <3>1. UNCHANGED <<key, title, alias, lists, links>>
      BY <2>9 DEF FindBoxSet, NotBoxSet, SplitDecide, UndoFound
    <3>2. box' = box \/ \E i \in Book, st \in {"found", "split", "not_box"} : box' = [box EXCEPT ![i] = st]
      <4>1. CASE FindBoxSet(r) \/ NotBoxSet(r)
        BY <4>1 DEF FindBoxSet, NotBoxSet
      <4>2. CASE SplitDecide(r) \/ UndoFound(r)
        <5>1. job[r].other \in Id \cup {None}
          BY <1>1, <1>2 DEF Jobs, Job
        <5>2. job[r].other \in Id \/ UNCHANGED box
          BY <5>1, <4>2, <1>1 DEF SplitDecide, UndoFound, RowsFit, Shapes
        <5>. QED
          BY <5>2, <4>2, <1>1 DEF SplitDecide, UndoFound, RowsFit
      <4>. QED
        BY <2>9, <4>1, <4>2
    <3>3. Shapes'
      BY <3>1, <3>2, <1>1 DEF RowsFit, Shapes, Calibres, Book, lists
    <3>. QED
      BY <3>1, <3>2, <3>3, <1>1 DEF RowsFit, Shapes, Book, lists
  <2>10. CASE SplitMember(r)
    <3>1. /\ UNCHANGED <<rows, events, listed, links>>
          /\ members' = members \/ (/\ {job[r].row, job[r].other} \subseteq Book
                                   /\ members' = members \cup {[box |-> job[r].other, book |-> job[r].row,
                                                               created |-> ~job[r].existed]})
      BY <2>10 DEF SplitMember
    <3>2. Shapes'
      BY <3>1, <1>1 DEF RowsFit, Shapes, Calibres, rows
    <3>. QED
      BY <3>1, <3>2, <1>1 DEF RowsFit, Book, rows
  <2>11. CASE UndoMembers(r)
    BY <2>11, <1>1 DEF UndoMembers, RowsFit, Shapes, Calibres, Book, rows
  <2>12. CASE CreateEvent(r)
    BY <2>12, <1>1 DEF CreateEvent, RowsFit, Shapes, Calibres, Book, rows
  <2>13. CASE EventList(r)
    <3>1. /\ UNCHANGED <<rows, links, events, members>>
          /\ listed' = listed \/ (/\ job[r].row \in Book /\ job[r].event \in events
                                 /\ listed' = listed \cup {[event |-> job[r].event, book |-> job[r].row]})
      BY <2>13 DEF EventList
    <3>2. Shapes'
      BY <3>1, <1>1 DEF RowsFit, Shapes, Calibres, Book, rows
    <3>. QED
      BY <3>1, <3>2, <1>1 DEF RowsFit, Book, rows
  <2>14. CASE DeleteEvent(r)
    BY <2>14, <1>1 DEF DeleteEvent, RowsFit, Shapes, Calibres, Book, rows
  <2>. QED
    BY <2>1, <2>2, <2>3, <2>4, <2>5, <2>6, <2>7, <2>8, <2>9, <2>10, <2>11,
       <2>12, <2>13, <2>14 DEF Request
<1>7. CASE CalibreEdit \/ Crash
  BY <1>7, <1>3 DEF CalibreEdit, Crash
<1>. QED
  BY <1>5, <1>6, <1>7 DEF Next

-----------------------------------------------------------------------------
(* One step and what the requests and the sync carry with them.            *)

JobsFit == Jobs /\ \A p \in Proc : at[p] = "idle" => job[p] = NoJob

\* A step of process p to another place, with locals that fit there.
Moves(p, place, j) ==
    /\ place \in Place /\ j \in Job /\ Fits(place, j) /\ (place = "idle" => j = NoJob)
    /\ at' = [at EXCEPT ![p] = place] /\ job' = [job EXCEPT ![p] = j]

LEMMA MoveFits ==
    ASSUME JobsFit, NEW p \in Proc, NEW place, NEW j, Moves(p, place, j)
    PROVE  JobsFit'
  BY DEF JobsFit, Jobs, Moves

LEMMA NoJobFits == NoJob \in Job /\ Fits("idle", NoJob) /\ "sync" \in Proc
  BY DEF NoJob, Job, Kind, Listing, Fits, Name, Proc, Sync

\* What a process carries, with fields of its record changed.
LEMMA EndFits ==
    ASSUME NEW p \in Proc, End(p)
    PROVE  Moves(p, "idle", NoJob)
  BY NoJobFits DEF End, Goto, Set, Moves, Place

LEMMA MoveOnFits ==
    ASSUME JobsFit, NEW p \in Proc, Move(p), job[p].kind \in Listing
    PROVE  \E j : Moves(p, "next", j) /\ j.kind = job[p].kind
<1>. DEFINE j == [job[p] EXCEPT !.title = None, !.key = None, !.row = None, !.existed = FALSE]
<1>1. job[p] \in Job
  BY DEF JobsFit, Jobs
<1>2. j \in Job /\ j.kind = job[p].kind
  BY <1>1 DEF Job, Name
<1>3. Fits("next", j)
  BY <1>2 DEF Fits
<1>. QED
  BY <1>2, <1>3 DEF Move, Goto, Set, Moves, Place

\* A step that leaves the locals as they are.
LEMMA GoFits ==
    ASSUME JobsFit, NEW p \in Proc, NEW place \in Place \ {"idle"}, Fits(place, job[p]), Goto(p, place), UNCHANGED job
    PROVE  JobsFit'
  BY DEF JobsFit, Jobs, Goto

\* UpsertBook, whoever calls it.
LEMMA UpsertFits ==
    ASSUME IInv, JobsFit, NEW p \in Proc, AliasKey(p) \/ Insert(p) \/ Select(p)
    PROVE  JobsFit'
<1>. DEFINE j == job[p]
<1>1. j \in Job /\ at \in [Proc -> Place] /\ job \in [Proc -> Job] /\ Fits(at[p], j)
  BY DEF JobsFit, Jobs
<1>2. CASE AliasKey(p)
  <2>. DEFINE k == IF alias[j.title] # None THEN key[alias[j.title]] ELSE j.title
  <2>1. j.title \in Title /\ j.kind \in Listing
    BY <1>1, <1>2 DEF AliasKey, Fits
  <2>2. k \in Title
    BY <2>1 DEF IInv, TypeOK, Book
  <2>3. [j EXCEPT !.key = k] \in Job /\ Fits("insert", [j EXCEPT !.key = k])
    BY <1>1, <2>1, <2>2 DEF Job, Fits, Name
  <2>4. Moves(p, "insert", [j EXCEPT !.key = k])
    BY <1>2, <2>3 DEF AliasKey, Goto, Set, Moves, Place
  <2>. QED
    BY <2>4, MoveFits
<1>3. CASE Insert(p)
  BY <1>3, <1>1 DEF Insert, Goto, JobsFit, Jobs, Fits, Place
<1>4. CASE Select(p)
  <2>1. j.kind \in Listing /\ j.title \in Title
    BY <1>1, <1>4 DEF Select, Fits
  <2>2. CASE Move(p)
    BY <2>1, <2>2, MoveOnFits, MoveFits
  <2>3. CASE \E i \in Keyed(j.key) : Set(p, [j EXCEPT !.row = i]) /\ Goto(p, AfterUpsert[j.kind])
    <3>1. PICK i \in Id : Set(p, [j EXCEPT !.row = i]) /\ Goto(p, AfterUpsert[j.kind])
      BY <2>3 DEF Keyed
    <3>2. [j EXCEPT !.row = i] \in Job /\ [j EXCEPT !.row = i].kind = j.kind
      BY <1>1 DEF Job
    <3>3. AfterUpsert[j.kind] \in {"copy", "count", "member"}
      BY <2>1 DEF AfterUpsert, Listing
    <3>4. \A c \in {"copy", "count", "member"} : Fits(c, [j EXCEPT !.row = i])
      BY <2>1, <3>2 DEF Fits
    <3>5. \E c \in {"copy", "count", "member"} : Moves(p, c, [j EXCEPT !.row = i])
      BY <3>1, <3>2, <3>3, <3>4 DEF Goto, Set, Moves, Place
    <3>. QED
      BY <3>5, MoveFits
  <2>. QED
    BY <1>4, <2>2, <2>3 DEF Select
<1>. QED
  BY <1>2, <1>3, <1>4

LEMMA SyncJobsFit ==
    ASSUME IInv, JobsFit, SyncStep
    PROVE  JobsFit'
<1>. DEFINE j == job[Sync]
<1>1. Sync \in Proc /\ j \in Job /\ at \in [Proc -> Place] /\ job \in [Proc -> Job] /\ Fits(at[Sync], j)
  BY NoJobFits DEF JobsFit, Jobs, Sync
<1>2. at[Sync] # "idle" => j.kind = "sync"
  BY DEF IInv, SyncFits
<1>3. SyncFits
  BY DEF IInv
<1>4. ASSUME at' = [at EXCEPT ![Sync] = "prune"] \/ at' = [at EXCEPT ![Sync] = "read"] \/ at' = [at EXCEPT ![Sync] = "stale"]
               \/ at' = [at EXCEPT ![Sync] = "others"] \/ at' = at,
             job' = job, at[Sync] # "idle"
      PROVE  JobsFit'
  BY <1>1, <1>4 DEF JobsFit, Jobs, Fits, Place
<1>5. CASE StartSync
  <2>1. [NoJob EXCEPT !.kind = "sync"] \in Job /\ Fits("next", [NoJob EXCEPT !.kind = "sync"])
    BY NoJobFits DEF Job, Kind, Listing, Fits, NoJob
  <2>2. Moves(Sync, "next", [NoJob EXCEPT !.kind = "sync"])
    BY <2>1, <1>5 DEF Place, Moves, StartSync, Goto, Set
  <2>. QED
    BY <2>2, <1>1, MoveFits
<1>6. CASE NextEntry
  <2>1. PICK e \in Entry : e \in sync.todo /\ job' = [job EXCEPT ![Sync] = [j EXCEPT !.title = sync.snap[e]]]
    BY <1>6, <1>3, LeastIsIn, LibraryAssumption DEF NextEntry, SyncFits, SyncState, Set
  <2>2. [j EXCEPT !.title = sync.snap[e]] \in Job
    BY <2>1, <1>1, <1>3 DEF SyncFits, Job, Name
  <2>3. Fits("follow", [j EXCEPT !.title = sync.snap[e]])
    BY DEF Fits
  <2>4. Moves(Sync, "follow", [j EXCEPT !.title = sync.snap[e]])
    BY <2>1, <2>2, <2>3, <1>6 DEF Place, Moves, NextEntry, Goto
  <2>. QED
    BY <2>4, <1>1, MoveFits
<1>7. CASE FollowRead
  <2>1. CASE Goto(Sync, "alias") /\ UNCHANGED job
    <3>1. Fits("alias", j)
      BY <1>7, <1>2, <1>3 DEF FollowRead, SyncFits, Filing, Fits, Listing
    <3>. QED
      BY <2>1, <3>1, <1>1, GoFits DEF Place
  <2>2. CASE \E l \in links : /\ Set(Sync, [j EXCEPT !.row = l.book])
                              /\ Goto(Sync, IF key[l.book] = j.title THEN "rename" ELSE "others")
    <3>1. PICK l \in links : /\ Set(Sync, [j EXCEPT !.row = l.book])
                            /\ Goto(Sync, IF key[l.book] = j.title THEN "rename" ELSE "others")
      BY <2>2
    <3>2. [j EXCEPT !.row = l.book] \in Job
      BY <1>1, <3>1 DEF IInv, Shapes, Link, Job
    <3>3. \A c \in {"rename", "others"} : Fits(c, [j EXCEPT !.row = l.book])
      BY DEF Fits
    <3>4. \E c \in {"rename", "others"} : Moves(Sync, c, [j EXCEPT !.row = l.book])
      BY <3>1, <3>2, <3>3 DEF Place, Moves, Goto, Set
    <3>. QED
      BY <3>4, <1>1, MoveFits
  <2>. QED
    BY <1>7, <2>1, <2>2 DEF FollowRead
<1>8. CASE FollowOthers
  <2>1. Fits("alias", j) /\ Fits("rename", j)
    BY <1>8, <1>2, <1>3 DEF FollowOthers, SyncFits, Filing, Fits, Listing
  <2>2. Goto(Sync, "alias") \/ Goto(Sync, "rename")
    BY <1>8 DEF FollowOthers
  <2>. QED
    BY <1>8, <2>1, <2>2, <1>1, GoFits DEF Place, FollowOthers
<1>9. CASE FollowRename
  <2>1. CASE Move(Sync)
    BY <2>1, <1>9, <1>1, <1>2, MoveOnFits, MoveFits DEF FollowRename, Listing
  <2>2. CASE Goto(Sync, "alias") /\ Set(Sync, [j EXCEPT !.row = None])
    <3>1. [j EXCEPT !.row = None] \in Job /\ Fits("alias", [j EXCEPT !.row = None])
      BY <1>1, <1>2, <1>3, <1>9 DEF Job, Fits, FollowRename, SyncFits, Filing, Listing
    <3>. QED
      BY <2>2, <3>1, <1>1, MoveFits DEF Goto, Set, Moves, Place
  <2>. QED
    BY <1>9, <2>1, <2>2 DEF FollowRename
<1>10. CASE SyncCopy
  BY <1>10, <1>1, <1>2, EndFits, MoveOnFits, MoveFits DEF SyncCopy, Listing
<1>11. CASE PruneRead \/ PruneEntry \/ PruneBooks \/ StaleRead \/ StaleLink
  BY <1>11, <1>4 DEF PruneRead, PruneEntry, PruneBooks, StaleRead, StaleLink, Goto
<1>12. CASE EndSync
  BY <1>12, <1>1, EndFits, MoveFits DEF EndSync
<1>13. CASE AliasKey(Sync) \/ Insert(Sync) \/ Select(Sync)
  BY <1>13, <1>1, UpsertFits
<1>. QED
  BY <1>5, <1>6, <1>7, <1>8, <1>9, <1>10, <1>11, <1>12, <1>13 DEF SyncStep

LEMMA RequestJobsFit ==
    ASSUME IInv, JobsFit, NEW r \in Req, Request(r)
    PROVE  JobsFit'
<1>. DEFINE j == job[r]
<1>1. r \in Proc /\ j \in Job /\ at \in [Proc -> Place] /\ job \in [Proc -> Job] /\ Fits(at[r], j)
  BY DEF JobsFit, Jobs, Proc
<1>2. IF at[r] = "idle" THEN j = NoJob ELSE TRUE
  BY <1>1 DEF JobsFit
<1>3. \A ts \in Lists : ts \subseteq Title
  BY DEF Lists
<1>4. CASE Import(r)
  <2>1. PICK ts \in SUBSET Title : Begin(r, [NoJob EXCEPT !.kind = "import", !.todo = ts], "next")
    BY <1>4, <1>3 DEF Import
  <2>2. [NoJob EXCEPT !.kind = "import", !.todo = ts] \in Job /\ Fits("next", [NoJob EXCEPT !.kind = "import", !.todo = ts])
    BY NoJobFits DEF Job, NoJob, Fits, Kind, Listing
  <2>. QED
    BY <2>1, <2>2, <1>1, MoveFits DEF Begin, Goto, Set, Moves, Place
<1>5. CASE NextTitle(r)
  <2>1. PICK t \in Title : Set(r, [j EXCEPT !.todo = @ \ {t}, !.title = t])
    BY <1>5, <1>1 DEF NextTitle, Job
  <2>2. [j EXCEPT !.todo = @ \ {t}, !.title = t] \in Job
    BY <1>1 DEF Job, Name
  <2>3. \A c \in {"before", "alias"} : Fits(c, [j EXCEPT !.todo = @ \ {t}, !.title = t])
    BY <1>1, <1>5 DEF Fits, NextTitle, Job
  <2>4. \E c \in {"before", "alias"} : Moves(r, c, [j EXCEPT !.todo = @ \ {t}, !.title = t])
    BY <1>5, <2>1, <2>2, <2>3 DEF NextTitle, Goto, Set, Moves, Place
  <2>. QED
    BY <2>4, <1>1, MoveFits
<1>6. CASE AliasKey(r) \/ Insert(r) \/ Select(r)
  BY <1>6, <1>1, UpsertFits
<1>7. CASE AddCopy(r)
  <2>1. CASE Move(r) /\ j.kind # "claim"
    <3>1. j.kind \in Listing
      BY <1>1, <1>7, <2>1 DEF AddCopy, Fits
    <3>. QED
      BY <2>1, <3>1, <1>1, MoveOnFits, MoveFits
  <2>. QED
    BY <1>7, <2>1, <1>1, EndFits, MoveFits DEF AddCopy
<1>8. CASE ListEnds(r)
  <2>1. Fits("decide", j)
    BY DEF Fits
  <2>. QED
    BY <1>8, <2>1, <1>1, GoFits, EndFits, MoveFits DEF ListEnds, Place
<1>9. CASE Remove(r)
  <2>1. PICK i \in Id : Begin(r, [NoJob EXCEPT !.kind = "remove", !.row = i], "orphan")
    BY <1>9 DEF Remove, Book
  <2>2. [NoJob EXCEPT !.kind = "remove", !.row = i] \in Job /\ Fits("orphan", [NoJob EXCEPT !.kind = "remove", !.row = i])
    BY NoJobFits DEF Job, NoJob, Fits, Kind, Listing
  <2>. QED
    BY <2>1, <2>2, <1>1, MoveFits DEF Begin, Goto, Set, Moves, Place
<1>10. CASE RemoveBook(r) \/ SplitDecide(r) \/ UndoFound(r) \/ DropUnlisted(r) \/ MergeTx(r)
  BY <1>10, <1>1, EndFits, MoveFits DEF RemoveBook, SplitDecide, UndoFound, DropUnlisted, MergeTx
<1>11. CASE DeleteCatalog(r)
  <2>. DEFINE new(q) == IF job[q].kind \in {"import", "claim"} THEN [job[q] EXCEPT !.lib = FALSE] ELSE job[q]
  <2>1. job' = [q \in Proc |-> new(q)] /\ at' = at
    BY <1>11 DEF DeleteCatalog
  <2>2. ASSUME NEW q \in Proc
        PROVE  new(q) \in Job /\ Fits(at[q], new(q)) /\ (at[q] = "idle" => new(q) = NoJob)
    <3>1. job[q] \in Job /\ Fits(at[q], job[q]) /\ (at[q] = "idle" => job[q] = NoJob)
      BY DEF JobsFit, Jobs
    <3>2. new(q) \in Job /\ new(q).kind = job[q].kind /\ new(q).title = job[q].title /\ new(q).key = job[q].key
          /\ new(q).row = job[q].row /\ new(q).other = job[q].other /\ new(q).event = job[q].event
      BY <3>1 DEF Job
    <3>3. Fits(at[q], new(q))
      BY <3>1, <3>2 DEF Fits
    <3>4. NoJob.kind = "none"
      BY DEF NoJob
    <3>. QED
      BY <3>1, <3>2, <3>3, <3>4
  <2>. HIDE DEF new
  <2>. QED
    BY <2>1, <2>2, <1>1 DEF JobsFit, Jobs
<1>12. CASE FindBoxSet(r) \/ NotBoxSet(r) \/ SetLibrary(r)
  BY <1>12 DEF FindBoxSet, NotBoxSet, SetLibrary, JobsFit, Jobs
<1>13. CASE Split(r)
  <2>1. PICK i \in Id : \E ts \in SUBSET Title : Begin(r, [NoJob EXCEPT !.kind = "split", !.todo = ts, !.other = i], "next")
    BY <1>13, <1>3 DEF Split, Book
  <2>2. PICK ts \in SUBSET Title : Begin(r, [NoJob EXCEPT !.kind = "split", !.todo = ts, !.other = i], "next")
    BY <2>1
  <2>3. /\ [NoJob EXCEPT !.kind = "split", !.todo = ts, !.other = i] \in Job
        /\ Fits("next", [NoJob EXCEPT !.kind = "split", !.todo = ts, !.other = i])
    BY NoJobFits DEF Job, NoJob, Fits, Kind, Listing
  <2>. QED
    BY <2>2, <2>3, <1>1, MoveFits DEF Begin, Goto, Set, Moves, Place
<1>14. CASE SplitBefore(r)
  <2>. DEFINE k == IF alias[j.title] # None THEN key[alias[j.title]] ELSE j.title
  <2>1. j.title \in Title /\ j.kind \in Listing
    BY <1>1, <1>14 DEF SplitBefore, Fits
  <2>2. k \in Title
    BY <2>1 DEF IInv, TypeOK, Book
  <2>3. [j EXCEPT !.key = k] \in Job /\ Fits("existed", [j EXCEPT !.key = k])
    BY <1>1, <2>1, <2>2 DEF Job, Fits, Name
  <2>4. Moves(r, "existed", [j EXCEPT !.key = k])
    BY <1>14, <2>3 DEF SplitBefore, Goto, Set, Moves, Place
  <2>. QED
    BY <2>4, <1>1, MoveFits
<1>15. CASE SplitExisted(r)
  <2>1. (Keyed(j.key) # {}) \in BOOLEAN
    OBVIOUS
  <2>2. PICK e \in BOOLEAN : e = (Keyed(j.key) # {})
    BY <2>1
  <2>3. [j EXCEPT !.existed = e] \in Job /\ Fits("alias", [j EXCEPT !.existed = e])
    BY <1>1, <1>15 DEF Job, Fits, SplitExisted
  <2>4. Moves(r, "alias", [j EXCEPT !.existed = e])
    BY <1>15, <2>2, <2>3 DEF SplitExisted, Goto, Set, Moves, Place
  <2>. QED
    BY <2>4, <1>1, MoveFits
<1>16. CASE SplitMember(r)
  <2>. DEFINE n == [j EXCEPT !.title = None, !.key = None, !.row = None, !.existed = FALSE, !.some = TRUE]
  <2>1. n \in Job /\ Fits("next", n)
    BY <1>1, <1>16 DEF Job, Name, Fits, SplitMember
  <2>2. Moves(r, "next", n) \/ End(r)
    BY <1>16, <2>1 DEF SplitMember, Goto, Set, Moves, Place
  <2>. QED
    BY <2>2, <1>1, EndFits, MoveFits
<1>17. CASE Undo(r)
  <2>1. PICK i \in Id : Begin(r, [NoJob EXCEPT !.kind = "undo", !.other = i], "undo")
    BY <1>17 DEF Undo, Book
  <2>2. [NoJob EXCEPT !.kind = "undo", !.other = i] \in Job /\ Fits("undo", [NoJob EXCEPT !.kind = "undo", !.other = i])
    BY NoJobFits DEF Job, NoJob, Fits, Kind, Listing
  <2>. QED
    BY <2>1, <2>2, <1>1, MoveFits DEF Begin, Goto, Set, Moves, Place
<1>18. CASE UndoMembers(r)
  <2>1. Fits("found", j)
    BY DEF Fits
  <2>. QED
    BY <1>18, <2>1, <1>1, GoFits DEF UndoMembers, Place
<1>19. CASE CreateEvent(r)
  <2>1. PICK v \in Event : \E ts \in SUBSET Title : Begin(r, [NoJob EXCEPT !.kind = "event", !.todo = ts, !.event = v], "next")
    BY <1>19, <1>3 DEF CreateEvent
  <2>2. PICK ts \in SUBSET Title : Begin(r, [NoJob EXCEPT !.kind = "event", !.todo = ts, !.event = v], "next")
    BY <2>1
  <2>3. /\ [NoJob EXCEPT !.kind = "event", !.todo = ts, !.event = v] \in Job
        /\ Fits("next", [NoJob EXCEPT !.kind = "event", !.todo = ts, !.event = v])
    BY NoJobFits DEF Job, NoJob, Fits, Kind, Listing
  <2>. QED
    BY <2>2, <2>3, <1>1, MoveFits DEF Begin, Goto, Set, Moves, Place
<1>20. CASE EventCopies(r) \/ (EventCopy(r) /\ ~End(r))
  <2>1. j.kind \in Listing
    BY <1>20, <1>1 DEF EventCopies, EventCopy, Fits
  <2>2. Fits("list", j) /\ Fits("file", j)
    BY <2>1 DEF Fits
  <2>3. (Goto(r, "list") \/ Goto(r, "file")) /\ UNCHANGED job
    BY <1>20 DEF EventCopies, EventCopy
  <2>. QED
    BY <2>2, <2>3, <1>1, GoFits DEF Place
<1>21. CASE EventCopy(r) /\ End(r)
  BY <1>21, <1>1, EndFits, MoveFits
<1>22. CASE EventList(r)
  <2>1. j.kind \in Listing
    BY <1>1, <1>22 DEF EventList, Fits
  <2>. QED
    BY <1>22, <2>1, <1>1, EndFits, MoveOnFits, MoveFits DEF EventList
<1>23. CASE DeleteEvent(r)
  <2>1. Begin(r, [NoJob EXCEPT !.kind = "unlist"], "unlist")
    BY <1>23 DEF DeleteEvent
  <2>2. [NoJob EXCEPT !.kind = "unlist"] \in Job /\ Fits("unlist", [NoJob EXCEPT !.kind = "unlist"])
    BY NoJobFits DEF Job, NoJob, Fits, Kind, Listing
  <2>. QED
    BY <2>1, <2>2, <1>1, MoveFits DEF Begin, Goto, Set, Moves, Place
<1>24. CASE Claim(r)
  <2>1. PICK i \in Id : Begin(r, [NoJob EXCEPT !.kind = "claim", !.row = i], "copy")
    BY <1>24 DEF Claim, IInv, Shapes
  <2>2. [NoJob EXCEPT !.kind = "claim", !.row = i] \in Job /\ Fits("copy", [NoJob EXCEPT !.kind = "claim", !.row = i])
    BY NoJobFits DEF Job, NoJob, Fits, Kind, Listing
  <2>. QED
    BY <2>1, <2>2, <1>1, MoveFits DEF Begin, Goto, Set, Moves, Place
<1>25. CASE Merge(r)
  <2>1. PICK k \in Id : \E o \in Id : k # o /\ Begin(r, [NoJob EXCEPT !.kind = "merge", !.row = k, !.other = o], "merge")
    BY <1>25 DEF Merge, Book
  <2>2. PICK o \in Id : k # o /\ Begin(r, [NoJob EXCEPT !.kind = "merge", !.row = k, !.other = o], "merge")
    BY <2>1
  <2>3. /\ [NoJob EXCEPT !.kind = "merge", !.row = k, !.other = o] \in Job
        /\ Fits("merge", [NoJob EXCEPT !.kind = "merge", !.row = k, !.other = o])
    BY <2>2, NoJobFits DEF Job, NoJob, Fits, Kind, Listing
  <2>. QED
    BY <2>2, <2>3, <1>1, MoveFits DEF Begin, Goto, Set, Moves, Place
<1>26. CASE MergeKey(r)
  <2>1. CASE j.other \in Book /\ Set(r, [j EXCEPT !.key = key[j.other]]) /\ Goto(r, "tx")
    <3>1. key[j.other] \in Title
      BY <2>1 DEF Book, IInv, TypeOK
    <3>2. [j EXCEPT !.key = key[j.other]] \in Job /\ Fits("tx", [j EXCEPT !.key = key[j.other]])
      BY <1>1, <1>26, <3>1 DEF Job, Name, Fits, MergeKey
    <3>. QED
      BY <2>1, <3>2, <1>1, MoveFits DEF Goto, Set, Moves, Place
  <2>. QED
    BY <1>26, <2>1, <1>1, EndFits, MoveFits DEF MergeKey
<1>. QED
  BY <1>4, <1>5, <1>6, <1>7, <1>8, <1>9, <1>10, <1>11, <1>12, <1>13, <1>14, <1>15, <1>16, <1>17, <1>18,
     <1>19, <1>20, <1>21, <1>22, <1>23, <1>24, <1>25, <1>26 DEF Request

-----------------------------------------------------------------------------
(* One step and the sync.                                                  *)

LEMMA RequestLeavesSync ==
    ASSUME IInv, NEW r \in Req, Request(r)
    PROVE  sync' = sync /\ at'[Sync] = at[Sync] /\ job'[Sync] = job[Sync]
<1>1. r # Sync /\ Sync \in Proc /\ at \in [Proc -> Place] /\ job \in [Proc -> Job]
  BY LibraryAssumption DEF IInv, Jobs, Sync, Proc
<1>2. \A place, j : Goto(r, place) => at'[Sync] = at[Sync]
  BY <1>1 DEF Goto
<1>3. \A j : Set(r, j) => job'[Sync] = job[Sync]
  BY <1>1 DEF Set
<1>4. \A j, place : Begin(r, j, place) => sync' = sync /\ at'[Sync] = at[Sync] /\ job'[Sync] = job[Sync]
  BY <1>2, <1>3 DEF Begin
<1>5. End(r) \/ Move(r) => at'[Sync] = at[Sync] /\ job'[Sync] = job[Sync]
  BY <1>2, <1>3 DEF End, Move
<1>6. CASE Import(r) \/ Remove(r) \/ Split(r) \/ Undo(r) \/ CreateEvent(r) \/ DeleteEvent(r) \/ Claim(r) \/ Merge(r)
  BY <1>6, <1>4 DEF Import, Remove, Split, Undo, CreateEvent, DeleteEvent, Claim, Merge
<1>7. CASE NextTitle(r) \/ AliasKey(r) \/ Insert(r) \/ Select(r) \/ AddCopy(r) \/ ListEnds(r) \/ RemoveBook(r)
  BY <1>7, <1>2, <1>3, <1>5 DEF NextTitle, AliasKey, Insert, Select, AddCopy, ListEnds, RemoveBook
<1>8. CASE DeleteCatalog(r)
  BY <1>8, <1>1 DEF DeleteCatalog, IInv, SyncFits, TypeOK, NoJob
<1>9. CASE FindBoxSet(r) \/ NotBoxSet(r) \/ SetLibrary(r)
  BY <1>9 DEF FindBoxSet, NotBoxSet, SetLibrary
<1>10. CASE SplitBefore(r) \/ SplitExisted(r) \/ SplitMember(r) \/ SplitDecide(r) \/ UndoMembers(r) \/ UndoFound(r)
  BY <1>10, <1>2, <1>3, <1>5 DEF SplitBefore, SplitExisted, SplitMember, SplitDecide, UndoMembers, UndoFound
<1>11. CASE EventCopies(r) \/ EventCopy(r) \/ EventList(r) \/ DropUnlisted(r) \/ MergeKey(r) \/ MergeTx(r)
  BY <1>11, <1>2, <1>3, <1>5 DEF EventCopies, EventCopy, EventList, DropUnlisted, MergeKey, MergeTx
<1>. QED
  BY <1>6, <1>7, <1>8, <1>9, <1>10, <1>11 DEF Request

\* Where the sync goes, and what it does to its own locals.
LEMMA SyncGoes ==
    ASSUME IInv
    PROVE  /\ \A place : Goto(Sync, place) => at'[Sync] = place
           /\ \A j : Set(Sync, j) => job'[Sync] = j
           /\ job[Sync] \in Job
  BY NoJobFits DEF IInv, Jobs, Goto, Set, Sync

\* A step within the filing of an entry.
LEMMA FilingGoesOn ==
    ASSUME IInv, FollowRead \/ FollowOthers \/ (FollowRename /\ ~Move(Sync)) \/ AliasKey(Sync) \/ Insert(Sync)
                 \/ (Select(Sync) /\ ~Move(Sync))
    PROVE  /\ sync' = sync /\ {at[Sync], at'[Sync]} \subseteq Filing
           /\ job'[Sync].kind = "sync" /\ job'[Sync].title = job[Sync].title
<1>. DEFINE j == job[Sync]
<1>. USE SyncGoes DEF Filing
<1>1. j \in Job /\ (at[Sync] # "idle" => j.kind = "sync")
  BY DEF IInv, SyncFits
<1>2. \A i : [j EXCEPT !.row = i].kind = j.kind /\ [j EXCEPT !.row = i].title = j.title
  BY <1>1 DEF Job
<1>3. \A k : [j EXCEPT !.key = k].kind = j.kind /\ [j EXCEPT !.key = k].title = j.title
  BY <1>1 DEF Job
<1>4. CASE FollowRead
  <2>1. at[Sync] = "follow" /\ sync' = sync
    BY <1>4 DEF FollowRead
  <2>2. (Goto(Sync, "alias") \/ Goto(Sync, "rename") \/ Goto(Sync, "others")) /\ (job' = job \/ \E i : Set(Sync, [j EXCEPT !.row = i]))
    BY <1>4 DEF FollowRead
  <2>. QED
    BY <2>1, <2>2, <1>1, <1>2
<1>5. CASE FollowOthers
  <2>1. (Goto(Sync, "alias") \/ Goto(Sync, "rename")) /\ job' = job /\ at[Sync] = "others" /\ sync' = sync
    BY <1>5 DEF FollowOthers
  <2>. QED
    BY <2>1, <1>1
<1>6. CASE FollowRename /\ ~Move(Sync)
  <2>1. Goto(Sync, "alias") /\ Set(Sync, [j EXCEPT !.row = None]) /\ at[Sync] = "rename" /\ sync' = sync
    BY <1>6 DEF FollowRename
  <2>. QED
    BY <2>1, <1>1, <1>2
<1>7. CASE AliasKey(Sync)
  <2>1. Goto(Sync, "insert") /\ (\E k : Set(Sync, [j EXCEPT !.key = k])) /\ at[Sync] = "alias" /\ sync' = sync
    BY <1>7 DEF AliasKey
  <2>. QED
    BY <2>1, <1>1, <1>3
<1>8. CASE Insert(Sync)
  <2>1. Goto(Sync, "select") /\ job' = job /\ at[Sync] = "insert" /\ sync' = sync
    BY <1>8 DEF Insert
  <2>. QED
    BY <2>1, <1>1
<1>9. CASE Select(Sync) /\ ~Move(Sync)
  <2>1. at[Sync] = "select" /\ sync' = sync /\ j.kind = "sync"
    BY <1>9, <1>1 DEF Select
  <2>2. PICK i : Set(Sync, [j EXCEPT !.row = i]) /\ Goto(Sync, AfterUpsert[j.kind])
    BY <1>9, <2>1 DEF Select
  <2>3. AfterUpsert["sync"] = "copy"
    BY DEF AfterUpsert
  <2>. QED
    BY <2>1, <2>2, <2>3, <1>2
<1>. QED
  BY <1>4, <1>5, <1>6, <1>7, <1>8, <1>9

\* Leaving an entry, filed or not.
LEMMA SyncMovesOn ==
    ASSUME IInv, Move(Sync)
    PROVE  at'[Sync] = "next" /\ job'[Sync].kind = job[Sync].kind
<1>1. job[Sync] \in Job
  BY SyncGoes
<1>2. job'[Sync] = [job[Sync] EXCEPT !.title = None, !.key = None, !.row = None, !.existed = FALSE]
  BY SyncGoes DEF Move
<1>. QED
  BY <1>1, <1>2, SyncGoes DEF Move, Job

LEMMA StepKeepsSync ==
    ASSUME IInv, Next
    PROVE  SyncFits' /\ (at[Sync] = "idle" => sync = NoSync)'
<1>. DEFINE j == job[Sync]
<1>. USE SyncGoes DEF SyncFits, Filing, Ending
<1>1. SyncFits /\ (at[Sync] = "idle" => sync = NoSync) /\ j \in Job
  BY DEF IInv, TypeOK
<1>2. NoSync \in SyncState /\ NoSync.todo = {} /\ NoSync.keep = {}
  BY DEF NoSync, SyncState, Name
<1>3. CASE StartSync
  <2>1. at'[Sync] = "next" /\ job'[Sync].kind = "sync"
    BY <1>3 DEF StartSync, NoJob
  <2>2. /\ sync' \in SyncState /\ sync'.todo = {e \in Entry : calibre[e] # None} /\ sync'.keep = {}
        /\ sync'.snap = calibre
    BY <1>3, <1>2 DEF StartSync, SyncState, NoSync, IInv, TypeOK, Name
  <2>3. \A e \in Entry : calibre[e] # None => calibre[e] \in Title
    BY DEF IInv, TypeOK
  <2>. QED
    BY <2>1, <2>2, <2>3
<1>4. CASE NextEntry
  <2>1. PICK e \in sync.todo : e = Least(sync.todo)
    BY <1>1, <1>4, LeastIsIn, LibraryAssumption DEF NextEntry, SyncState
  <2>2. /\ at'[Sync] = "follow" /\ job'[Sync] = [j EXCEPT !.title = sync.snap[e]]
        /\ sync' = [sync EXCEPT !.todo = @ \ {e}, !.cur = e]
    BY <1>4, <2>1 DEF NextEntry
  <2>3. /\ sync' \in SyncState /\ sync'.todo = sync.todo \ {e} /\ sync'.keep = sync.keep /\ sync'.snap = sync.snap
        /\ sync'.cur = e
    BY <1>1, <2>1, <2>2 DEF SyncState
  <2>4. job'[Sync].title = sync.snap[e] /\ job'[Sync].kind = "sync"
    BY <1>1, <2>2, <1>4 DEF NextEntry, Job
  <2>. QED
    BY <1>1, <2>1, <2>2, <2>3, <2>4 DEF SyncState
<1>5. CASE FollowRead \/ FollowOthers \/ (FollowRename /\ ~Move(Sync)) \/ AliasKey(Sync) \/ Insert(Sync)
           \/ (Select(Sync) /\ ~Move(Sync))
  BY <1>1, <1>5, FilingGoesOn
<1>6. CASE (FollowRename \/ Select(Sync)) /\ Move(Sync)
  <2>1. sync' = sync /\ at[Sync] # "idle"
    BY <1>6 DEF FollowRename, Select
  <2>2. at'[Sync] = "next" /\ job'[Sync].kind = "sync"
    BY <1>6, <1>1, <2>1, SyncMovesOn
  <2>. QED
    BY <1>1, <2>1, <2>2
<1>7. CASE SyncCopy
  <2>1. CASE End(Sync) /\ sync' = NoSync
    BY <2>1, <1>2 DEF End
  <2>2. CASE /\ Move(Sync) /\ j.row \in Book
             /\ sync' = [sync EXCEPT !.keep = @ \cup {sync.cur},
                                    !.seen = @ \cup {<<j.row, CalibrePath(sync.cur, j.title)>>}]
    <3>1. <<j.row, CalibrePath(sync.cur, j.title)>> \in Id \X Path
      BY <1>1, <2>2, <1>7 DEF SyncCopy, CalibrePath, Path, Name, Book
    <3>2. /\ sync' \in SyncState /\ sync'.todo = sync.todo /\ sync'.keep = sync.keep \cup {sync.cur}
          /\ sync'.snap = sync.snap
      BY <1>1, <2>2, <3>1, <1>7 DEF SyncState, SyncCopy
    <3>3. at'[Sync] = "next" /\ job'[Sync].kind = "sync"
      BY <1>1, <1>7, <2>2, SyncMovesOn DEF SyncCopy
    <3>. QED
      BY <1>1, <1>7, <3>2, <3>3 DEF SyncCopy
  <2>. QED
    BY <1>7, <2>1, <2>2 DEF SyncCopy
<1>8. CASE PruneRead
  <2>1. {l.ext : l \in Calibres(links)} \subseteq Entry
    BY DEF IInv, Shapes
  <2>2. /\ sync' \in SyncState /\ sync'.todo = sync.todo /\ sync'.keep = sync.keep /\ sync'.snap = sync.snap
        /\ sync'.drop \cap sync'.keep = {}
    BY <1>1, <1>8, <2>1 DEF PruneRead, SyncState
  <2>3. at'[Sync] = "prune" /\ job'[Sync] = j /\ at[Sync] = "next"
    BY <1>8 DEF PruneRead
  <2>. QED
    BY <1>1, <2>2, <2>3
<1>9. CASE PruneEntry
  <2>1. /\ sync' \in SyncState /\ sync'.todo = sync.todo /\ sync'.keep = sync.keep /\ sync'.snap = sync.snap
        /\ sync'.drop \subseteq sync.drop
    BY <1>1, <1>9 DEF PruneEntry, SyncState
  <2>2. at' = at /\ job' = job /\ at[Sync] = "prune"
    BY <1>9 DEF PruneEntry
  <2>. QED
    BY <1>1, <2>1, <2>2
<1>10. CASE PruneBooks
  <2>1. at'[Sync] = "read" /\ job' = job /\ at[Sync] = "prune" /\ sync' = sync
    BY <1>10 DEF PruneBooks
  <2>. QED
    BY <1>1, <2>1
<1>11. CASE StaleRead
  <2>1. {<<l.book, l.path>> : l \in Calibres(links)} \subseteq Id \X Path
    BY DEF IInv, Shapes, Link, Calibres
  <2>2. /\ sync' \in SyncState /\ sync'.todo = sync.todo /\ sync'.keep = sync.keep /\ sync'.snap = sync.snap
        /\ sync'.stale \cap sync'.seen = {}
    BY <1>1, <1>11, <2>1 DEF StaleRead, SyncState
  <2>3. at'[Sync] = "stale" /\ job'[Sync] = j /\ at[Sync] = "read"
    BY <1>11 DEF StaleRead
  <2>. QED
    BY <1>1, <2>2, <2>3
<1>12. CASE StaleLink
  <2>1. /\ sync' \in SyncState /\ sync'.todo = sync.todo /\ sync'.keep = sync.keep /\ sync'.snap = sync.snap
        /\ sync'.stale \subseteq sync.stale /\ sync'.seen = sync.seen
    BY <1>1, <1>12 DEF StaleLink, SyncState
  <2>2. at' = at /\ job' = job /\ at[Sync] = "stale"
    BY <1>12 DEF StaleLink
  <2>. QED
    BY <1>1, <2>1, <2>2
<1>13. CASE EndSync \/ Crash
  <2>1. sync' = NoSync /\ at'[Sync] = "idle"
    BY <1>13, NoJobFits DEF EndSync, Crash, End, Sync
  <2>. QED
    BY <2>1, <1>2
<1>14. CASE \E r \in Req : Request(r)
  <2>1. sync' = sync /\ at'[Sync] = at[Sync] /\ job'[Sync] = job[Sync]
    BY <1>14, RequestLeavesSync
  <2>. QED
    BY <1>1, <2>1
<1>15. CASE CalibreEdit
  BY <1>1, <1>15 DEF CalibreEdit
<1>. QED
  BY <1>3, <1>4, <1>5, <1>6, <1>7, <1>8, <1>9, <1>10, <1>11, <1>12, <1>13, <1>14, <1>15 DEF Next, SyncStep

-----------------------------------------------------------------------------
(* One step and the entries that were filed and not edited since.          *)

\* The step leaves what entry e was filed under, and how.
SameFor(e) ==
    /\ settled'[e] = settled[e] /\ calibre'[e] = calibre[e]
    /\ settled[e] \in Book' /\ key'[settled[e]] = key[settled[e]]
    /\ alias'[calibre[e]] = alias[calibre[e]]
    /\ CalibreLink(e, settled[e], calibre[e]) \in links'

\* No row comes to be under the number the sync has in hand.
RowStays == job[Sync].row \in Book' => job[Sync].row \in Book /\ key'[job[Sync].row] = key[job[Sync].row]

LEMMA SettledIfSame ==
    ASSUME IInv, settled' \in [Entry -> Id \cup {None}],
           \A e \in Entry : settled'[e] # None => SameFor(e),
           \A e \in Entry : settled'[e] # None /\ at'[Sync] # "idle" => OnItsWay(e, settled[e])'
    PROVE  Settled'
<1>1. ASSUME NEW e \in Entry, settled'[e] # None
      PROVE  /\ settled'[e] = settled[e] /\ settled'[e] \in Book' /\ calibre'[e] \in Title
             /\ CalibreLink(e, settled'[e], calibre'[e]) \in links'
             /\ Filed(calibre[e], settled[e])'
  BY <1>1 DEF IInv, Settled, SameFor, Filed
<1>2. ASSUME NEW e \in Entry, settled'[e] # None
      PROVE  Filed(calibre[e], settled[e])'
  BY <1>1, <1>2
<1>. QED
  BY <1>1, <1>2 DEF Settled

\* What a step of somebody else leaves to the sync.
LEMMA WayIfSame ==
    ASSUME IInv, sync' = sync, at'[Sync] = at[Sync], job'[Sync] = job[Sync], RowStays,
           NEW e \in Entry, settled'[e] # None, SameFor(e), at'[Sync] # "idle"
    PROVE  OnItsWay(e, settled[e])'
  BY DEF IInv, Settled, SameFor, OnItsWay, RowStays

\* Deleting books that have no copy leaves the rows of entries.
LEMMA OrphansAreNotSettled ==
    ASSUME IInv, NEW ls \in SUBSET links, Calibres(links) \subseteq ls, NEW gone \in SUBSET Orphans(ls),
           DeleteBooks(gone, ls), settled' = settled, calibre' = calibre
    PROVE  RowStays /\ \A e \in Entry : settled[e] # None => SameFor(e)
<1>1. Book' = Book \ gone /\ \A i \in Book' : key'[i] = key[i]
  BY DEF DeleteBooks, Book
<1>2. ASSUME NEW e \in Entry, settled[e] # None
      PROVE  SameFor(e)
  <2>. DEFINE l == CalibreLink(e, settled[e], calibre[e])
  <2>1. l \in links /\ settled[e] \in Book /\ calibre[e] \in Title /\ Filed(calibre[e], settled[e])
    BY <1>2 DEF IInv, Settled
  <2>2. l.cat = "Calibre" /\ l.book = settled[e]
    BY DEF CalibreLink
  <2>3. l \in ls /\ settled[e] \notin gone
    BY <2>1, <2>2 DEF Calibres, Orphans
  <2>4. None \notin gone
    BY LibraryAssumption DEF Orphans, Book
  <2>5. l \in links'
    BY <2>2, <2>3 DEF DeleteBooks
  <2>6. alias'[calibre[e]] = alias[calibre[e]]
    BY <2>1, <2>3, <2>4 DEF DeleteBooks, Filed
  <2>. QED
    BY <1>1, <2>1, <2>3, <2>5, <2>6 DEF SameFor
<1>. QED
  BY <1>1, <1>2 DEF RowStays

\* Links of other libraries come and go.
LEMMA OtherLinksAreFree ==
    ASSUME IInv, Calibres(links) \subseteq links', UNCHANGED <<key, alias, settled, calibre>>
    PROVE  RowStays /\ \A e \in Entry : settled[e] # None => SameFor(e)
  BY DEF IInv, Settled, SameFor, RowStays, Book, Calibres, CalibreLink

\* A new row is nobody's.
LEMMA NewRowIsFree ==
    ASSUME IInv, NEW p \in Proc, Insert(p)
    PROVE  RowStays /\ \A e \in Entry : settled[e] # None => SameFor(e)
<1>1. UNCHANGED <<alias, links, settled, calibre>>
  BY DEF Insert, world
<1>2. CASE UNCHANGED key
  BY <1>1, <1>2, OtherLinksAreFree DEF Calibres
<1>3. CASE Fresh # {} /\ key' = [key EXCEPT ![Least(Fresh)] = job[p].key]
  <2>1. PICK n \in Id : n = Least(Fresh) /\ n \notin Held
    BY <1>3, FreshIsFree
  <2>2. n \notin Book /\ n # job[Sync].row
    BY <2>1, NoJobFits DEF Held, Sync
  <2>3. key \in [Id -> Name]
    BY DEF IInv, TypeOK, Name
  <2>4. \A i \in Id : i # n => key'[i] = key[i]
    BY <1>3, <2>1, <2>3
  <2>. QED
    BY <1>1, <2>2, <2>4 DEF IInv, Settled, SameFor, RowStays, Book
<1>. QED
  BY <1>2, <1>3 DEF Insert

\* A merge takes the entries of its books out.
LEMMA MergeForgets ==
    ASSUME IInv, NEW r \in Req, MergeTx(r)
    PROVE  /\ RowStays /\ settled' \in [Entry -> Id \cup {None}]
           /\ \A e \in Entry : settled'[e] # None => SameFor(e)
<1>. DEFINE k == job[r].row
            o == job[r].other
            t == job[r].key
            moved(i) == IF i = o THEN k ELSE i
            home(l) == [l EXCEPT !.book = moved(@)]
<1>1. settled \in [Entry -> Id \cup {None}] /\ calibre' = calibre
  BY DEF IInv, Settled, MergeTx, world
<1>2. CASE k \notin Book
  BY <1>1, <1>2, OtherLinksAreFree DEF MergeTx, rows, history, Calibres
<1>3. CASE k \in Book
  <2>1. /\ links' = {home(l) : l \in links}
        /\ alias' = [a \in Title |-> IF a = t THEN k ELSE moved(alias[a])]
        /\ key' = [key EXCEPT ![o] = None]
        /\ settled' = [e \in Entry |-> IF settled[e] \in {k, o} \/ calibre[e] = t THEN None ELSE settled[e]]
    BY <1>3 DEF MergeTx
  <2>2. o \in Id /\ o # None /\ key \in [Id -> Name]
    BY LibraryAssumption DEF MergeTx, IInv, Jobs, Fits, Proc, TypeOK, Name
  <2>3. settled' \in [Entry -> Id \cup {None}]
    BY <1>1, <2>1
  <2>4. \A i \in Book' : i \in Book /\ key'[i] = key[i]
    BY <2>1, <2>2 DEF Book
  <2>5. ASSUME NEW e \in Entry, settled'[e] # None
        PROVE  SameFor(e)
    <3>. DEFINE l == CalibreLink(e, settled[e], calibre[e])
    <3>1. settled'[e] = settled[e] /\ settled[e] \notin {k, o} /\ calibre[e] # t
      BY <2>1, <2>5
    <3>2. l \in links /\ settled[e] \in Book /\ calibre[e] \in Title /\ Filed(calibre[e], settled[e])
      BY <2>5, <3>1 DEF IInv, Settled
    <3>3. home(l) = l
      BY <3>1 DEF CalibreLink
    <3>4. l \in links'
      BY <2>1, <3>2, <3>3
    <3>5. settled[e] \in Book' /\ key'[settled[e]] = key[settled[e]]
      BY <2>1, <2>2, <3>1, <3>2 DEF Book
    <3>6. alias'[calibre[e]] = alias[calibre[e]]
      BY <2>1, <2>2, <3>1, <3>2 DEF Filed
    <3>. QED
      BY <1>1, <3>1, <3>4, <3>5, <3>6 DEF SameFor
  <2>. QED
    BY <2>3, <2>4, <2>5 DEF RowStays
<1>. QED
  BY <1>2, <1>3

LEMMA RequestKeepsSettled ==
    ASSUME IInv, NEW r \in Req, Request(r)
    PROVE  Settled'
<1>1. sync' = sync /\ at'[Sync] = at[Sync] /\ job'[Sync] = job[Sync]
  BY RequestLeavesSync
<1>2. r \in Proc /\ settled \in [Entry -> Id \cup {None}]
  BY DEF Proc, IInv, Settled
<1>3. ASSUME RowStays, settled' \in [Entry -> Id \cup {None}], \A e \in Entry : settled'[e] # None => SameFor(e)
      PROVE  Settled'
  BY <1>1, <1>3, WayIfSame, SettledIfSame
<1>4. ASSUME settled' = settled, RowStays /\ \A e \in Entry : settled[e] # None => SameFor(e)
      PROVE  Settled'
  BY <1>2, <1>3, <1>4
<1>5. CASE \/ Import(r) \/ NextTitle(r) \/ AliasKey(r) \/ Select(r) \/ ListEnds(r)
           \/ Split(r) \/ SplitBefore(r) \/ SplitExisted(r) \/ SplitMember(r) \/ SplitDecide(r)
           \/ UndoMembers(r) \/ UndoFound(r) \/ CreateEvent(r) \/ EventCopies(r) \/ EventList(r)
           \/ Claim(r) \/ Merge(r) \/ MergeKey(r) \/ FindBoxSet(r) \/ NotBoxSet(r) \/ DeleteEvent(r)
  <2>1. UNCHANGED <<key, alias, links, settled, calibre>>
    BY <1>5 DEF Import, NextTitle, AliasKey, Select, ListEnds, Split, SplitBefore, SplitExisted, SplitMember,
         SplitDecide, UndoMembers, UndoFound, CreateEvent, EventCopies, EventList, Claim, Merge, MergeKey,
         FindBoxSet, NotBoxSet, DeleteEvent, Begin, rows, world, history
  <2>. QED
    BY <2>1, <1>4, OtherLinksAreFree DEF Calibres
<1>6. CASE AddCopy(r) \/ EventCopy(r) \/ Remove(r) \/ DropUnlisted(r)
  <2>1. UNCHANGED <<key, alias, settled, calibre>>
    BY <1>6 DEF AddCopy, EventCopy, Remove, DropUnlisted, Begin, rows, world, history
  <2>2. Calibres(links) \subseteq links'
    BY <1>6 DEF AddCopy, EventCopy, Remove, DropUnlisted, Calibres
  <2>. QED
    BY <2>1, <2>2, <1>4, OtherLinksAreFree
<1>7. CASE Insert(r)
  BY <1>7, <1>2, <1>4, NewRowIsFree DEF Insert
<1>8. CASE RemoveBook(r)
  <2>1. {job[r].row} \cap Orphans(links) \subseteq Orphans(links) /\ Calibres(links) \subseteq links
    BY DEF Calibres
  <2>2. DeleteBooks({job[r].row} \cap Orphans(links), links) /\ settled' = settled /\ calibre' = calibre
    BY <1>8 DEF RemoveBook, world
  <2>. QED
    BY <2>1, <2>2, <1>4, OrphansAreNotSettled
<1>9. CASE Undo(r)
  <2>1. PICK gone \in SUBSET Orphans(links) : DeleteBooks(gone, links)
    BY <1>9 DEF Undo
  <2>2. settled' = settled /\ calibre' = calibre
    BY <1>9 DEF Undo, Begin
  <2>. QED
    BY <2>1, <2>2, <1>4, OrphansAreNotSettled DEF Calibres
<1>10. CASE DeleteCatalog(r)
  <2>. DEFINE ls == {l \in links : l.cat # "Shelf"}
  <2>1. DeleteBooks(Orphans(ls), ls) /\ settled' = settled /\ calibre' = calibre
    BY <1>10 DEF DeleteCatalog
  <2>2. Calibres(links) \subseteq ls
    BY DEF Calibres
  <2>. QED
    BY <2>1, <2>2, <1>4, OrphansAreNotSettled
<1>11. CASE MergeTx(r)
  BY <1>11, <1>3, MergeForgets
<1>12. CASE SetLibrary(r)
  <2>1. settled' = Nothing
    BY <1>12 DEF SetLibrary
  <2>. QED
    BY <2>1 DEF Settled, Nothing
<1>. QED
  BY <1>5, <1>6, <1>7, <1>8, <1>9, <1>10, <1>11, <1>12 DEF Request

\* The sync finds for each such entry the book that it was filed under.
LEMMA FilingKeepsSettled ==
    ASSUME IInv, NextEntry \/ FollowRead \/ FollowOthers \/ FollowRename \/ AliasKey(Sync) \/ Insert(Sync) \/ Select(Sync)
    PROVE  Settled'
<1>. DEFINE j == job[Sync]
<1>. USE SyncGoes, NoJobFits DEF Filing, Ending
<1>1. /\ Settled /\ settled \in [Entry -> Id \cup {None}] /\ j \in Job /\ at[Sync] # "idle"
      /\ key \in [Id -> Name] /\ \A i, k \in Book : key[i] = key[k] => i = k
  BY DEF IInv, Settled, TypeOK, Name, NextEntry, FollowRead, FollowOthers, FollowRename, AliasKey, Insert, Select
<1>2. UNCHANGED <<links, alias, settled, calibre>>
  BY DEF NextEntry, FollowRead, FollowOthers, FollowRename, AliasKey, Insert, Select, rows, world, history
<1>3. ASSUME NEW e \in Entry, settled[e] # None
      PROVE  /\ settled[e] \in Book /\ calibre[e] \in Title /\ CalibreLink(e, settled[e], calibre[e]) \in links
             /\ Filed(calibre[e], settled[e]) /\ OnItsWay(e, settled[e])
  BY <1>1, <1>3 DEF Settled
<1>4. ASSUME key' = key
      PROVE  \A e \in Entry : settled[e] # None => SameFor(e)
  BY <1>2, <1>4, OtherLinksAreFree DEF Calibres
<1>5. CASE NextEntry
  <2>1. PICK n \in Entry : sync' = [sync EXCEPT !.todo = @ \ {n}, !.cur = n]
    BY <1>5, LeastIsIn, LibraryAssumption DEF NextEntry, IInv, SyncFits, SyncState
  <2>2. /\ sync'.todo = sync.todo \ {n} /\ sync'.keep = sync.keep /\ sync'.snap = sync.snap
        /\ sync'.cur = n /\ sync'.seen = sync.seen
    BY <2>1 DEF IInv, SyncFits, SyncState
  <2>3. at[Sync] = "next" /\ at'[Sync] = "follow" /\ key' = key
    BY <1>5 DEF NextEntry, rows
  <2>4. ASSUME NEW e \in Entry, settled[e] # None
        PROVE  OnItsWay(e, settled[e])'
    BY <1>2, <1>3, <2>2, <2>3, <2>4 DEF OnItsWay
  <2>. QED
    BY <1>1, <1>2, <1>4, <2>3, <2>4, SettledIfSame
<1>6. CASE FollowRead
  <2>1. at[Sync] = "follow" /\ key' = key /\ sync' = sync
    BY <1>6 DEF FollowRead, rows
  <2>2. \/ at'[Sync] \in {"alias", "others"}
        \/ \E i \in Book : at'[Sync] = "rename" /\ job'[Sync] = [j EXCEPT !.row = i] /\ key[i] = j.title
    BY <1>6 DEF FollowRead, IInv, TypeOK
  <2>3. \A i : [j EXCEPT !.row = i].row = i /\ [j EXCEPT !.row = i].title = j.title
    BY <1>1 DEF Job
  <2>4. at'[Sync] \in {"alias", "others"} \/ (at'[Sync] = "rename" /\ key'[job'[Sync].row] = job'[Sync].title)
    BY <2>1, <2>2, <2>3
  <2>5. ASSUME NEW e \in Entry, settled[e] # None
        PROVE  OnItsWay(e, settled[e])'
    BY <1>2, <1>3, <2>1, <2>4, <2>5 DEF OnItsWay
  <2>. QED
    BY <1>1, <1>2, <1>4, <2>1, <2>5, SettledIfSame
<1>7. CASE FollowOthers
  <2>. DEFINE t == j.title
              others == {l \in links : l.book = j.row /\ ~(l.cat = "Calibre" /\ l.ext = sync.cur)}
  <2>1. at[Sync] = "others" /\ key' = key /\ sync' = sync /\ job' = job
    BY <1>7 DEF FollowOthers, rows
  <2>2. at'[Sync] = "alias" \/ (at'[Sync] = "rename" /\ others = {} /\ Keyed(t) = {} /\ alias[t] = None)
    BY <1>7 DEF FollowOthers
  <2>3. ASSUME NEW e \in Entry, settled[e] # None, at'[Sync] = "rename"
        PROVE  e # sync.cur /\ settled[e] # j.row
    <3>1. others = {} /\ Keyed(t) = {} /\ alias[t] = None
      BY <2>2, <2>3
    <3>2. e # sync.cur
      <4>1. ASSUME e = sync.cur
            PROVE  calibre[e] = t
        BY <4>1, <1>3, <2>1, <2>3 DEF OnItsWay, IInv, SyncFits
      <4>. QED
        BY <4>1, <3>1, <1>3, <2>3 DEF Filed, Keyed, Book
    <3>3. settled[e] # j.row
      <4>1. PICK l \in links : l.book = settled[e] /\ l.ext = e
        BY <1>3, <2>3 DEF CalibreLink
      <4>. QED
        BY <4>1, <3>1, <3>2
    <3>. QED
      BY <3>2, <3>3
  <2>4. ASSUME NEW e \in Entry, settled[e] # None
        PROVE  OnItsWay(e, settled[e])'
    BY <1>2, <1>3, <2>1, <2>2, <2>3, <2>4 DEF OnItsWay
  <2>. QED
    BY <1>1, <1>2, <1>4, <2>1, <2>4, SettledIfSame
<1>8. CASE FollowRename
  <2>. DEFINE i == j.row
              t == j.title
              clash == i \in Book /\ Keyed(t) \ {i} # {}
  <2>1. at[Sync] = "rename" /\ sync' = sync
    BY <1>8 DEF FollowRename
  <2>2. CASE clash
    <3>1. at'[Sync] = "next" /\ key' = key
      BY <2>2, <1>8, SyncMovesOn DEF FollowRename
    <3>2. ASSUME NEW e \in Entry, settled[e] # None
          PROVE  e # sync.cur
      <4>1. ASSUME e = sync.cur
            PROVE  key[i] = t
        BY <4>1, <1>3, <2>1, <2>2, <3>2 DEF OnItsWay
      <4>2. key[i] = t => ~clash
        BY <1>1, <2>2 DEF Keyed, Book
      <4>. QED
        BY <4>1, <4>2, <2>2
    <3>3. ASSUME NEW e \in Entry, settled[e] # None
          PROVE  OnItsWay(e, settled[e])'
      BY <1>2, <1>3, <2>1, <3>1, <3>2, <3>3 DEF OnItsWay
    <3>. QED
      BY <1>1, <1>2, <1>4, <3>1, <3>3, SettledIfSame
  <2>3. CASE ~clash
    <3>1. at'[Sync] = "alias" /\ key' = IF i \in Book THEN [key EXCEPT ![i] = t] ELSE key
      BY <2>3, <1>8 DEF FollowRename
    <3>2. t \in Title
      BY <2>1 DEF IInv, SyncFits
    <3>3. Book' = Book
      BY <1>1, <3>1, <3>2, LibraryAssumption DEF Book
    <3>4. ASSUME NEW e \in Entry, settled[e] # None
          PROVE  SameFor(e) /\ OnItsWay(e, settled[e])'
      <4>1. key'[settled[e]] = key[settled[e]]
        BY <1>1, <1>3, <2>1, <3>1, <3>4 DEF OnItsWay, Book
      <4>2. SameFor(e)
        BY <4>1, <1>2, <1>3, <3>3, <3>4 DEF SameFor
      <4>. QED
        BY <4>2, <1>2, <1>3, <2>1, <3>1, <3>4 DEF OnItsWay
    <3>. QED
      BY <1>1, <1>2, <3>4, SettledIfSame
  <2>. QED
    BY <2>2, <2>3
<1>9. CASE AliasKey(Sync)
  <2>. DEFINE k == IF alias[j.title] # None THEN key[alias[j.title]] ELSE j.title
  <2>1. at[Sync] = "alias" /\ at'[Sync] = "insert" /\ key' = key /\ sync' = sync /\ job'[Sync] = [j EXCEPT !.key = k]
    BY <1>9 DEF AliasKey, rows
  <2>2. job'[Sync].key = k
    BY <1>1, <2>1 DEF Job
  <2>3. ASSUME NEW e \in Entry, settled[e] # None
        PROVE  OnItsWay(e, settled[e])'
    <3>1. e = sync.cur => calibre[e] = j.title
      BY <1>3, <2>1, <2>3 DEF OnItsWay, IInv, SyncFits
    <3>2. e = sync.cur => k = key[settled[e]]
      BY <3>1, <1>3, <2>3 DEF Filed
    <3>. QED
      BY <3>2, <1>2, <1>3, <2>1, <2>2, <2>3 DEF OnItsWay
  <2>. QED
    BY <1>1, <1>2, <1>4, <2>1, <2>3, SettledIfSame
<1>10. CASE Insert(Sync)
  <2>1. at[Sync] = "insert" /\ at'[Sync] = "select" /\ job' = job /\ sync' = sync
    BY <1>10 DEF Insert
  <2>2. \A e \in Entry : settled[e] # None => SameFor(e)
    BY <1>10, NewRowIsFree DEF Sync
  <2>3. ASSUME NEW e \in Entry, settled[e] # None
        PROVE  OnItsWay(e, settled[e])'
    BY <1>2, <1>3, <2>1, <2>2, <2>3 DEF OnItsWay, SameFor
  <2>. QED
    BY <1>1, <1>2, <2>2, <2>3, SettledIfSame
<1>11. CASE Select(Sync)
  <2>1. at[Sync] = "select" /\ key' = key /\ sync' = sync
    BY <1>11 DEF Select, rows
  <2>2. j.kind = "sync"
    BY <2>1 DEF IInv, SyncFits
  <2>3. CASE Keyed(j.key) = {} /\ Move(Sync)
    <3>1. at'[Sync] = "next"
      BY <2>3, SyncMovesOn
    <3>2. ASSUME NEW e \in Entry, settled[e] # None
          PROVE  OnItsWay(e, settled[e])'
      <4>1. e # sync.cur
        BY <1>3, <2>1, <2>3, <3>2 DEF OnItsWay, Keyed, Book
      <4>. QED
        BY <4>1, <1>2, <1>3, <2>1, <3>1, <3>2 DEF OnItsWay
    <3>. QED
      BY <1>1, <1>2, <1>4, <2>1, <3>2, SettledIfSame
  <2>4. CASE \E i \in Keyed(j.key) : Set(Sync, [j EXCEPT !.row = i]) /\ Goto(Sync, AfterUpsert[j.kind])
    <3>1. PICK i \in Keyed(j.key) : Set(Sync, [j EXCEPT !.row = i]) /\ Goto(Sync, AfterUpsert[j.kind])
      BY <2>4
    <3>2. AfterUpsert["sync"] = "copy"
      BY DEF AfterUpsert
    <3>3. at'[Sync] = "copy" /\ job'[Sync].row = i
      BY <1>1, <2>2, <3>1, <3>2 DEF Job
    <3>4. ASSUME NEW e \in Entry, settled[e] # None
          PROVE  OnItsWay(e, settled[e])'
      <4>1. e = sync.cur => i = settled[e]
        <5>1. e = sync.cur => j.key = key[settled[e]]
          BY <1>3, <2>1, <3>4 DEF OnItsWay
        <5>2. settled[e] \in Book /\ i \in Id /\ key[i] = j.key
          BY <1>3, <3>1, <3>4 DEF Keyed
        <5>3. e = sync.cur => i \in Book
          BY <5>1, <5>2 DEF Book
        <5>. QED
          BY <1>1, <5>1, <5>2, <5>3
      <4>. QED
        BY <4>1, <1>2, <1>3, <2>1, <3>3, <3>4 DEF OnItsWay
    <3>. QED
      BY <1>1, <1>2, <1>4, <2>1, <3>4, SettledIfSame
  <2>. QED
    BY <1>11, <2>2, <2>3, <2>4 DEF Select
<1>. QED
  BY <1>5, <1>6, <1>7, <1>8, <1>9, <1>10, <1>11

\* From there to the end of the sync.
LEMMA SyncKeepsSettled ==
    ASSUME IInv, StartSync \/ SyncCopy \/ PruneRead \/ PruneEntry \/ PruneBooks \/ StaleRead \/ StaleLink \/ EndSync
    PROVE  Settled'
<1>. DEFINE j == job[Sync]
<1>. USE SyncGoes, NoJobFits DEF Filing, Ending
<1>1. Settled /\ settled \in [Entry -> Id \cup {None}] /\ SyncFits /\ sync \in SyncState
  BY DEF IInv, Settled, SyncFits
<1>2. ASSUME NEW e \in Entry, settled[e] # None
      PROVE  /\ settled[e] \in Book /\ calibre[e] \in Title /\ CalibreLink(e, settled[e], calibre[e]) \in links
             /\ Filed(calibre[e], settled[e]) /\ (at[Sync] # "idle" => OnItsWay(e, settled[e]))
  BY <1>1, <1>2 DEF Settled
<1>3. ASSUME UNCHANGED <<key, links, alias, settled, calibre>>
      PROVE  \A e \in Entry : settled[e] # None => SameFor(e)
  BY <1>3, OtherLinksAreFree DEF Calibres
<1>4. CASE StartSync
  <2>1. UNCHANGED <<key, links, alias, settled, calibre>> /\ at'[Sync] = "next"
    BY <1>4 DEF StartSync, rows, world
  <2>2. sync'.snap = calibre /\ sync'.todo = {e \in Entry : calibre[e] # None} /\ sync'.keep = {}
    BY <1>4 DEF StartSync, NoSync
  <2>3. ASSUME NEW e \in Entry, settled[e] # None
        PROVE  OnItsWay(e, settled[e])'
    BY <1>2, <2>1, <2>2, <2>3, LibraryAssumption DEF OnItsWay
  <2>. QED
    BY <1>1, <1>3, <2>1, <2>3, SettledIfSame
<1>5. CASE SyncCopy
  <2>1. CASE End(Sync) /\ UNCHANGED <<links, settled>>
    <3>1. UNCHANGED <<key, links, alias, settled, calibre>> /\ at'[Sync] = "idle"
      BY <1>5, <2>1 DEF SyncCopy, End, rows, world
    <3>. QED
      BY <1>1, <1>3, <3>1, SettledIfSame
  <2>2. CASE ~(End(Sync) /\ UNCHANGED <<links, settled>>)
    <3>. DEFINE c == sync.cur
                i == j.row
                t == j.title
    <3>1. /\ at[Sync] = "copy" /\ i \in Book /\ Move(Sync)
          /\ links' = links \cup {CalibreLink(c, i, t)}
          /\ sync' = [sync EXCEPT !.keep = @ \cup {c}, !.seen = @ \cup {<<i, CalibrePath(c, t)>>}]
          /\ settled' = IF calibre[c] = t /\ Filed(t, i) THEN [settled EXCEPT ![c] = i] ELSE settled
          /\ UNCHANGED <<key, alias, calibre>>
      BY <1>5, <2>2 DEF SyncCopy, rows, world
    <3>2. c \in Entry /\ t \in Title /\ t = sync.snap[c]
      BY <1>1, <3>1 DEF SyncFits
    <3>3. /\ sync'.keep = sync.keep \cup {c} /\ sync'.seen = sync.seen \cup {<<i, CalibrePath(c, t)>>}
          /\ sync'.todo = sync.todo /\ sync'.snap = sync.snap /\ at'[Sync] = "next"
      BY <1>1, <3>1, SyncMovesOn DEF SyncState
    <3>4. settled' \in [Entry -> Id \cup {None}]
      BY <1>1, <3>1, <3>2 DEF Book
    <3>5. ASSUME NEW e \in Entry, settled'[e] # None
          PROVE  /\ settled'[e] \in Book' /\ calibre'[e] \in Title
                 /\ CalibreLink(e, settled'[e], calibre'[e]) \in links' /\ Filed(calibre[e], settled[e])'
                 /\ OnItsWay(e, settled[e])'
      <4>1. CASE e # c
        <5>1. settled'[e] = settled[e]
          BY <4>1, <3>1, <1>1
        <5>. QED
          BY <4>1, <5>1, <1>2, <3>1, <3>3, <3>5 DEF OnItsWay, Filed, Book
      <4>2. CASE e = c
        <5>1. settled'[e] = i /\ calibre[e] = t /\ Filed(t, i)
          <6>1. CASE calibre[c] = t /\ Filed(t, i)
            BY <6>1, <4>2, <3>1, <1>1
          <6>2. CASE settled' = settled
            BY <6>2, <4>2, <1>2, <3>1, <3>2, <3>5 DEF OnItsWay
          <6>. QED
            BY <6>1, <6>2, <3>1
        <5>. QED
          BY <4>2, <5>1, <3>1, <3>2, <3>3 DEF OnItsWay, Filed, Book
      <4>. QED
        BY <4>1, <4>2
    <3>6. ASSUME NEW e \in Entry, settled'[e] # None
          PROVE  Filed(calibre[e], settled[e])' /\ OnItsWay(e, settled[e])'
      BY <3>5, <3>6
    <3>. QED
      BY <3>4, <3>5, <3>6 DEF Settled
  <2>. QED
    BY <2>1, <2>2
<1>6. CASE PruneRead
  <2>1. UNCHANGED <<key, links, alias, settled, calibre>> /\ at[Sync] = "next" /\ at'[Sync] = "prune" /\ sync.todo = {}
    BY <1>6 DEF PruneRead, rows, world, history
  <2>2. sync'.snap = sync.snap /\ sync'.keep = sync.keep /\ sync'.seen = sync.seen
    BY <1>6, <1>1 DEF PruneRead, SyncState
  <2>3. ASSUME NEW e \in Entry, settled[e] # None
        PROVE  OnItsWay(e, settled[e])'
    BY <1>2, <2>1, <2>2, <2>3 DEF OnItsWay
  <2>. QED
    BY <1>1, <1>3, <2>1, <2>3, SettledIfSame
<1>7. CASE PruneEntry
  <2>1. UNCHANGED <<key, alias, settled, calibre, at, job>> /\ at[Sync] = "prune"
    BY <1>7 DEF PruneEntry, rows, world, history
  <2>2. PICK d \in sync.drop : links' = {l \in links : ~(l.cat = "Calibre" /\ l.ext = d)}
    BY <1>7 DEF PruneEntry
  <2>3. sync'.snap = sync.snap /\ sync'.keep = sync.keep /\ sync'.seen = sync.seen
    BY <1>7, <1>1 DEF PruneEntry, SyncState
  <2>4. ASSUME NEW e \in Entry, settled[e] # None
        PROVE  SameFor(e) /\ OnItsWay(e, settled[e])'
    <3>1. e \in sync.keep
      BY <1>2, <2>1, <2>4 DEF OnItsWay
    <3>2. e # d
      BY <1>1, <2>1, <2>2, <3>1 DEF SyncFits
    <3>3. CalibreLink(e, settled[e], calibre[e]) \in links'
      BY <1>2, <2>2, <2>4, <3>2 DEF CalibreLink
    <3>. QED
      BY <1>2, <2>1, <2>3, <2>4, <3>3 DEF SameFor, OnItsWay, Book
  <2>. QED
    BY <1>1, <2>1, <2>4, SettledIfSame
<1>8. CASE PruneBooks
  <2>1. DeleteBooks(Orphans(links), links) /\ UNCHANGED <<settled, calibre, sync, job>> /\ at[Sync] = "prune" /\ at'[Sync] = "read"
    BY <1>8 DEF PruneBooks, world, history
  <2>2. \A e \in Entry : settled[e] # None => SameFor(e)
    BY <2>1, OrphansAreNotSettled DEF Calibres
  <2>3. ASSUME NEW e \in Entry, settled[e] # None
        PROVE  OnItsWay(e, settled[e])'
    BY <1>2, <2>1, <2>2, <2>3 DEF OnItsWay, SameFor
  <2>. QED
    BY <1>1, <2>1, <2>2, <2>3, SettledIfSame
<1>9. CASE StaleRead
  <2>1. UNCHANGED <<key, links, alias, settled, calibre>> /\ at[Sync] = "read" /\ at'[Sync] = "stale"
    BY <1>9 DEF StaleRead, rows, world, history
  <2>2. sync'.snap = sync.snap /\ sync'.keep = sync.keep /\ sync'.seen = sync.seen
    BY <1>9, <1>1 DEF StaleRead, SyncState
  <2>3. ASSUME NEW e \in Entry, settled[e] # None
        PROVE  OnItsWay(e, settled[e])'
    BY <1>2, <2>1, <2>2, <2>3 DEF OnItsWay
  <2>. QED
    BY <1>1, <1>3, <2>1, <2>3, SettledIfSame
<1>10. CASE StaleLink
  <2>1. UNCHANGED <<key, alias, settled, calibre, at, job>> /\ at[Sync] = "stale"
    BY <1>10 DEF StaleLink, rows, world, history
  <2>2. PICK s \in sync.stale : links' = {l \in links : ~(l.cat = "Calibre" /\ <<l.book, l.path>> = s)}
    BY <1>10 DEF StaleLink
  <2>3. sync'.snap = sync.snap /\ sync'.keep = sync.keep /\ sync'.seen = sync.seen
    BY <1>10, <1>1 DEF StaleLink, SyncState
  <2>4. ASSUME NEW e \in Entry, settled[e] # None
        PROVE  SameFor(e) /\ OnItsWay(e, settled[e])'
    <3>1. <<settled[e], CalibrePath(e, calibre[e])>> \in sync.seen
      BY <1>2, <2>1, <2>4 DEF OnItsWay
    <3>2. <<settled[e], CalibrePath(e, calibre[e])>> # s
      BY <1>1, <2>1, <2>2, <3>1 DEF SyncFits
    <3>3. CalibreLink(e, settled[e], calibre[e]) \in links'
      BY <1>2, <2>2, <2>4, <3>2 DEF CalibreLink
    <3>. QED
      BY <1>2, <2>1, <2>3, <2>4, <3>3 DEF SameFor, OnItsWay, Book
  <2>. QED
    BY <1>1, <2>1, <2>4, SettledIfSame
<1>11. CASE EndSync
  <2>1. DeleteBooks(Orphans(links), links) /\ UNCHANGED <<settled, calibre>> /\ at'[Sync] = "idle"
    BY <1>11 DEF EndSync, End, world
  <2>2. \A e \in Entry : settled[e] # None => SameFor(e)
    BY <2>1, OrphansAreNotSettled DEF Calibres
  <2>. QED
    BY <1>1, <2>1, <2>2, SettledIfSame
<1>. QED
  BY <1>4, <1>5, <1>6, <1>7, <1>8, <1>9, <1>10, <1>11

LEMMA StepKeepsSettled ==
    ASSUME IInv, Next
    PROVE  Settled'
<1>1. CASE SyncStep
  BY <1>1, FilingKeepsSettled, SyncKeepsSettled DEF SyncStep
<1>2. CASE \E r \in Req : Request(r)
  BY <1>2, RequestKeepsSettled
<1>3. CASE CalibreEdit
  <2>1. PICK c \in Entry : calibre' = [calibre EXCEPT ![c] = calibre'[c]] /\ settled' = [settled EXCEPT ![c] = None]
    BY <1>3 DEF CalibreEdit, IInv, TypeOK
  <2>2. UNCHANGED <<key, links, alias, at, job, sync>>
    BY <1>3 DEF CalibreEdit, rows
  <2>3. settled \in [Entry -> Id \cup {None}] /\ calibre \in [Entry -> Name]
    BY DEF IInv, Settled, TypeOK, Name
  <2>4. ASSUME NEW e \in Entry, settled'[e] # None
        PROVE  SameFor(e)
    <3>1. e # c
      BY <2>1, <2>3, <2>4
    <3>2. settled'[e] = settled[e] /\ calibre'[e] = calibre[e]
      BY <2>1, <2>3, <3>1
    <3>. QED
      BY <2>2, <2>4, <3>2 DEF SameFor, IInv, Settled, Book
  <2>5. RowStays
    BY <2>2 DEF RowStays, Book
  <2>6. settled' \in [Entry -> Id \cup {None}]
    BY <2>1, <2>3
  <2>. QED
    BY <2>2, <2>4, <2>5, <2>6, WayIfSame, SettledIfSame
<1>4. CASE Crash
  <2>1. UNCHANGED <<key, links, alias, settled, calibre>> /\ at'[Sync] = "idle"
    BY <1>4, NoJobFits DEF Crash, rows, world, Sync
  <2>2. settled \in [Entry -> Id \cup {None}]
    BY DEF IInv, Settled
  <2>. QED
    BY <2>1, <2>2, OtherLinksAreFree, SettledIfSame DEF Calibres
<1>. QED
  BY <1>1, <1>2, <1>3, <1>4 DEF Next

-----------------------------------------------------------------------------
(* The rows.                                                               *)

LEMMA StepKeepsCalibre ==
    ASSUME IInv, Next
    PROVE  calibre' \in [Entry -> Name]
<1>1. calibre \in [Entry -> Name]
  BY DEF IInv, TypeOK, Name
<1>2. calibre' = calibre \/ calibre' \in [Entry -> Name]
  <2>1. CASE SyncStep \/ Crash
    BY <2>1 DEF SyncStep, Crash, StartSync, NextEntry, FollowRead, FollowOthers, FollowRename, AliasKey, Insert,
       Select, SyncCopy, PruneRead, PruneEntry, PruneBooks, StaleRead, StaleLink, EndSync, world
  <2>2. CASE CalibreEdit
    BY <2>2, <1>1 DEF CalibreEdit, Name
  <2>3. ASSUME NEW r \in Req, Request(r)
        PROVE  calibre' = calibre \/ calibre' \in [Entry -> Name]
    <3>1. CASE Import(r) \/ Remove(r) \/ Split(r) \/ Undo(r) \/ CreateEvent(r) \/ DeleteEvent(r) \/ Claim(r) \/ Merge(r)
      BY <3>1 DEF Import, Remove, Split, Undo, CreateEvent, DeleteEvent, Claim, Merge, Begin
    <3>2. CASE SetLibrary(r)
      BY <3>2 DEF SetLibrary, Name
    <3>3. CASE ~(\/ Import(r) \/ Remove(r) \/ Split(r) \/ Undo(r) \/ CreateEvent(r) \/ DeleteEvent(r) \/ Claim(r)
                 \/ Merge(r) \/ SetLibrary(r))
      BY <2>3, <3>3 DEF Request, NextTitle, AliasKey, Insert, Select, AddCopy, ListEnds, RemoveBook, DeleteCatalog,
         FindBoxSet, NotBoxSet, SplitBefore, SplitExisted, SplitMember, SplitDecide, UndoMembers, UndoFound,
         EventCopies, EventCopy, EventList, DropUnlisted, MergeKey, MergeTx, world
    <3>. QED
      BY <3>1, <3>2, <3>3
  <2>. QED
    BY <2>1, <2>2, <2>3 DEF Next
<1>. QED
  BY <1>1, <1>2

LEMMA IInvInductive == IInv /\ [Next]_vars => IInv'
<1>. SUFFICES ASSUME IInv, [Next]_vars
              PROVE  IInv'
  OBVIOUS
<1>1. JobsFit
  BY DEF IInv, JobsFit, TypeOK
<1>2. CASE Next
  <2>1. JobsFit'
    <3>1. CASE Crash
      BY <3>1, NoJobFits DEF Crash, JobsFit, Jobs, Fits, Place
    <3>2. CASE CalibreEdit
      BY <3>2, <1>1 DEF CalibreEdit, JobsFit, Jobs
    <3>. QED
      BY <1>1, <1>2, <3>1, <3>2, SyncJobsFit, RequestJobsFit DEF Next
  <2>2. TypeOK' /\ Shapes'
    BY <1>2, <2>1, StepKeepsRows, StepKeepsSync, StepKeepsCalibre, TypeSplit DEF RowsFit, TypeOK, JobsFit, Name, Shapes
  <2>. QED
    BY <1>2, <2>1, <2>2, StepKeepsSync, StepKeepsSettled DEF IInv, JobsFit
<1>3. CASE UNCHANGED vars
  BY <1>3 DEF vars, rows, lists, world, history, IInv, TypeOK, Shapes, Jobs, SyncFits, Settled, OnItsWay, Filed,
     Book, Calibres
<1>. QED
  BY <1>2, <1>3

LEMMA IInvInitially == Init => IInv
<1>. SUFFICES ASSUME Init
              PROVE  IInv
  OBVIOUS
<1>1. TypeOK /\ Shapes
  BY LibraryAssumption DEF Init, TypeOK, Shapes, Book, Calibres
<1>2. Jobs
  BY NoJobFits DEF Init, Jobs, Place
<1>3. SyncFits
  BY NoJobFits DEF Init, SyncFits, NoSync, SyncState, Name, Filing, Ending, Sync
<1>4. Settled
  BY DEF Init, Settled, Nothing
<1>. QED
  BY <1>1, <1>2, <1>3, <1>4 DEF IInv

\* Whatever imports, removals, box sets, events, merges and syncs do and wherever the process
\* dies, what refers to a book refers to one that is there, and an untouched entry of Calibre
\* keeps the row it was filed under, with its rating and notes.
THEOREM RowsAreKept == Spec => []BooksKeepTheirRows
<1>1. IInv => BooksKeepTheirRows
  BY DEF IInv, BooksKeepTheirRows, CalibreKeepsBook, Settled, CalibreLink
<1>. QED
  BY <1>1, IInvInitially, IInvInductive, PTL DEF Spec

-----------------------------------------------------------------------------
(* The mirror.  A sync that no merge and no deletion disturbs keeps one    *)
(* copy of each entry it has filed, under the book its title belongs to:   *)
(* no step of its own gives such a book another key, and what it prunes is *)
(* what it has not seen.                                                   *)

Keying(t) == IF alias[t] # None THEN key[alias[t]] ELSE t

\* Entry e was filed under book i, and nowhere else.
SeenAs(e, i) ==
    /\ sync.snap[e] \in Title
    /\ CalibreLink(e, i, sync.snap[e]) \in links
    /\ Filed(sync.snap[e], i)
    /\ <<i, CalibrePath(e, sync.snap[e])>> \in sync.seen
    /\ \A s \in sync.seen : s[2][1] = e => s = <<i, CalibrePath(e, sync.snap[e])>>

SeenFits ==
    /\ \A s \in sync.seen : s[2][1] \in sync.keep
    /\ \A e \in sync.keep : \E i \in Book : SeenAs(e, i)

\* What the sync has in hand: a rename changes the key only of a book no other entry has.
FilingFits ==
    LET i == job[Sync].row IN
    /\ at[Sync] = "rename" /\ i \in Book =>
         key[i] = job[Sync].title \/ \A l \in Calibres(links) : l.book = i => l.ext = sync.cur
    /\ at[Sync] \in {"insert", "select"} => job[Sync].key = Keying(job[Sync].title)
    /\ at[Sync] = "copy" /\ i \in Book => Filed(job[Sync].title, i)

\* What is left to prune.
EndingFits ==
    \A l \in Calibres(links) :
        /\ at[Sync] = "prune" => l.ext \in sync.keep \cup sync.drop
        /\ at[Sync] \in {"read", "stale"} => l.ext \in sync.keep
        /\ at[Sync] = "stale" => <<l.book, l.path>> \in sync.seen \cup sync.stale

Mirror == at[Sync] # "idle" /\ ~disturbed => SeenFits /\ FilingFits /\ EndingFits

\* The step leaves Calibre's links, and the keys of the books there were.
Undisturbed ==
    /\ Calibres(links') = Calibres(links) /\ alias' = alias
    /\ \A i \in Book : i \in Book' /\ key'[i] = key[i]

\* A deletion that takes no book takes nothing.
LEMMA NothingDeleted ==
    ASSUME IInv, NEW ls \in SUBSET links, Calibres(links) \subseteq ls, NEW gone \in SUBSET Book,
           DeleteBooks(gone, ls), Book' = Book
    PROVE  Undisturbed /\ RowStays
<1>1. gone = {}
  BY DEF DeleteBooks, Book
<1>2. key' = key
  BY <1>1 DEF DeleteBooks, IInv, TypeOK
<1>3. alias' = alias
  BY <1>1 DEF DeleteBooks, IInv, Shapes
<1>4. Calibres(links') = Calibres(links)
  BY <1>1 DEF DeleteBooks, Calibres
<1>. QED
  BY <1>2, <1>3, <1>4 DEF Undisturbed, RowStays, Book

\* A new row changes none that was there.
LEMMA NewRowDisturbsNothing ==
    ASSUME IInv, NEW p \in Proc, Insert(p)
    PROVE  Undisturbed /\ RowStays
<1>1. UNCHANGED <<alias, links>> /\ RowStays
  BY NewRowIsFree DEF Insert
<1>2. CASE UNCHANGED key
  BY <1>1, <1>2 DEF Undisturbed, Book
<1>3. CASE Fresh # {} /\ key' = [key EXCEPT ![Least(Fresh)] = job[p].key]
  <2>1. PICK n \in Id : n = Least(Fresh) /\ n \notin Book
    BY <1>3, FreshIsFree DEF Held
  <2>2. key \in [Id -> Name]
    BY DEF IInv, TypeOK, Name
  <2>. QED
    BY <1>1, <1>3, <2>1, <2>2 DEF Undisturbed, Book
<1>. QED
  BY <1>1, <1>2, <1>3 DEF Insert

LEMMA RequestDisturbs ==
    ASSUME IInv, NEW r \in Req, Request(r), at[Sync] # "idle", ~disturbed'
    PROVE  ~disturbed /\ Undisturbed /\ RowStays
<1>1. r \in Proc
  BY DEF Proc
<1>2. ASSUME UNCHANGED <<key, alias>>, Calibres(links') = Calibres(links)
      PROVE  Undisturbed /\ RowStays
  BY <1>2 DEF Undisturbed, RowStays, Book
<1>3. Deletes => ~disturbed /\ Book' = Book
  BY DEF Deletes
<1>4. CASE \/ Import(r) \/ NextTitle(r) \/ AliasKey(r) \/ Select(r) \/ ListEnds(r)
           \/ Split(r) \/ SplitBefore(r) \/ SplitExisted(r) \/ SplitMember(r) \/ SplitDecide(r)
           \/ UndoMembers(r) \/ UndoFound(r) \/ CreateEvent(r) \/ EventCopies(r) \/ EventList(r)
           \/ Claim(r) \/ Merge(r) \/ MergeKey(r) \/ FindBoxSet(r) \/ NotBoxSet(r) \/ DeleteEvent(r)
  <2>1. UNCHANGED <<key, alias, links, disturbed>>
    BY <1>4 DEF Import, NextTitle, AliasKey, Select, ListEnds, Split, SplitBefore, SplitExisted, SplitMember,
         SplitDecide, UndoMembers, UndoFound, CreateEvent, EventCopies, EventList, Claim, Merge, MergeKey,
         FindBoxSet, NotBoxSet, DeleteEvent, Begin, rows, history
  <2>. QED
    BY <2>1, <1>2
<1>5. CASE AddCopy(r) \/ EventCopy(r) \/ Remove(r) \/ DropUnlisted(r)
  <2>1. UNCHANGED <<key, alias, disturbed>>
    BY <1>5 DEF AddCopy, EventCopy, Remove, DropUnlisted, rows
  <2>2. Calibres(links') = Calibres(links)
    <3>1. CASE AddCopy(r)
      BY <3>1 DEF AddCopy, Calibres, ListLink
    <3>2. CASE EventCopy(r)
      BY <3>2 DEF EventCopy, Calibres, ListLink
    <3>3. CASE Remove(r) \/ DropUnlisted(r)
      BY <3>3 DEF Remove, DropUnlisted, Calibres
    <3>. QED
      BY <1>5, <3>1, <3>2, <3>3
  <2>. QED
    BY <2>1, <2>2, <1>2
<1>6. CASE Insert(r)
  BY <1>6, <1>1, NewRowDisturbsNothing DEF Insert
<1>7. CASE RemoveBook(r)
  <2>1. DeleteBooks({job[r].row} \cap Orphans(links), links) /\ Deletes
    BY <1>7 DEF RemoveBook
  <2>. QED
    BY <2>1, <1>3, NothingDeleted DEF Orphans, Calibres
<1>8. CASE Undo(r)
  <2>1. Deletes /\ \E gone \in SUBSET Book : DeleteBooks(gone, links)
    BY <1>8 DEF Undo, Orphans
  <2>. QED
    BY <2>1, <1>3, NothingDeleted DEF Calibres
<1>9. CASE DeleteCatalog(r)
  <2>. DEFINE ls == {l \in links : l.cat # "Shelf"}
  <2>1. DeleteBooks(Orphans(ls), ls) /\ Deletes
    BY <1>9 DEF DeleteCatalog
  <2>2. ls \in SUBSET links /\ Calibres(links) \subseteq ls /\ Orphans(ls) \in SUBSET Book
    BY DEF Calibres, Orphans
  <2>. HIDE DEF ls
  <2>. QED
    BY <2>1, <2>2, <1>3, NothingDeleted
<1>10. CASE MergeTx(r)
  <2>1. UNCHANGED <<rows, links, history>>
    BY <1>10 DEF MergeTx
  <2>. QED
    BY <2>1, <1>2 DEF rows, history
<1>11. CASE SetLibrary(r)
  BY <1>11 DEF SetLibrary
<1>. QED
  BY <1>4, <1>5, <1>6, <1>7, <1>8, <1>9, <1>10, <1>11 DEF Request

\* What was filed stays so while its link, its key and the merges do.
LEMMA SeenStays ==
    ASSUME SeenFits, sync'.keep = sync.keep, sync'.seen = sync.seen, sync'.snap = sync.snap,
           \A e \in sync.keep, i \in Book : SeenAs(e, i) =>
               /\ i \in Book' /\ CalibreLink(e, i, sync.snap[e]) \in links'
               /\ alias'[sync.snap[e]] = alias[sync.snap[e]] /\ key'[i] = key[i]
    PROVE  SeenFits'
<1>1. ASSUME NEW e \in sync.keep, NEW i \in Book, SeenAs(e, i)
      PROVE  i \in Book' /\ SeenAs(e, i)'
  BY <1>1 DEF SeenAs, Filed
<1>. QED
  BY <1>1 DEF SeenFits

LEMMA SeenIfUndisturbed ==
    ASSUME SeenFits, sync'.keep = sync.keep, sync'.seen = sync.seen, sync'.snap = sync.snap, Undisturbed
    PROVE  SeenFits'
<1>1. ASSUME NEW e, NEW i, SeenAs(e, i)
      PROVE  CalibreLink(e, i, sync.snap[e]) \in links'
  BY <1>1 DEF SeenAs, Undisturbed, Calibres, CalibreLink
<1>. QED
  BY <1>1, SeenStays DEF Undisturbed

LEMMA MirrorIfUndisturbed ==
    ASSUME IInv, Mirror, sync' = sync, at'[Sync] = at[Sync], job'[Sync] = job[Sync],
           at[Sync] # "idle" /\ ~disturbed' => ~disturbed /\ Undisturbed /\ RowStays
    PROVE  Mirror'
<1>. SUFFICES ASSUME at[Sync] # "idle", ~disturbed'
              PROVE  SeenFits' /\ FilingFits' /\ EndingFits'
  BY DEF Mirror
<1>1. SeenFits /\ FilingFits /\ EndingFits /\ Undisturbed /\ RowStays
  BY DEF Mirror
<1>2. SeenFits'
  BY <1>1, SeenIfUndisturbed
<1>3. EndingFits'
  BY <1>1 DEF EndingFits, Undisturbed
<1>4. FilingFits'
  <2>. DEFINE i == job[Sync].row
              t == job[Sync].title
  <2>1. CASE at[Sync] = "rename"
    BY <2>1, <1>1 DEF FilingFits, Undisturbed, RowStays
  <2>2. CASE at[Sync] \in {"insert", "select"}
    <3>1. t \in Title /\ alias[t] \in Book \cup {None}
      BY <2>2 DEF IInv, SyncFits, Filing, TypeOK
    <3>2. Keying(t)' = Keying(t)
      BY <3>1, <1>1 DEF Keying, Undisturbed
    <3>. QED
      BY <2>2, <3>2, <1>1 DEF FilingFits
  <2>3. CASE at[Sync] = "copy"
    BY <2>3, <1>1 DEF FilingFits, Undisturbed, RowStays, Filed
  <2>. QED
    BY <2>1, <2>2, <2>3 DEF FilingFits
<1>. QED
  BY <1>2, <1>3, <1>4

\* The steps that file an entry.
LEMMA FilingKeepsMirror ==
    ASSUME IInv, Mirror,
           NextEntry \/ FollowRead \/ FollowOthers \/ FollowRename \/ AliasKey(Sync) \/ Insert(Sync) \/ Select(Sync)
    PROVE  Mirror'
<1>. DEFINE j == job[Sync]
<1>. USE SyncGoes, NoJobFits DEF Filing
<1>1. UNCHANGED <<links, alias, disturbed>> /\ at[Sync] # "idle"
  BY DEF NextEntry, FollowRead, FollowOthers, FollowRename, AliasKey, Insert, Select, rows, history
<1>. SUFFICES ASSUME ~disturbed, at'[Sync] # "idle"
              PROVE  SeenFits' /\ FilingFits' /\ EndingFits'
  BY <1>1 DEF Mirror
<1>2. /\ SeenFits /\ FilingFits /\ EndingFits /\ SyncFits /\ j \in Job
      /\ key \in [Id -> Name] /\ \A i, k \in Book : key[i] = key[k] => i = k
  BY <1>1 DEF Mirror, IInv, TypeOK, Name
<1>3. at'[Sync] \notin {"prune", "read", "stale"} => EndingFits'
  BY DEF EndingFits
<1>4. at'[Sync] \notin {"rename", "insert", "select", "copy"} => FilingFits'
  BY DEF FilingFits
<1>5. ASSUME sync'.keep = sync.keep, sync'.seen = sync.seen, sync'.snap = sync.snap, key' = key
      PROVE  SeenFits'
  BY <1>1, <1>2, <1>5, SeenIfUndisturbed DEF Undisturbed, Book
<1>6. CASE NextEntry
  <2>1. at'[Sync] = "follow" /\ key' = key
    BY <1>6 DEF NextEntry, rows
  <2>2. sync'.keep = sync.keep /\ sync'.seen = sync.seen /\ sync'.snap = sync.snap
    BY <1>6, <1>2 DEF NextEntry, SyncFits, SyncState
  <2>. QED
    BY <2>1, <2>2, <1>3, <1>4, <1>5
<1>7. CASE FollowRead
  <2>1. sync' = sync /\ key' = key
    BY <1>7 DEF FollowRead, rows
  <2>2. CASE Goto(Sync, "alias")
    BY <2>1, <2>2, <1>3, <1>4, <1>5
  <2>3. CASE \E l \in links : /\ Set(Sync, [j EXCEPT !.row = l.book])
                              /\ Goto(Sync, IF key[l.book] = j.title THEN "rename" ELSE "others")
    <3>1. PICK l \in links : /\ Set(Sync, [j EXCEPT !.row = l.book])
                             /\ Goto(Sync, IF key[l.book] = j.title THEN "rename" ELSE "others")
      BY <2>3
    <3>2. job'[Sync].row = l.book /\ job'[Sync].title = j.title
      BY <3>1, <1>2 DEF Job
    <3>3. at'[Sync] \in {"rename", "others"} /\ (at'[Sync] = "rename" => key[l.book] = j.title)
      BY <3>1
    <3>4. FilingFits'
      BY <2>1, <3>2, <3>3 DEF FilingFits
    <3>. QED
      BY <2>1, <3>3, <3>4, <1>3, <1>5
  <2>. QED
    BY <1>7, <2>2, <2>3 DEF FollowRead
<1>8. CASE FollowOthers
  <2>1. sync' = sync /\ key' = key /\ job' = job
    BY <1>8 DEF FollowOthers, rows
  <2>2. at'[Sync] \in {"rename", "alias"}
    BY <1>8 DEF FollowOthers
  <2>3. at'[Sync] = "rename" => \A l \in links : l.book = j.row => l.ext = sync.cur
    BY <1>8 DEF FollowOthers
  <2>4. FilingFits'
    BY <1>1, <2>1, <2>2, <2>3 DEF FilingFits, Calibres
  <2>. QED
    BY <2>1, <2>2, <2>4, <1>3, <1>5
<1>9. CASE FollowRename
  <2>. DEFINE i == j.row
              t == j.title
  <2>1. at[Sync] = "rename" /\ sync' = sync
    BY <1>9 DEF FollowRename
  <2>2. CASE Move(Sync) /\ key' = key
    BY <2>1, <2>2, SyncMovesOn, <1>3, <1>4, <1>5
  <2>3. CASE Goto(Sync, "alias") /\ key' = (IF i \in Book THEN [key EXCEPT ![i] = t] ELSE key)
    <3>1. t \in Title /\ sync.cur \notin sync.keep
      BY <2>1, <1>2 DEF SyncFits
    <3>2. ASSUME NEW e \in sync.keep, NEW k \in Book, SeenAs(e, k)
          PROVE  k \in Book' /\ key'[k] = key[k]
      <4>1. k = i => key[i] = t
        <5>1. CalibreLink(e, k, sync.snap[e]) \in Calibres(links)
          BY <3>2 DEF SeenAs, Calibres, CalibreLink
        <5>2. CalibreLink(e, k, sync.snap[e]).book = k /\ CalibreLink(e, k, sync.snap[e]).ext = e
          BY DEF CalibreLink
        <5>3. e # sync.cur
          BY <3>1
        <5>. QED
          BY <2>1, <5>1, <5>2, <5>3, <1>2 DEF FilingFits
      <4>2. key'[k] = key[k]
        BY <2>3, <4>1, <1>2 DEF Book
      <4>. QED
        BY <4>2 DEF Book
    <3>3. SeenFits'
      BY <1>1, <1>2, <2>1, <3>2, SeenStays DEF SeenAs
    <3>. QED
      BY <2>3, <3>3, <1>3, <1>4
  <2>. QED
    BY <1>9, <2>2, <2>3 DEF FollowRename
<1>10. CASE AliasKey(Sync)
  <2>1. at'[Sync] = "insert" /\ key' = key /\ sync' = sync /\ job'[Sync] = [j EXCEPT !.key = Keying(j.title)]
    BY <1>10 DEF AliasKey, rows, Keying
  <2>2. job'[Sync].key = Keying(j.title) /\ job'[Sync].title = j.title
    BY <1>2, <2>1 DEF Job
  <2>3. Keying(j.title)' = Keying(job'[Sync].title)
    BY <1>1, <2>1, <2>2 DEF Keying
  <2>4. FilingFits'
    BY <1>1, <2>1, <2>2 DEF FilingFits, Keying
  <2>. QED
    BY <2>1, <2>4, <1>3, <1>5
<1>11. CASE Insert(Sync)
  <2>1. at[Sync] = "insert" /\ at'[Sync] = "select" /\ job' = job /\ sync' = sync
    BY <1>11 DEF Insert
  <2>2. Undisturbed
    BY <1>11, NewRowDisturbsNothing DEF Sync
  <2>3. j.title \in Title /\ alias[j.title] \in Book \cup {None}
    BY <2>1 DEF IInv, SyncFits, TypeOK
  <2>4. Keying(j.title)' = Keying(j.title)
    BY <2>1, <2>2, <2>3 DEF Keying, Undisturbed
  <2>5. FilingFits'
    BY <1>2, <2>1, <2>4 DEF FilingFits
  <2>. QED
    BY <1>2, <1>3, <2>1, <2>2, <2>5, SeenIfUndisturbed
<1>12. CASE Select(Sync)
  <2>1. at[Sync] = "select" /\ key' = key /\ sync' = sync
    BY <1>12 DEF Select, rows
  <2>2. j.kind = "sync" /\ j.title \in Title
    BY <2>1 DEF IInv, SyncFits
  <2>3. CASE Move(Sync)
    BY <2>1, <2>3, SyncMovesOn, <1>3, <1>4, <1>5
  <2>4. CASE \E i \in Keyed(j.key) : Set(Sync, [j EXCEPT !.row = i]) /\ Goto(Sync, AfterUpsert[j.kind])
    <3>1. PICK i \in Keyed(j.key) : Set(Sync, [j EXCEPT !.row = i]) /\ Goto(Sync, AfterUpsert[j.kind])
      BY <2>4
    <3>2. AfterUpsert["sync"] = "copy"
      BY DEF AfterUpsert
    <3>3. at'[Sync] = "copy" /\ job'[Sync].row = i /\ job'[Sync].title = j.title
      BY <1>2, <2>2, <3>1, <3>2 DEF Job
    <3>4. i \in Book => Filed(j.title, i)
      <4>1. key[i] = Keying(j.title) /\ alias[j.title] \in Book \cup {None}
        BY <1>2, <2>1, <2>2, <3>1 DEF FilingFits, Keyed, IInv, TypeOK
      <4>. QED
        BY <4>1, <1>2 DEF Keying, Filed
    <3>5. FilingFits'
      BY <1>1, <2>1, <3>3, <3>4 DEF FilingFits, Filed, Book
    <3>. QED
      BY <2>1, <3>3, <3>5, <1>3, <1>5
  <2>. QED
    BY <1>12, <2>2, <2>3, <2>4 DEF Select
<1>. QED
  BY <1>6, <1>7, <1>8, <1>9, <1>10, <1>11, <1>12

\* Books without a copy are none that was filed.
LEMMA OrphansAreNotSeen ==
    ASSUME IInv, SeenFits, sync'.keep = sync.keep, sync'.seen = sync.seen, sync'.snap = sync.snap,
           DeleteBooks(Orphans(links), links)
    PROVE  SeenFits' /\ Calibres(links') = Calibres(links)
<1>1. Book' = Book \ Orphans(links) /\ \A l \in links : l.book \in Book /\ l.book \notin Orphans(links)
  BY DEF DeleteBooks, Book, Orphans, IInv, TypeOK
<1>2. links' = links
  BY <1>1 DEF DeleteBooks
<1>3. ASSUME NEW e \in sync.keep, NEW i \in Book, SeenAs(e, i)
      PROVE  i \in Book' /\ alias'[sync.snap[e]] = alias[sync.snap[e]] /\ key'[i] = key[i]
  <2>1. i \notin Orphans(links)
    BY <1>1, <1>3 DEF SeenAs, CalibreLink
  <2>2. sync.snap[e] \in Title
    BY <1>3 DEF SeenAs
  <2>3. None \notin Orphans(links)
    BY LibraryAssumption DEF Orphans, Book
  <2>4. alias'[sync.snap[e]] = alias[sync.snap[e]]
    BY <1>3, <2>1, <2>2, <2>3 DEF DeleteBooks, SeenAs, Filed
  <2>. QED
    BY <1>1, <2>1, <2>4 DEF DeleteBooks, Book
<1>4. SeenFits'
  BY <1>2, <1>3, SeenStays DEF SeenAs
<1>. QED
  BY <1>2, <1>4

\* The steps that keep an entry, or prune.
LEMMA SyncKeepsMirror ==
    ASSUME IInv, Mirror, StartSync \/ SyncCopy \/ PruneRead \/ PruneEntry \/ PruneBooks \/ StaleRead \/ StaleLink \/ EndSync
    PROVE  Mirror'
<1>. DEFINE j == job[Sync]
<1>. USE SyncGoes, NoJobFits DEF Filing, Ending
<1>1. SyncFits /\ sync \in SyncState /\ links \subseteq Link /\ \A l \in Calibres(links) : l.ext \in Entry
  BY DEF IInv, SyncFits, Shapes
<1>2. at'[Sync] \notin {"prune", "read", "stale"} => EndingFits'
  BY DEF EndingFits
<1>3. at'[Sync] \notin {"rename", "insert", "select", "copy"} => FilingFits'
  BY DEF FilingFits
<1>4. ASSUME at[Sync] # "idle", disturbed' = disturbed, at'[Sync] \in {"next", "prune", "read", "stale"},
             SeenFits /\ EndingFits => SeenFits' /\ EndingFits'
      PROVE  Mirror'
  BY <1>3, <1>4 DEF Mirror
<1>5. CASE StartSync
  <2>1. at'[Sync] = "next" /\ sync'.keep = {} /\ sync'.seen = {}
    BY <1>5 DEF StartSync, NoSync
  <2>. QED
    BY <2>1, <1>2, <1>3 DEF Mirror, SeenFits
<1>6. CASE SyncCopy
  <2>1. CASE End(Sync)
    BY <2>1 DEF End, Mirror
  <2>2. CASE ~End(Sync)
    <3>. PICK c, i, t : c = sync.cur /\ i = j.row /\ t = j.title
      OBVIOUS
    <3>1. /\ at[Sync] = "copy" /\ i \in Book /\ Move(Sync)
          /\ links' = links \cup {CalibreLink(c, i, t)}
          /\ sync' = [sync EXCEPT !.keep = @ \cup {c}, !.seen = @ \cup {<<i, CalibrePath(c, t)>>}]
          /\ UNCHANGED <<key, alias, disturbed>>
      BY <1>6, <2>2 DEF SyncCopy, rows
    <3>2. c \in Entry /\ t = sync.snap[c] /\ t \in Title /\ c \notin sync.keep
      BY <1>1, <3>1 DEF SyncFits
    <3>3. /\ sync'.keep = sync.keep \cup {c} /\ sync'.seen = sync.seen \cup {<<i, CalibrePath(c, t)>>}
          /\ sync'.snap = sync.snap /\ at'[Sync] = "next"
      BY <1>1, <3>1, SyncMovesOn DEF SyncState
    <3>4. CalibrePath(c, t)[1] = c
      BY DEF CalibrePath
    <3>5. ASSUME SeenFits, Filed(t, i)
          PROVE  SeenFits'
      <4>1. \A s \in sync'.seen : s[2][1] \in sync'.keep
        BY <3>3, <3>4, <3>5 DEF SeenFits
      <4>2. ASSUME NEW e \in sync.keep
            PROVE  \E k \in Book' : SeenAs(e, k)'
        <5>1. PICK k \in Book : SeenAs(e, k)
          BY <3>5 DEF SeenFits
        <5>2. e # c
          BY <3>2
        <5>. QED
          BY <3>1, <3>3, <3>4, <5>1, <5>2 DEF SeenAs, Filed, Book
      <4>3. SeenAs(c, i)'
        <5>1. \A s \in sync.seen : s[2][1] # c
          BY <3>2, <3>5 DEF SeenFits
        <5>2. CalibreLink(c, i, sync'.snap[c]) \in links' /\ <<i, CalibrePath(c, sync'.snap[c])>> \in sync'.seen
          BY <3>1, <3>2, <3>3
        <5>3. \A s \in sync'.seen : s[2][1] = c => s = <<i, CalibrePath(c, sync'.snap[c])>>
          BY <3>2, <3>3, <5>1
        <5>4. Filed(sync.snap[c], i)'
          BY <3>1, <3>2, <3>3, <3>5 DEF Filed
        <5>. QED
          BY <3>2, <3>3, <5>2, <5>3, <5>4 DEF SeenAs
      <4>4. i \in Book'
        BY <3>1 DEF Book
      <4>. QED
        BY <3>3, <4>1, <4>2, <4>3, <4>4 DEF SeenFits
    <3>. QED
      BY <2>2, <3>1, <3>3, <3>5, <1>2, <1>3 DEF Mirror, FilingFits
  <2>. QED
    BY <2>1, <2>2
<1>7. CASE PruneRead
  <2>1. /\ sync'.keep = sync.keep /\ sync'.seen = sync.seen /\ sync'.snap = sync.snap
        /\ sync'.drop = {l.ext : l \in Calibres(links)} \ sync.keep
    BY <1>7, <1>1 DEF PruneRead, SyncState
  <2>2. at[Sync] = "next" /\ at'[Sync] = "prune" /\ UNCHANGED <<key, alias, links, disturbed>>
    BY <1>7 DEF PruneRead, rows, history
  <2>3. SeenFits => SeenFits'
    BY <2>1, <2>2, SeenIfUndisturbed DEF Undisturbed, Book
  <2>4. EndingFits'
    BY <2>1, <2>2 DEF EndingFits
  <2>. QED
    BY <2>2, <2>3, <2>4, <1>4
<1>8. CASE PruneEntry
  <2>1. PICK d \in sync.drop : /\ links' = {l \in links : ~(l.cat = "Calibre" /\ l.ext = d)}
                               /\ sync' = [sync EXCEPT !.drop = @ \ {d}]
    BY <1>8 DEF PruneEntry
  <2>2. /\ sync'.keep = sync.keep /\ sync'.seen = sync.seen /\ sync'.snap = sync.snap
        /\ sync'.drop = sync.drop \ {d}
    BY <1>1, <2>1 DEF SyncState
  <2>3. at[Sync] = "prune" /\ at' = at /\ UNCHANGED <<key, alias, disturbed>>
    BY <1>8 DEF PruneEntry, rows, history
  <2>4. d \notin sync.keep
    BY <1>1, <2>3 DEF SyncFits
  <2>5. SeenFits => SeenFits'
    <3>1. ASSUME NEW e \in sync.keep, NEW i \in Book, SeenAs(e, i)
          PROVE  CalibreLink(e, i, sync.snap[e]) \in links'
      BY <2>1, <2>4, <3>1 DEF SeenAs, CalibreLink
    <3>. QED
      BY <2>2, <2>3, <3>1, SeenStays DEF Book
  <2>6. EndingFits => EndingFits'
    BY <2>1, <2>2, <2>3 DEF EndingFits, Calibres
  <2>. QED
    BY <2>3, <2>5, <2>6, <1>4
<1>9. CASE PruneBooks
  <2>1. /\ at[Sync] = "prune" /\ sync.drop = {} /\ at'[Sync] = "read" /\ UNCHANGED <<sync, disturbed>>
        /\ DeleteBooks(Orphans(links), links)
    BY <1>9 DEF PruneBooks, history
  <2>2. SeenFits => SeenFits' /\ Calibres(links') = Calibres(links)
    BY <2>1, OrphansAreNotSeen
  <2>3. SeenFits /\ EndingFits => EndingFits'
    BY <2>1, <2>2 DEF EndingFits
  <2>. QED
    BY <2>1, <2>2, <2>3, <1>4
<1>10. CASE StaleRead
  <2>1. /\ sync'.keep = sync.keep /\ sync'.seen = sync.seen /\ sync'.snap = sync.snap
        /\ sync'.stale = {<<l.book, l.path>> : l \in Calibres(links)} \ sync.seen
    BY <1>10, <1>1 DEF StaleRead, SyncState
  <2>2. at[Sync] = "read" /\ at'[Sync] = "stale" /\ UNCHANGED <<key, alias, links, disturbed>>
    BY <1>10 DEF StaleRead, rows, history
  <2>3. SeenFits => SeenFits'
    BY <2>1, <2>2, SeenIfUndisturbed DEF Undisturbed, Book
  <2>4. EndingFits => EndingFits'
    BY <2>1, <2>2 DEF EndingFits
  <2>. QED
    BY <2>2, <2>3, <2>4, <1>4
<1>11. CASE StaleLink
  <2>1. PICK s \in sync.stale : /\ links' = {l \in links : ~(l.cat = "Calibre" /\ <<l.book, l.path>> = s)}
                                /\ sync' = [sync EXCEPT !.stale = @ \ {s}]
    BY <1>11 DEF StaleLink
  <2>2. /\ sync'.keep = sync.keep /\ sync'.seen = sync.seen /\ sync'.snap = sync.snap
        /\ sync'.stale = sync.stale \ {s}
    BY <1>1, <2>1 DEF SyncState
  <2>3. at[Sync] = "stale" /\ at' = at /\ UNCHANGED <<key, alias, disturbed>>
    BY <1>11 DEF StaleLink, rows, history
  <2>4. s \notin sync.seen
    BY <1>1, <2>3 DEF SyncFits
  <2>5. SeenFits => SeenFits'
    <3>1. ASSUME NEW e \in sync.keep, NEW i \in Book, SeenAs(e, i)
          PROVE  CalibreLink(e, i, sync.snap[e]) \in links'
      BY <2>1, <2>4, <3>1 DEF SeenAs, CalibreLink
    <3>. QED
      BY <2>2, <2>3, <3>1, SeenStays DEF Book
  <2>6. EndingFits => EndingFits'
    BY <2>1, <2>2, <2>3 DEF EndingFits, Calibres
  <2>. QED
    BY <2>3, <2>5, <2>6, <1>4
<1>12. CASE EndSync
  BY <1>12 DEF EndSync, End, Mirror
<1>. QED
  BY <1>5, <1>6, <1>7, <1>8, <1>9, <1>10, <1>11, <1>12

LEMMA MirrorNext == IInv /\ Mirror /\ [Next]_vars => Mirror'
<1>. SUFFICES ASSUME IInv, Mirror, [Next]_vars
              PROVE  Mirror'
  OBVIOUS
<1>1. CASE SyncStep
  BY <1>1, FilingKeepsMirror, SyncKeepsMirror DEF SyncStep
<1>2. CASE \E r \in Req : Request(r)
  <2>1. PICK r \in Req : Request(r)
    BY <1>2
  <2>2. at[Sync] # "idle" /\ ~disturbed' => ~disturbed /\ Undisturbed /\ RowStays
    BY <2>1, RequestDisturbs
  <2>. QED
    BY <2>1, <2>2, RequestLeavesSync, MirrorIfUndisturbed
<1>3. CASE CalibreEdit \/ UNCHANGED vars
  <2>1. UNCHANGED <<key, alias, links, at, job, sync, disturbed>>
    BY <1>3 DEF CalibreEdit, vars, rows, history
  <2>. QED
    BY <2>1, MirrorIfUndisturbed DEF Undisturbed, RowStays, Book
<1>4. CASE Crash
  BY <1>4, NoJobFits DEF Crash, Mirror, Sync
<1>. QED
  BY <1>1, <1>2, <1>3, <1>4 DEF Next

\* What the end of an undisturbed sync leaves.
LEMMA EndMirrors ==
    ASSUME IInv, Mirror, EndSync, ~disturbed
    PROVE  /\ {l.ext : l \in Calibres(links')} = sync.keep
           /\ \A l, m \in Calibres(links') : l.ext = m.ext => l = m
           /\ \A l \in Calibres(links') : LET t == sync.snap[l.ext] IN
                /\ l.path = CalibrePath(l.ext, t)
                /\ t \in {key'[l.book], title'[l.book]} \/ alias'[t] = l.book
<1>1. SeenFits /\ EndingFits /\ at[Sync] = "stale" /\ sync.stale = {}
  BY DEF Mirror, EndSync
<1>2. ASSUME NEW l \in Calibres(links)
      PROVE  /\ l.ext \in sync.keep /\ SeenAs(l.ext, l.book)
             /\ l = CalibreLink(l.ext, l.book, sync.snap[l.ext])
             /\ <<l.book, l.path>> = <<l.book, CalibrePath(l.ext, sync.snap[l.ext])>>
             /\ \A i : SeenAs(l.ext, i) => i = l.book
  <2>1. l \in Link /\ l.path[1] = l.ext /\ l.cat = "Calibre"
    BY <1>2 DEF IInv, Shapes, Calibres
  <2>2. l.ext \in sync.keep /\ <<l.book, l.path>> \in sync.seen
    BY <1>1, <1>2 DEF EndingFits
  <2>3. PICK i \in Book : SeenAs(l.ext, i)
    BY <1>1, <2>2 DEF SeenFits
  <2>4. \A k : SeenAs(l.ext, k) => <<l.book, l.path>> = <<k, CalibrePath(l.ext, sync.snap[l.ext])>>
    BY <2>1, <2>2 DEF SeenAs
  <2>5. i = l.book /\ l.path = CalibrePath(l.ext, sync.snap[l.ext]) /\ \A k : SeenAs(l.ext, k) => k = l.book
    BY <2>3, <2>4
  <2>6. l = CalibreLink(l.ext, l.book, sync.snap[l.ext])
    BY <2>1, <2>5 DEF Link, CalibreLink
  <2>. QED
    BY <2>2, <2>3, <2>5, <2>6
<1>3. ASSUME NEW e \in sync.keep
      PROVE  \E l \in Calibres(links) : l.ext = e
  <2>1. PICK i \in Book : CalibreLink(e, i, sync.snap[e]) \in links
    BY <1>1, <1>3 DEF SeenFits, SeenAs
  <2>2. CalibreLink(e, i, sync.snap[e]).cat = "Calibre" /\ CalibreLink(e, i, sync.snap[e]).ext = e
    BY DEF CalibreLink
  <2>. QED
    BY <2>1, <2>2 DEF Calibres
<1>4. /\ Book' = Book \ Orphans(links) /\ \A l \in links : l.book \in Book /\ l.book \notin Orphans(links)
      /\ DeleteBooks(Orphans(links), links)
  BY DEF EndSync, DeleteBooks, Book, Orphans, IInv, TypeOK
<1>5. links' = links
  BY <1>4 DEF DeleteBooks
<1>6. \A l, m \in Calibres(links) : l.ext = m.ext => l = m
  BY <1>2
<1>7. ASSUME NEW l \in Calibres(links)
      PROVE  LET t == sync.snap[l.ext] IN t \in {key'[l.book], title'[l.book]} \/ alias'[t] = l.book
  <2>. DEFINE t == sync.snap[l.ext]
  <2>1. Filed(t, l.book) /\ l.book \in Book /\ l.book \notin Orphans(links)
    BY <1>2, <1>4 DEF SeenAs, Calibres
  <2>2. key'[l.book] = key[l.book]
    BY <1>4, <2>1 DEF DeleteBooks, Book
  <2>3. t = key[l.book] \/ (t \in Title /\ alias[t] = l.book)
    BY <1>2, <2>1 DEF Filed, SeenAs
  <2>4. t \in Title /\ alias[t] = l.book => alias'[t] = l.book
    BY <1>4, <2>1 DEF DeleteBooks
  <2>. QED
    BY <2>2, <2>3, <2>4
<1>. QED
  BY <1>2, <1>3, <1>5, <1>6, <1>7

\* When a sync ends well and no merge or deletion came between, Calibre's library has one copy
\* of each entry the sync filed, at its path and under its title or what that was merged into,
\* and none of anything else, whatever imports, box sets and events did meanwhile.
THEOREM CalibreIsMirrored == Spec => SyncMirrors
<1>1. Init => Mirror
  BY NoJobFits DEF Init, Mirror, Sync
<1>2. IInv /\ Mirror /\ [Next]_vars => [EndSync /\ ~disturbed =>
        /\ {l.ext : l \in Calibres(links')} = sync.keep
        /\ \A l, m \in Calibres(links') : l.ext = m.ext => l = m
        /\ \A l \in Calibres(links') : LET t == sync.snap[l.ext] IN
             /\ l.path = CalibrePath(l.ext, t)
             /\ t \in {key'[l.book], title'[l.book]} \/ alias'[t] = l.book]_vars
  BY EndMirrors
<1>. QED
  BY <1>1, <1>2, IInvInitially, IInvInductive, MirrorNext, PTL DEF Spec, SyncMirrors

-----------------------------------------------------------------------------
(* An entry renamed in Calibre that is to keep its book: until the sync    *)
(* has renamed that book, it has the old title and nothing has the new one; *)
(* from there on the book has the new title, and with it the entry's key.  *)

Due(e) == e \in sync.todo \/ (e = sync.cur /\ at[Sync] \in {"follow", "others", "rename"})

\* Nothing but entry e leads the sync to book i, or to e's new title.
Alone(e, i) ==
    /\ i \in Book /\ sync.snap[e] \in Title
    /\ \A l \in Calibres(links) : l.book = i => l.ext = e
    /\ alias[sync.snap[e]] = None
    /\ \A d \in Entry \ {e} : /\ sync.snap[d] \notin {key[i], sync.snap[e]}
                              /\ sync.snap[d] # None => alias[sync.snap[d]] # i

\* What the sync has found while it files an entry: e's book if it is e, and another one otherwise.
Finds(e, i) ==
    /\ at[Sync] \in {"others", "rename", "copy"} => (job[Sync].row = i <=> e = sync.cur)
    /\ at[Sync] \in {"insert", "select"} =>
         IF e = sync.cur THEN job[Sync].key = key[i] ELSE job[Sync].key \notin {key[i], sync.snap[e]}

ToRename(e, i) ==
    /\ sync.snap[e] \notin {title[i], key[i]} /\ Keyed(sync.snap[e]) = {}
    /\ \E l \in Calibres(links) : l.ext = e
    /\ \A l \in Calibres(links) : l.ext = e => l.book = i
    /\ \A l \in links : l.book = i => l.cat = "Calibre" /\ l.ext = e

Renamed(e, i) ==
    /\ key[i] = sync.snap[e]
    /\ e \in sync.keep \/ (at[Sync] \in Filing /\ e = sync.cur)
    /\ e \in sync.keep => /\ CalibreLink(e, i, sync.snap[e]) \in links
                          /\ <<i, CalibrePath(e, sync.snap[e])>> \in sync.seen

StaysOn(e, i) ==
    /\ at[Sync] # "idle" /\ Alone(e, i) /\ Finds(e, i)
    /\ Due(e) => ToRename(e, i)
    /\ ~Due(e) => Renamed(e, i)

KeptFits ==
    /\ kept \in [Entry -> Id \cup {None}]
    /\ at[Sync] \in Ending => sync.todo = {}
    /\ \A e \in Entry : kept[e] # None => StaysOn(e, kept[e])

\* A request that writes ends the claim; one that does not leaves books and links alone.
LEMMA RequestEndsRenames ==
    ASSUME IInv, NEW r \in Req, Request(r)
    PROVE  kept' = Nothing \/ UNCHANGED <<key, title, alias, links, kept>>
<1>1. r # Sync
  BY LibraryAssumption DEF Sync
<1>2. CASE \/ Insert(r) \/ AddCopy(r) \/ Remove(r) \/ RemoveBook(r) \/ DeleteCatalog(r) \/ SetLibrary(r)
           \/ FindBoxSet(r) \/ NotBoxSet(r) \/ SplitMember(r) \/ SplitDecide(r) \/ Undo(r) \/ UndoMembers(r)
           \/ UndoFound(r) \/ EventCopy(r) \/ EventList(r) \/ DeleteEvent(r) \/ DropUnlisted(r)
  BY <1>1, <1>2 DEF Insert, AddCopy, Remove, RemoveBook, DeleteCatalog, SetLibrary, FindBoxSet, NotBoxSet,
       SplitMember, SplitDecide, Undo, UndoMembers, UndoFound, EventCopy, EventList, DeleteEvent, DropUnlisted, Writes
<1>3. CASE \/ Import(r) \/ NextTitle(r) \/ AliasKey(r) \/ Select(r) \/ ListEnds(r) \/ Split(r)
           \/ SplitBefore(r) \/ SplitExisted(r) \/ CreateEvent(r) \/ EventCopies(r) \/ Claim(r)
           \/ Merge(r) \/ MergeKey(r)
  BY <1>3 DEF Import, NextTitle, AliasKey, Select, ListEnds, Split, SplitBefore, SplitExisted, CreateEvent,
       EventCopies, Claim, Merge, MergeKey, rows, history
<1>4. CASE MergeTx(r)
  BY <1>4 DEF MergeTx, rows, history
<1>. QED
  BY <1>2, <1>3, <1>4 DEF Request

LEMMA KeptIfUntouched ==
    ASSUME KeptFits, UNCHANGED <<key, title, alias, links, kept, sync>>,
           at'[Sync] = at[Sync], job'[Sync] = job[Sync]
    PROVE  KeptFits'
<1>1. ASSUME NEW e \in Entry, NEW i \in Id \cup {None}, StaysOn(e, i)
      PROVE  StaysOn(e, i)'
  BY <1>1 DEF StaysOn, Alone, Finds, ToRename, Renamed, Due, Keyed, Book, Calibres
<1>. QED
  BY <1>1 DEF KeptFits

LEMMA NothingKept ==
    ASSUME kept' = Nothing, at'[Sync] \in Ending => sync'.todo = {}
    PROVE  KeptFits'
  BY DEF KeptFits, Nothing

\* The steps that find the book of an entry.
LEMMA FollowKeepsRenames ==
    ASSUME IInv, NEW e \in Entry, NEW i \in Id, StaysOn(e, i), NextEntry \/ FollowRead \/ FollowOthers
    PROVE  StaysOn(e, i)'
<1>. DEFINE j == job[Sync]
<1>. USE SyncGoes DEF Filing
<1>1. UNCHANGED <<key, title, alias, links>> /\ sync \in SyncState /\ j \in Job
  BY DEF NextEntry, FollowRead, FollowOthers, rows, IInv, SyncFits
<1>2. ASSUME sync'.snap = sync.snap
      PROVE  Alone(e, i)' /\ (ToRename(e, i) => ToRename(e, i)')
  BY <1>1, <1>2 DEF StaysOn, Alone, ToRename, Keyed, Book, Calibres
<1>3. CASE NextEntry
  <2>1. PICK c : c = Least(sync.todo)
    OBVIOUS
  <2>2. c \in sync.todo /\ c \in Entry
    BY <1>1, <1>3, <2>1, LeastIsIn, LibraryAssumption DEF NextEntry, SyncState
  <2>3. /\ sync'.snap = sync.snap /\ sync'.todo = sync.todo \ {c} /\ sync'.cur = c
        /\ sync'.keep = sync.keep /\ sync'.seen = sync.seen
        /\ at[Sync] = "next" /\ at'[Sync] = "follow"
    BY <1>1, <1>3, <2>1 DEF NextEntry, SyncState
  <2>4. Due(e)' <=> Due(e)
    BY <2>2, <2>3 DEF Due
  <2>5. Finds(e, i)'
    BY <2>3 DEF Finds
  <2>6. Renamed(e, i) => Renamed(e, i)'
    BY <1>1, <2>3 DEF Renamed
  <2>. QED
    BY <1>2, <2>3, <2>4, <2>5, <2>6 DEF StaysOn
<1>4. ASSUME sync' = sync, at[Sync] \in Filing, at'[Sync] \in Filing
      PROVE  Renamed(e, i) => Renamed(e, i)'
  BY <1>1, <1>4 DEF Renamed
<1>5. CASE FollowRead
  <2>1. at[Sync] = "follow" /\ sync' = sync /\ j.title = sync.snap[sync.cur] /\ sync.cur \notin sync.todo
    BY <1>5 DEF FollowRead, IInv, SyncFits
  <2>2. CASE e = sync.cur
    <3>1. Due(e) /\ ToRename(e, i)
      BY <2>1, <2>2 DEF Due, StaysOn
    <3>2. /\ \E l \in links : l.cat = "Calibre" /\ l.ext = sync.cur
          /\ \A l \in links : l.cat = "Calibre" /\ l.ext = sync.cur =>
               l.book = i /\ title[l.book] # j.title /\ key[l.book] # j.title
      BY <2>1, <2>2, <3>1 DEF ToRename, Calibres
    <3>3. Set(Sync, [j EXCEPT !.row = i]) /\ Goto(Sync, "others")
      BY <1>5, <3>2 DEF FollowRead
    <3>4. at'[Sync] = "others" /\ job'[Sync].row = i
      BY <1>1, <3>3 DEF Job
    <3>5. Due(e)' /\ Finds(e, i)'
      BY <2>1, <2>2, <3>4 DEF Due, Finds
    <3>. QED
      BY <1>2, <2>1, <3>1, <3>4, <3>5 DEF StaysOn
  <2>3. CASE e # sync.cur
    <3>1. at'[Sync] \in {"alias", "others", "rename"}
      BY <1>5 DEF FollowRead
    <3>2. Due(e)' <=> Due(e)
      BY <2>1, <2>3 DEF Due
    <3>3. CASE at'[Sync] = "alias"
      BY <1>2, <1>4, <2>1, <3>2, <3>3 DEF StaysOn, Finds
    <3>4. CASE \E l \in links : l.cat = "Calibre" /\ l.ext = sync.cur /\ Set(Sync, [j EXCEPT !.row = l.book])
      <4>1. PICK l \in links : l.cat = "Calibre" /\ l.ext = sync.cur /\ Set(Sync, [j EXCEPT !.row = l.book])
        BY <3>4
      <4>2. job'[Sync].row = l.book /\ l.book # i
        BY <1>1, <2>3, <4>1 DEF Job, StaysOn, Alone, Calibres
      <4>3. Finds(e, i)'
        BY <2>1, <2>3, <3>1, <4>2 DEF Finds
      <4>. QED
        BY <1>2, <1>4, <2>1, <3>1, <3>2, <4>3 DEF StaysOn
    <3>. QED
      BY <1>5, <3>3, <3>4 DEF FollowRead
  <2>. QED
    BY <2>2, <2>3
<1>6. CASE FollowOthers
  <2>1. at[Sync] = "others" /\ sync' = sync /\ job' = job /\ j.title = sync.snap[sync.cur] /\ at'[Sync] \in {"rename", "alias"}
    BY <1>6 DEF FollowOthers, IInv, SyncFits
  <2>2. Finds(e, i)'
    BY <2>1 DEF Finds, StaysOn
  <2>3. e = sync.cur => at'[Sync] = "rename" /\ Due(e)
    <3>1. SUFFICES ASSUME e = sync.cur
                   PROVE  at'[Sync] = "rename" /\ Due(e)
      OBVIOUS
    <3>2. Due(e) /\ ToRename(e, i) /\ j.row = i /\ alias[j.title] = None
      BY <2>1, <3>1 DEF Due, StaysOn, Finds, Alone
    <3>3. {l \in links : l.book = j.row /\ ~(l.cat = "Calibre" /\ l.ext = sync.cur)} = {} /\ Keyed(j.title) = {}
      BY <2>1, <3>1, <3>2 DEF ToRename
    <3>. QED
      BY <1>6, <3>2, <3>3 DEF FollowOthers
  <2>4. Due(e)' <=> Due(e)
    BY <2>1, <2>3 DEF Due
  <2>. QED
    BY <1>2, <1>4, <2>1, <2>2, <2>4 DEF StaysOn
<1>. QED
  BY <1>3, <1>5, <1>6

\* The rename itself: of this book, or of another one to another title.
LEMMA RenamingKeepsRenames ==
    ASSUME IInv, NEW e \in Entry, NEW i \in Id, StaysOn(e, i), FollowRename
    PROVE  StaysOn(e, i)'
<1>. USE SyncGoes DEF Filing
<1>. PICK k, t, c : k = job[Sync].row /\ t = job[Sync].title /\ c = sync.cur
  OBVIOUS
<1>1. /\ at[Sync] = "rename" /\ sync' = sync /\ UNCHANGED <<alias, links>>
      /\ t = sync.snap[c] /\ t \in Title /\ c \in Entry /\ c \notin sync.todo \cup sync.keep
  BY DEF FollowRename, IInv, SyncFits
<1>2. key \in [Id -> Name] /\ title \in [Id -> Name] /\ None \notin Title /\ i \in Book /\ sync.snap[e] \in Title
  BY LibraryAssumption DEF IInv, TypeOK, Name, StaysOn, Alone
<1>3. \/ /\ Move(Sync) /\ UNCHANGED <<key, title>> /\ k \in Book /\ Keyed(t) \ {k} # {}
      \/ /\ Goto(Sync, "alias")
         /\ key' = IF k \in Book THEN [key EXCEPT ![k] = t] ELSE key
         /\ title' = IF k \in Book THEN [title EXCEPT ![k] = t] ELSE title
  BY DEF FollowRename
<1>4. at'[Sync] \in {"next", "alias"} /\ (Move(Sync) => at'[Sync] = "next")
  BY <1>3, SyncMovesOn
<1>5. Finds(e, i)' /\ (Due(e)' <=> e \in sync.todo)
  BY <1>1, <1>4 DEF Finds, Due
<1>6. CASE e = c
  <2>1. k = i /\ ToRename(e, i) /\ Keyed(t) = {}
    BY <1>1, <1>6 DEF StaysOn, Finds, Due, ToRename
  <2>2. at'[Sync] = "alias" /\ key' = [key EXCEPT ![i] = t]
    BY <1>2, <1>3, <2>1
  <2>3. key'[i] = sync.snap[e] /\ i \in Book'
    BY <1>1, <1>2, <1>6, <2>2 DEF Book
  <2>4. Alone(e, i)'
    BY <1>1, <2>3 DEF StaysOn, Alone
  <2>5. Renamed(e, i)'
    BY <1>1, <1>6, <2>2, <2>3 DEF Renamed
  <2>. QED
    BY <1>1, <1>5, <1>6, <2>2, <2>4, <2>5 DEF StaysOn
<1>7. CASE e # c
  <2>1. k # i /\ t # sync.snap[e] /\ (Due(e) <=> e \in sync.todo)
    BY <1>1, <1>7 DEF StaysOn, Finds, Alone, Due
  <2>2. key'[i] = key[i] /\ title'[i] = title[i] /\ \A n \in Id : key'[n] = key[n] \/ key'[n] = t
    BY <1>2, <1>3, <2>1 DEF Book
  <2>3. Alone(e, i)'
    BY <1>1, <2>2 DEF StaysOn, Alone, Book
  <2>4. ToRename(e, i) => ToRename(e, i)'
    <3>1. Keyed(sync.snap[e]) = {} => Keyed(sync.snap[e])' = {}
      BY <1>1, <2>1, <2>2 DEF Keyed
    <3>. QED
      BY <1>1, <2>2, <3>1 DEF ToRename, Calibres
  <2>5. Renamed(e, i) => Renamed(e, i)'
    BY <1>1, <1>7, <2>2 DEF Renamed
  <2>. QED
    BY <1>4, <1>5, <2>1, <2>3, <2>4, <2>5 DEF StaysOn
<1>. QED
  BY <1>6, <1>7

\* UpsertBook: the key an entry is filed by.
LEMMA UpsertKeepsRenames ==
    ASSUME IInv, NEW e \in Entry, NEW i \in Id, StaysOn(e, i), AliasKey(Sync) \/ Insert(Sync) \/ Select(Sync)
    PROVE  StaysOn(e, i)'
<1>. USE SyncGoes DEF Filing
<1>. PICK j, c : j = job[Sync] /\ c = sync.cur
  OBVIOUS
<1>1. /\ sync' = sync /\ at[Sync] \in {"alias", "insert", "select"} /\ UNCHANGED <<alias, links>>
      /\ j.title = sync.snap[c] /\ j.title \in Title /\ c \in Entry /\ c \notin sync.todo \cup sync.keep /\ j.kind = "sync"
  BY DEF AliasKey, Insert, Select, rows, IInv, SyncFits
<1>2. /\ key \in [Id -> Name] /\ title \in [Id -> Name] /\ None \notin Title /\ i \in Book /\ sync.snap[e] \in Title
      /\ j \in Job /\ \A m, n \in Book : key[m] = key[n] => m = n
  BY LibraryAssumption DEF IInv, TypeOK, Name, StaysOn, Alone
<1>3. (Due(e) <=> e \in sync.todo) /\ (e = c => Renamed(e, i) /\ key[i] = sync.snap[e])
  BY <1>1 DEF StaysOn, Due, Renamed
<1>4. ASSUME at'[Sync] \in {"insert", "select", "copy", "next"}, at'[Sync] = "next" => e # c,
             key'[i] = key[i], title'[i] = title[i], e \in sync.todo => Keyed(sync.snap[e])' = {},
             Finds(e, i)'
      PROVE  StaysOn(e, i)'
  <2>1. Due(e)' <=> Due(e)
    BY <1>1, <1>3, <1>4 DEF Due
  <2>2. Alone(e, i)'
    BY <1>1, <1>4 DEF StaysOn, Alone, Book
  <2>3. e \in sync.todo => (ToRename(e, i) => ToRename(e, i)')
    BY <1>1, <1>4 DEF ToRename, Calibres
  <2>4. Renamed(e, i) => Renamed(e, i)'
    BY <1>1, <1>4 DEF Renamed
  <2>. QED
    BY <1>3, <1>4, <2>1, <2>2, <2>3, <2>4 DEF StaysOn
<1>5. e \in sync.todo => Keyed(sync.snap[e]) = {}
  BY <1>3 DEF StaysOn, ToRename
<1>6. CASE AliasKey(Sync)
  <2>1. /\ at'[Sync] = "insert" /\ UNCHANGED <<key, title>>
        /\ job'[Sync] = [j EXCEPT !.key = Keying(j.title)]
    BY <1>6 DEF AliasKey, rows, Keying
  <2>2. job'[Sync].key = Keying(j.title)
    BY <1>2, <2>1 DEF Job
  <2>3. e = c => Keying(j.title) = key[i]
    BY <1>1, <1>3 DEF StaysOn, Alone, Keying
  <2>4. e # c => Keying(j.title) \notin {key[i], sync.snap[e]}
    <3>1. SUFFICES ASSUME e # c
                   PROVE  Keying(j.title) \notin {key[i], sync.snap[e]}
      OBVIOUS
    <3>2. j.title \notin {key[i], sync.snap[e]} /\ alias[j.title] # i /\ alias[j.title] \in Book \cup {None}
      BY <1>1, <1>2, <3>1 DEF StaysOn, Alone, IInv, TypeOK
    <3>3. CASE alias[j.title] = None
      BY <3>2, <3>3 DEF Keying
    <3>4. CASE alias[j.title] # None
      <4>1. PICK k \in Book : k = alias[j.title] /\ k # i
        BY <3>2, <3>4
      <4>2. key[k] # key[i]
        BY <1>2, <4>1
      <4>3. key[k] # sync.snap[e]
        BY <1>3, <1>5, <4>1, <4>2 DEF StaysOn, Renamed, Keyed, Book
      <4>. QED
        BY <3>4, <4>1, <4>2, <4>3 DEF Keying
    <3>. QED
      BY <3>3, <3>4
  <2>5. Finds(e, i)'
    BY <1>1, <2>1, <2>2, <2>3, <2>4 DEF Finds
  <2>6. Keyed(sync.snap[e])' = Keyed(sync.snap[e])
    BY <1>1, <2>1 DEF Keyed
  <2>. QED
    BY <1>4, <1>5, <2>1, <2>5, <2>6
<1>7. CASE Insert(Sync)
  <2>1. at[Sync] = "insert" /\ at'[Sync] = "select" /\ job' = job
    BY <1>7 DEF Insert
  <2>2. key'[i] = key[i] /\ title'[i] = title[i] /\ \A n \in Id : key'[n] = key[n] \/ key'[n] = j.key
    <3>1. CASE UNCHANGED <<key, title>>
      BY <3>1
    <3>2. CASE /\ Fresh # {}
               /\ key' = [key EXCEPT ![Least(Fresh)] = job[Sync].key]
               /\ title' = [title EXCEPT ![Least(Fresh)] = job[Sync].title]
      <4>1. PICK n \in Id : n = Least(Fresh) /\ n \notin Book
        BY <3>2, FreshIsFree DEF Held
      <4>. QED
        BY <1>2, <3>2, <4>1
    <3>. QED
      BY <1>7, <3>1, <3>2 DEF Insert
  <2>3. e \in sync.todo => Keyed(sync.snap[e])' = {}
    <3>1. e \in sync.todo => e # c /\ j.key # sync.snap[e]
      BY <1>1, <2>1 DEF StaysOn, Finds
    <3>. QED
      BY <1>1, <1>5, <2>2, <3>1 DEF Keyed
  <2>4. Finds(e, i)'
    BY <1>1, <2>1, <2>2 DEF StaysOn, Finds
  <2>. QED
    BY <1>4, <2>1, <2>2, <2>3, <2>4
<1>8. CASE Select(Sync)
  <2>1. at[Sync] = "select" /\ UNCHANGED <<key, title>>
    BY <1>8 DEF Select, rows
  <2>2. Keyed(sync.snap[e])' = Keyed(sync.snap[e])
    BY <1>1, <2>1 DEF Keyed
  <2>3. AfterUpsert[j.kind] = "copy"
    BY <1>1 DEF AfterUpsert
  <2>4. CASE Keyed(j.key) = {} /\ Move(Sync)
    <3>1. at'[Sync] = "next"
      BY <2>4, SyncMovesOn
    <3>2. e # c
      BY <1>1, <1>2, <2>1, <2>4 DEF StaysOn, Finds, Keyed, Book
    <3>3. Finds(e, i)'
      BY <3>1 DEF Finds
    <3>. QED
      BY <1>4, <1>5, <2>1, <2>2, <3>1, <3>2, <3>3
  <2>5. CASE \E k \in Keyed(j.key) : Set(Sync, [j EXCEPT !.row = k]) /\ Goto(Sync, "copy")
    <3>1. PICK k \in Keyed(j.key) : Set(Sync, [j EXCEPT !.row = k]) /\ Goto(Sync, "copy")
      BY <2>5
    <3>2. at'[Sync] = "copy" /\ job'[Sync].row = k
      BY <1>2, <3>1 DEF Job
    <3>3. k \in Id /\ key[k] = j.key
      BY DEF Keyed
    <3>4. k = i <=> e = c
      <4>1. CASE e = c
        BY <1>1, <1>2, <2>1, <3>3, <4>1 DEF StaysOn, Finds, Book
      <4>2. CASE e # c
        BY <1>1, <2>1, <3>3, <4>2 DEF StaysOn, Finds
      <4>. QED
        BY <4>1, <4>2
    <3>5. Finds(e, i)'
      BY <1>1, <3>2, <3>4 DEF Finds
    <3>. QED
      BY <1>4, <1>5, <2>1, <2>2, <3>2, <3>5
  <2>. QED
    BY <1>1, <1>8, <2>3, <2>4, <2>5 DEF Select
<1>. QED
  BY <1>6, <1>7, <1>8

\* AddCalibreCopy: an entry's own link, or one of another entry to another book.
LEMMA CopyKeepsRenames ==
    ASSUME IInv, NEW e \in Entry, NEW i \in Id, StaysOn(e, i), SyncCopy, ~End(Sync)
    PROVE  StaysOn(e, i)'
<1>. USE SyncGoes DEF Filing
<1>. PICK k, t, c : k = job[Sync].row /\ t = job[Sync].title /\ c = sync.cur
  OBVIOUS
<1>1. /\ at[Sync] = "copy" /\ Move(Sync) /\ links' = links \cup {CalibreLink(c, k, t)}
      /\ sync' = [sync EXCEPT !.keep = @ \cup {c}, !.seen = @ \cup {<<k, CalibrePath(c, t)>>}]
      /\ UNCHANGED <<key, title, alias>>
  BY DEF SyncCopy, rows
<1>2. c \in Entry /\ t = sync.snap[c] /\ c \notin sync.todo \cup sync.keep /\ sync \in SyncState
  BY <1>1 DEF IInv, SyncFits
<1>3. /\ sync'.keep = sync.keep \cup {c} /\ sync'.seen = sync.seen \cup {<<k, CalibrePath(c, t)>>}
      /\ sync'.snap = sync.snap /\ sync'.todo = sync.todo /\ at'[Sync] = "next"
  BY <1>1, <1>2, SyncMovesOn DEF SyncState
<1>4. k = i <=> e = c
  BY <1>1 DEF StaysOn, Finds
<1>5. CalibreLink(c, k, t).book = k /\ CalibreLink(c, k, t).ext = c
  BY DEF CalibreLink
<1>6. (Due(e) <=> e \in sync.todo) /\ (Due(e)' <=> e \in sync.todo) /\ Finds(e, i)'
  BY <1>1, <1>3 DEF Due, Finds
<1>7. Alone(e, i)'
  <2>1. \A l \in Calibres(links') : l \in Calibres(links) \/ l = CalibreLink(c, k, t)
    BY <1>1 DEF Calibres
  <2>. QED
    BY <1>1, <1>3, <1>4, <1>5, <2>1 DEF StaysOn, Alone, Book
<1>8. e \in sync.todo => (ToRename(e, i) => ToRename(e, i)')
  <2>1. \A l \in links' : l \in links \/ l = CalibreLink(c, k, t)
    BY <1>1
  <2>2. Calibres(links) \subseteq Calibres(links') /\ \A l \in Calibres(links') : l \in Calibres(links) \/ l = CalibreLink(c, k, t)
    BY <1>1 DEF Calibres
  <2>3. Keyed(sync.snap[e])' = Keyed(sync.snap[e])
    BY <1>1, <1>3 DEF Keyed
  <2>. QED
    BY <1>1, <1>2, <1>3, <1>4, <1>5, <2>1, <2>2, <2>3 DEF ToRename
<1>9. Renamed(e, i) => Renamed(e, i)'
  <2>1. CASE e = c
    BY <1>1, <1>2, <1>3, <1>4, <2>1 DEF Renamed
  <2>2. CASE e # c
    BY <1>1, <1>3, <2>2 DEF Renamed
  <2>. QED
    BY <2>1, <2>2
<1>. QED
  BY <1>3, <1>6, <1>7, <1>8, <1>9 DEF StaysOn

\* What the prunes delete is not a book that has been renamed, nor its link.
LEMMA PruningKeepsRenames ==
    ASSUME IInv, NEW e \in Entry, NEW i \in Id, StaysOn(e, i), sync.todo = {},
           PruneRead \/ PruneEntry \/ PruneBooks \/ StaleRead \/ StaleLink
    PROVE  StaysOn(e, i)'
<1>. USE SyncGoes DEF Filing
<1>1. /\ Renamed(e, i) /\ Alone(e, i) /\ e \in sync.keep /\ sync \in SyncState
      /\ CalibreLink(e, i, sync.snap[e]) \in links /\ <<i, CalibrePath(e, sync.snap[e])>> \in sync.seen
      /\ at[Sync] \in {"next", "prune", "read", "stale"}
  BY DEF PruneRead, PruneEntry, PruneBooks, StaleRead, StaleLink, StaysOn, Renamed, Due, IInv, SyncFits
<1>2. CalibreLink(e, i, sync.snap[e]).ext = e /\ CalibreLink(e, i, sync.snap[e]).book = i
      /\ CalibreLink(e, i, sync.snap[e]).path = CalibrePath(e, sync.snap[e])
  BY DEF CalibreLink
<1>3. ASSUME at'[Sync] \in {"prune", "read", "stale"}, sync'.todo = {}, sync'.keep = sync.keep,
             sync'.seen = sync.seen, sync'.snap = sync.snap, links' \subseteq links, key'[i] = key[i],
             CalibreLink(e, i, sync.snap[e]) \in links', \A t \in Title : alias'[t] \in {alias[t], None}
      PROVE  StaysOn(e, i)'
  <2>1. Alone(e, i)'
    <3>1. None \notin Id /\ sync.snap \in [Entry -> Name]
      BY <1>1, LibraryAssumption DEF SyncState
    <3>2. Calibres(links') \subseteq Calibres(links) /\ i \in Book'
      BY <1>1, <1>3 DEF Calibres, Alone, Book
    <3>. QED
      BY <1>1, <1>3, <3>1, <3>2 DEF Alone, Name
  <2>2. Renamed(e, i)'
    BY <1>1, <1>3 DEF Renamed
  <2>3. Finds(e, i)' /\ ~Due(e)'
    BY <1>3 DEF Finds, Due
  <2>. QED
    BY <1>3, <2>1, <2>2, <2>3 DEF StaysOn
<1>4. CASE PruneRead \/ StaleRead
  BY <1>1, <1>3, <1>4 DEF PruneRead, StaleRead, SyncState, rows
<1>5. CASE PruneEntry
  <2>1. PICK d \in sync.drop : /\ links' = {l \in links : ~(l.cat = "Calibre" /\ l.ext = d)}
                               /\ sync' = [sync EXCEPT !.drop = @ \ {d}]
    BY <1>5 DEF PruneEntry
  <2>2. at[Sync] = "prune" /\ at' = at /\ UNCHANGED <<key, alias>> /\ d # e
    BY <1>1, <1>5 DEF PruneEntry, rows, IInv, SyncFits
  <2>3. CalibreLink(e, i, sync.snap[e]) \in links'
    BY <1>1, <1>2, <2>1, <2>2
  <2>. QED
    BY <1>1, <1>3, <2>1, <2>2, <2>3 DEF SyncState
<1>6. CASE PruneBooks
  <2>1. at'[Sync] = "read" /\ sync' = sync /\ DeleteBooks(Orphans(links), links) /\ i \notin Orphans(links)
    BY <1>1, <1>2, <1>6 DEF PruneBooks, Orphans
  <2>2. CalibreLink(e, i, sync.snap[e]) \in links'
    BY <1>1, <1>2, <2>1 DEF DeleteBooks
  <2>. QED
    BY <1>3, <2>1, <2>2 DEF DeleteBooks
<1>7. CASE StaleLink
  <2>1. PICK s \in sync.stale : /\ links' = {l \in links : ~(l.cat = "Calibre" /\ <<l.book, l.path>> = s)}
                                /\ sync' = [sync EXCEPT !.stale = @ \ {s}]
    BY <1>7 DEF StaleLink
  <2>2. at[Sync] = "stale" /\ at' = at /\ UNCHANGED <<key, alias>> /\ s # <<i, CalibrePath(e, sync.snap[e])>>
    BY <1>1, <1>7 DEF StaleLink, rows, IInv, SyncFits
  <2>3. CalibreLink(e, i, sync.snap[e]) \in links'
    BY <1>1, <1>2, <2>1, <2>2
  <2>. QED
    BY <1>1, <1>3, <2>1, <2>2, <2>3 DEF SyncState
<1>. QED
  BY <1>4, <1>5, <1>6, <1>7

\* A sync begins with the entries that are renamed and alone with their books.
LEMMA StartKeepsRenames ==
    ASSUME IInv, StartSync, NEW e \in Entry, NEW i, i = kept'[e], i # None
    PROVE  i \in Id /\ StaysOn(e, i)'
<1>1. /\ at'[Sync] = "next" /\ sync' = [NoSync EXCEPT !.snap = calibre, !.todo = {d \in Entry : calibre[d] # None}]
      /\ UNCHANGED <<key, title, alias, links>>
  BY SyncGoes DEF StartSync, rows
<1>2. sync'.snap = calibre /\ sync'.todo = {d \in Entry : calibre[d] # None}
  BY <1>1 DEF NoSync
<1>3. calibre \in [Entry -> Name]
  BY DEF IInv, TypeOK, Name
<1>4. i \in Renames(e) /\ calibre[e] # None
  BY DEF StartSync
<1>5. calibre[e] \in Title /\ i \in Book /\ i \in Id
  BY <1>3, <1>4 DEF Renames, Book, Name
<1>6. \A l \in links : l.cat = "Calibre" /\ l.ext = e => l.book = i
  BY <1>4 DEF Renames
<1>7. \E l \in links : l.cat = "Calibre" /\ l.ext = e
  BY <1>4 DEF Renames
<1>8. Alone(e, i)'
  BY <1>1, <1>2, <1>4, <1>5 DEF Alone, Renames, Calibres, Book
<1>9. ToRename(e, i)'
  BY <1>1, <1>2, <1>4, <1>6, <1>7 DEF ToRename, Renames, Calibres, Keyed
<1>10. Due(e)' /\ Finds(e, i)'
  BY <1>1, <1>2, <1>4 DEF Due, Finds
<1>. QED
  BY <1>1, <1>4, <1>5, <1>8, <1>9, <1>10 DEF StaysOn

LEMMA KeptNext == IInv /\ KeptFits /\ [Next]_vars => KeptFits'
<1>. SUFFICES ASSUME IInv, KeptFits, [Next]_vars
              PROVE  KeptFits'
  OBVIOUS
<1>. USE SyncGoes DEF Filing, Ending
<1>1. ASSUME kept' = kept, at'[Sync] \in Ending => sync'.todo = {},
             \A e \in Entry, i \in Id : StaysOn(e, i) => StaysOn(e, i)'
      PROVE  KeptFits'
  BY <1>1 DEF KeptFits
<1>2. CASE NextEntry \/ FollowRead \/ FollowOthers
  <2>1. kept' = kept /\ at'[Sync] \notin Ending
    BY <1>2 DEF NextEntry, FollowRead, FollowOthers, history
  <2>. QED
    BY <1>1, <1>2, <2>1, FollowKeepsRenames
<1>3. CASE FollowRename
  <2>1. kept' = kept /\ at'[Sync] \notin Ending
    BY <1>3, SyncMovesOn DEF FollowRename, history
  <2>. QED
    BY <1>1, <1>3, <2>1, RenamingKeepsRenames
<1>4. CASE AliasKey(Sync) \/ Insert(Sync) \/ Select(Sync)
  <2>1. kept' = kept
    BY <1>4 DEF AliasKey, Insert, Select, Writes, history
  <2>2. at'[Sync] \notin Ending
    <3>1. CASE AliasKey(Sync) \/ Insert(Sync)
      BY <3>1 DEF AliasKey, Insert
    <3>2. CASE Select(Sync)
      <4>1. job[Sync].kind = "sync" /\ AfterUpsert["sync"] = "copy"
        BY <3>2 DEF Select, AfterUpsert, IInv, SyncFits
      <4>2. Move(Sync) \/ Goto(Sync, "copy")
        BY <3>2, <4>1 DEF Select
      <4>. QED
        BY <4>2, SyncMovesOn
    <3>. QED
      BY <1>4, <3>1, <3>2
  <2>. QED
    BY <1>1, <1>4, <2>1, <2>2, UpsertKeepsRenames
<1>5. CASE SyncCopy
  <2>1. CASE End(Sync)
    <3>1. at'[Sync] = "idle"
      BY <2>1 DEF End
    <3>2. kept' = Nothing
      BY <1>5, <3>1, SyncMovesOn DEF SyncCopy
    <3>. QED
      BY <3>1, <3>2, NothingKept
  <2>2. CASE ~End(Sync)
    <3>1. kept' = kept /\ at'[Sync] \notin Ending
      BY <1>5, <2>2, SyncMovesOn DEF SyncCopy
    <3>. QED
      BY <1>1, <1>5, <2>2, <3>1, CopyKeepsRenames
  <2>. QED
    BY <2>1, <2>2
<1>6. CASE PruneRead \/ PruneEntry \/ PruneBooks \/ StaleRead \/ StaleLink
  <2>1. kept' = kept /\ sync.todo = {}
    BY <1>6 DEF PruneRead, PruneEntry, PruneBooks, StaleRead, StaleLink, history, KeptFits
  <2>2. sync'.todo = {}
    BY <1>6, <2>1 DEF PruneRead, PruneEntry, PruneBooks, StaleRead, StaleLink, IInv, SyncFits, SyncState
  <2>. QED
    BY <1>1, <1>6, <2>1, <2>2, PruningKeepsRenames
<1>7. CASE StartSync
  <2>1. at'[Sync] = "next" /\ kept' = [e \in Entry |-> kept'[e]]
    BY <1>7 DEF StartSync
  <2>2. ASSUME NEW e \in Entry
        PROVE  /\ kept'[e] \in Id \cup {None}
               /\ \A i : i = kept'[e] /\ i # None => StaysOn(e, i)'
    BY <1>7, StartKeepsRenames
  <2>. QED
    BY <2>1, <2>2 DEF KeptFits
<1>8. CASE EndSync \/ Crash
  <2>1. kept' = Nothing /\ at'[Sync] = "idle"
    BY <1>8, NoJobFits DEF EndSync, End, Crash, Sync
  <2>. QED
    BY <2>1, NothingKept
<1>9. CASE \E r \in Req : Request(r)
  <2>1. PICK r \in Req : Request(r)
    BY <1>9
  <2>2. sync' = sync /\ at'[Sync] = at[Sync] /\ job'[Sync] = job[Sync]
    BY <2>1, RequestLeavesSync
  <2>3. CASE kept' = Nothing
    BY <2>2, <2>3, NothingKept DEF KeptFits
  <2>4. CASE UNCHANGED <<key, title, alias, links, kept>>
    BY <2>2, <2>4, KeptIfUntouched
  <2>. QED
    BY <2>1, <2>3, <2>4, RequestEndsRenames
<1>10. CASE CalibreEdit \/ UNCHANGED vars
  <2>1. UNCHANGED <<key, title, alias, links, kept, sync, at, job>>
    BY <1>10 DEF CalibreEdit, vars, rows, history
  <2>. QED
    BY <2>1, KeptIfUntouched
<1>. QED
  BY <1>2, <1>3, <1>4, <1>5, <1>6, <1>7, <1>8, <1>9, <1>10 DEF Next, SyncStep

\* Renaming a book in Calibre that is alone with its entry, to a title nothing has, and doing nothing
\* else meanwhile, keeps its row: the sync ends with the entry's link on that book, under the new key.
\* (calibre.Sync, followRename)
THEOREM RenamesAreFollowed == Spec => [][RenameKeepsBook]_vars
<1>1. Init => KeptFits
  BY NoJobFits DEF Init, KeptFits, Nothing, Ending, Sync
<1>2. IInv /\ KeptFits /\ [Next]_vars => [RenameKeepsBook]_vars
  <2>1. SUFFICES ASSUME IInv, KeptFits, EndSync, NEW e \in Entry, kept[e] # None
                 PROVE  /\ key'[kept[e]] = sync.snap[e]
                        /\ CalibreLink(e, kept[e], sync.snap[e]) \in links'
    BY DEF RenameKeepsBook
  <2>. PICK i \in Id : i = kept[e]
    BY <2>1 DEF KeptFits
  <2>2. /\ key[i] = sync.snap[e] /\ CalibreLink(e, i, sync.snap[e]) \in links
        /\ DeleteBooks(Orphans(links), links)
    BY <2>1 DEF EndSync, KeptFits, Ending, Filing, StaysOn, Due, Renamed
  <2>3. CalibreLink(e, i, sync.snap[e]).book = i
    BY DEF CalibreLink
  <2>4. i \notin Orphans(links)
    BY <2>2, <2>3 DEF Orphans
  <2>. QED
    BY <2>2, <2>3, <2>4 DEF DeleteBooks
<1>. QED
  BY <1>1, <1>2, IInvInitially, IInvInductive, KeptNext, PTL DEF Spec
=============================================================================
