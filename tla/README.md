# NovelCheck in TLA+

NovelCheck is a self-hosted server (Go, one process, one SQLite file) that reads a family's book
libraries, rates each book's content with AI models, and keeps everybody's reading. This directory
holds TLA+ models of its own logic, the TLC runs that check them, and TLAPS proofs about them.
Module comments name the Go code; `PROJECT.json` maps every definition to its lines.

All SQL goes through one connection (`internal/db`: `SetMaxOpenConns(1)`), so **one SQL statement, or
one transaction, is one step**. A section under a mutex is one step. Whatever runs between two of
them can be interleaved with every other goroutine and request handler: that is what the models
are about.

## The system

| Part | State it keeps | Operations | Talks to | What is hard |
|---|---|---|---|---|
| **Ratings** (`analyzer`, rating handlers) | list of book ids, re-rate flags, a wake-up channel; `books.status`, `analysis_model` | Enqueue, Rerate, Wipe, Run, RateNow, RateWith, a hand-made verdict, automatic feed | AI providers, Deep Scans, imports | status in the database, list in memory; a rating read before an AI call and written after it; stops |
| **Deep Scans** (`deepread`, `store/deep*.go`, handlers) | `deep_reads` rows, a runner's locals, a wake-up channel | ask, approve, decline, cancel, order, read part by part, hold, accept, keep, set a level | the Deep Scan machine, Ratings | hours-long reads; two admins; a machine that goes off; restarts |
| **Starts and safe mode** (`safemode`, `cmd/novelcheck`, `cli`) | a file of start times, a flag file, the reason, a once | Starting, Healthy, Clean, Leave, the command line | the background work of every part | crash loops, clean ends, two admins leaving at once |
| **Catalogs and books** (`store/books.go`, `boxsets.go`, `merge.go`, ...) | books, links of books to libraries and lists, box sets | import, sync, unlink, prune, split, merge, look up | Calibre sync, events, Deep Scans | which part still needs a book when another lets go of it |
| **Calibre sync** (`calibre`) | last sync, change stamps | sync by timer and by hand | catalogs, Ratings (Kick) | a sync while the books are edited |
| **Calibre server and formats** (`calibresrv`, `formatjob.go`, `deletes_handlers.go`, `titlefix_handlers.go`, `duplicates_handlers.go`) | one job, a log of removed formats, delete requests | begin, stop, undo, convert, delete, rename, remove copies | Calibre's own server | partial failure, lists of any age, another library at the address |
| **Remote access** (`tunnel`) | one supervised child process, the state shown | apply, stop, retry | cloudflared | two admins at once; late lines |
| **Accounts** (`auth`, `store/users.go`, `family.go`, `areas.go`) | users, the main admin, sessions, PIN tries | set up, create, change, delete, hand over, sign in, switch person, lock out | every handler | checks before writes; renewals beside sign-outs; tries that race with the lock |
| **Reading** (`store/queue.go`, `wishlist.go`, `kosync`, ...) | Nightstand rows, progress, e-reader reports | enqueue, start, finish, sync | KOReader, Hardcover | reports out of order |
| **Events**, **Discover**, **Collections** | lists with an end, or with a source outside; the season's cache | archive, restore, read a page, refresh, fill | catalogs, Ratings, sites outside | books only a list holds on to; a book taken off a shelf |
| **AI providers and hardware** (`llm`, `ollama`, `aitools`) | settings, what was announced, downloads, results | ask, check, download, time | machines outside | settings read while saved; answers that come late |
| **Book facts** (`enrich`, `covers`, `hardcover`, `libby`, `genres`, `content`) | caches, content items, genres, what was sent | look-ups, checks, fill in, push | services outside | statements of one save; calls that fail halfway |
| **Suggestions, notifications** (`suggest`, `push`, `delivery`) | votes, saved picks, notices, subscriptions | score, ask, send | browsers | notices cleared after counting; stale subscriptions |
| **Database, settings, web app, plugin** | tables, files | plain I/O and screens | — | — |

`PROJECT.json` lists these parts with their files, and under `hazards` what in them a test would
hardly reach, each at its line.

## Modules

| Module | Models | Kind |
|---|---|---|
| `RatingQueue` | the rating worker and everyone who shares a book's status with it | component |
| `DeepScan` | the Deep Scan runner, its rows, the admins' decisions | component, implements `ScanLifecycle` |
| `ScanLifecycle` | what a scan promises: the phases it goes through | abstract |
| `ScanParts` | a book cut into parts, parts halved while it is read, the reader in Review | algorithm with the loop around it |
| `Library` | books, copies, merged titles, box sets, events, and the sync with Calibre | composes the book store with the sync |
| `SafeMode` | starts, crash loops, leaving safe mode | component |
| `Accounts` | setup, the admin of the environment, accounts, areas, the main admin | component |
| `Sessions` | one person's sign-ins and how they are renewed | component |
| `Family` | a shared device, a profile's PIN and its lock | component |
| `EReader` | which library book a file on an e-reader is | component |
| `Nightstand` | a person's list, and the reports that move its books | component |
| `Bell` | one notice among the newest that are kept | part of `Requests` and `Deletes`, which extend it |
| `Requests` | wishes, wrong covers, problems, and their notice in the bell | component |
| `Push` | the signing key, a person's devices, messages under way | component |
| `Tunnel` | the supervised connector and the saves of its settings | component |
| `Hardcover` | sending where a person is to Hardcover | component |
| `Genres` | genres from Calibre's tags and from the AI | component |
| `Formats` | the format job: remove, put back, convert | component |
| `Deletes` | requests to delete with their notice in the bell, and removal by a filter | component |
| `TitleFixes` | titles tidied in Calibre, and the stamp that offers a book for a new rating | component |
| `Duplicates` | which copy to keep, and removing the others | component |
| `Shelves` | collections, seasonal shelves, fills by the AI | component |
| `Discover` | the refresh of outside lists and the day's ratings | component |
| `EventPages` | an event's list read over several answers | algorithm with the loop around it |
| `HideRules` | what a kid is shown while ratings, checks and rules are saved | component |
| `CustomFilters` | the family's own filters and their version | component |
| `Suggestions` | what a reader is offered: free matching, saved AI picks | component |
| `AskAI` | the settings of the AIs, and a question put to one model after another | component |
| `ModelUpdates` | versions of local models: checks, announcements, downloads | component |
| `SpeedTest` | timing a machine's models, and the looks at its graphics card | component |
| `RatingQueue_proofs`, `DeepScan_proofs`, `Library_proofs`, `People_proofs`, `Genres_proofs`, `Tools_proofs`, `Jobs_proofs`, `Books_proofs` | theorems, for every value of the constants | proofs |
| `MCRatingQueue`, `MCDeepScan`, `MCLibrary` | instances of one component | MC |
| `MCPeople`, `MCServices`, `MCJobs`, `MCBooks`, `MCTools` | several components side by side | MC |

The parts in one of the last five modules share no state. Its variable `running` (`service` in
`MCServices`) names the one whose steps the behaviour takes, so that the states of the parts add up and do not
multiply. Each property there is a part's own: the conjunction of its type invariant and of the named
properties its module states, one conjunct for each question. The theorems about these parts are of the
composition: their proof module extends the MC module. Components that do interact are one module: the worker with all who write a
book's status (`RatingQueue`), the store with the sync (`Library`), the runner with the admins
(`DeepScan`), a job with Calibre's own edits and the sync (`Formats`, `Deletes`, `TitleFixes`,
`Duplicates`).

### RatingQueue

`status`, `error`, `rater` are the columns `status`, `analysis_error` and the prefix of
`analysis_model` of the books; `queue`, `rerate`, `wake` the fields of `analyzer.Worker`. Each
goroutine has a place `pc`; the worker's places are the points of `Run`, `process` and `rerateOne`
between two statements or lock sections. `Req` is a set of requests, each made once and of any
kind: analyze one book, a batch, retry errors, wipe the queue, re-rate, check a book (`RateNow`),
rate on the bigger machine (`RateWith`), a verdict by hand, or the unrated books of a box set, an
event or a shelf. `Batch` stands for the setting `batch_size` and the caps of `feed` and of re-rates;
`RateGate` for the possible answers of `AutoRateOn` and `RateHoursOpen`, which may change at any
time; `SafeBoots` says whether a start may be in safe mode. `Exit` loses the memory and keeps the
database; `Boot` is `ResetQueued` and, out of safe mode, a new worker.

A call to an AI answers or fails. A book's level is left out: ratings differ by who made them.
`OldDeepRatings` at a start, and Discover's books, put books in line just as `AnalyzeBook` and
`AnalyzeBatch` do. Deleting a book that waits in line is not modelled.

### DeepScan and ScanLifecycle

`status` to `newLevel` are the columns of `deep_reads`, `level` and `source` those of the books.
The runner's `pc` and its locals follow `Run`, `scan`, `ask` and `confirm`: the try of a part, the
level before the scan (`prev`), the level the parts add up to (`result`) and whether one part alone
carries it (`single`). A book has up to `MaxParts` parts, halves included; what is read in them is a
level of `Level`, which holds 0, 3 and 4 because the rules compare with `prev + 2`, with 3 and with 4.
Two admins do anything the handlers let them do; those who only ask are the same action without
approval. An admin who asks for the next books of the Nightstand picks them first (`QueueNext`, `chosen`), queues them
one by one (`QueueOne`) and wakes the runner at the end (`QueueEnds`). The Deep Scan machine goes on and off by itself. `applied` is history: the scans whose
rating was saved. A crash loses the locals and the channel, and `ResumeDeepReads` follows.

`ScanLifecycle` is the promise: one phase per scan, with final phases. `DeepScan!ImplementsLifecycle`
maps a row to its phase (`done` is `review` while held and `applied` after, `declined` is `kept` after
a review and `refused` before) and is checked as a property.

### Library

| Variable | Code |
|---|---|
| `key`, `title` | `books.norm_key`, `books.title`; a row exists when its key is not `None` |
| `links` | `catalog_books`: library, book, Calibre's id, path |
| `alias` | `book_aliases`, what a merged title now belongs to |
| `box`, `members` | `box_sets.state`, `box_members` with `created` |
| `events`, `listed` | `events`, `event_books` |
| `calibre` | Calibre's `metadata.db`, which others edit |
| `at`, `job` | of each request and of the sync, the place and the locals |
| `sync` | the locals of `calibre.Sync`: what it read, `keep`, `seen`, what it is pruning |
| `disturbed`, `settled`, `kept` | history, for the properties |

A title stands for the key of title and author (`NormKey`), and a book's rating and notes are part of its
row: whatever loses the row loses them. One imported library, `Shelf`, stands for all. Calibre's path
of a book follows its title, except for an entry without files (`Fileless`), whose path is a
placeholder. `AUTOINCREMENT` never gives an id twice; `Fresh` has the ids that no row, local variable
or history variable holds, so `Id` can be small. `UpsertBook` is three statements (`AliasKey`, `Insert`,
`Select`), and imports, events, box sets and the sync go through all three. `FindBoxSets` is one book at
a time. Which of two books a merge keeps depends on their ratings and is free. `Crash` ends the sync and
all requests where they are; transactions are single steps.

### ScanParts

`sections` is what `epub.Read` made of a book, each word its place in it; `parts` is what `Split` cut
for the model's `context` (0: a cloud model), each with its label; `try`, `results` are `scan`'s.
`Answered`, `TooLong` and `OtherError` are the branches of `scan`, `Combine` is the end of a read;
`cut` and `locate` are `passage.go`. Titles are two values, tokens are fourteen tenths of the words.

### SafeMode, Accounts, Sessions, Family

`SafeMode` has the file of start times, the flag file, the process with its age, the admins in `State.Leave` (the
lock section of `Leave` is two steps, since the command line writes the same files), and the command
line. Time is counted in ticks and any number of ticks may pass between two steps. The file's list of starts is a set:
a start has a number of its own, and its place in the list is nowhere used. `quick` counts, as history, the
runs in a row that crashed young and were started again at once.

`Accounts` has a start (`FirstOwner`, `Bootstrap`, `BootstrapOwner`), `Setup` of a first visit in its two
statements, and the admins' requests: `Begin` reads who asks (`RequireUser`), the `Check` actions read
the account and test what the handler tests, and the actions named for a store function write, one
statement each. `owner` is the column of that name, `areas` `admin_areas`. `first` and `overtaken`
are history: the accounts that setup or the environment made, and that a hand-over went to somebody
whom another request had already found not to be the main admin.

`Sessions` has a row per sign-in with its end, the setting for their length, and requests that read a
row, decide whether a renewal is `Due` and write it later (`Extend`); what the person holds is history.
`Family` has the tries in memory, the lock, and visits between the look at the lock and the count.

### EReader, Nightstand, Bell, Requests, Push

`EReader`: `row` are the tables of an e-reader's statistics and of its files, `choice` is the person's
own word (`kindle_overrides`), and each job (a statistics file by WebDAV, a report of the plugin, a page that
matches again, the background look-ups) has the files it has still to do. `RematchUnmatched` reads both lists
before it writes anything (`Rematch`, `RematchFiles`), `resolveUnmatched` the second when it is done with the first. `Find` is `findForDevice`. `Nightstand`: `item` are
`queue_items`, `report[s]` is what KOReader's statistics or Hardcover said when they were sent; the person's
actions and the machines' (`Machine`) interleave. `Requests`: `rows` are the tables of the list that is
followed; a request and its notice, a decision, its count and its clearing are steps of their own, and a stop may come
between any two. `Bell` follows one notice among all: `ahead` says how many are newer, so that the one with as many as the
bell keeps (`MaxNotices`, 300 in the code) before it is deleted, read or not (`notifications.go:50-51`). Others' notices are written or
written again, the notice is read, dismissed or cleared, and its own statement may fail. The histories `since` and `silent` say
why it may be missing. `Notify`'s `UPDATE`, `INSERT` and `DELETE` are one step; notices of one second are in the order of their
ids; of the "problems" notices, one for each reporter, the newest is followed.
`Push`: the saved and the remembered key, the lock that one asker at a time holds while it makes one, each browser
between asking for it and registering, `subs`, and messages (notices and tests) with the devices listed as
their sending began.

### Tunnel, Hardcover, Genres

`Tunnel`: `owner` is whose `cancel` and `done` the manager holds, `sup` each supervisor's place, whether it is
cancelled and the callback it has not made yet; a save goes through `Apply` step by step. Genres:
`tagged` is Calibre, `source` says whose genres a book has, `filling` and the variables after it are `run`'s.
`Hardcover`: `here` and `there` are both sides, `sent` what was pushed last, `job` each pusher's place and book;
each call may fail, or take effect with its answer lost.

### Formats, Deletes, TitleFixes, Duplicates

Each has Calibre as others edit it, NovelCheck's copy of it from the last sync, the admins' requests
with what they read, the address of the Content server (which may be saved anew, and have another library with
partly the same numbers), and the sync after the job. `Formats` adds the recycle bin, the log of
removals and the job's slot; `Deletes` the requests, whose notice is a statement of its own (`asking`), the bell, and the review of a filter's list,
with another library at the address that has some of the numbers (`Shared`) or none;
`TitleFixes` Calibre's stamps (`theirs` and `entries`), the stamp a rating keeps, and as history what a push
`renamed` in a library that is not NovelCheck's; `Duplicates` the suggestion
(`SuggestKeep`), which an admin may follow or not.

### Shelves, Discover, EventPages

`Shelves`: the cache of a season between its reading and its writing (`build`), collections in the order of their
last change (`updated`, which decides the one a season shows), ideas, one fill, `rejects`; `taken` and `overtook`
are history. `Discover`: each caller's place in `Refresh`, lists
with the day they came, the allowance as it is saved, `sent` as history; a day may pass between any
two steps. `EventPages`: a site shows cards, each with a heading and perhaps a link to a shop; a book's title is
the words of its link, or the nearest heading before it when those only say what to do. `site` is how the
rest is given (by offset, by page number or by links), whether on the page's own site, which alone is asked, and
whether an answer says what comes next; `got` is what came, and `Parse` makes the list of it. Both loops stop after `maxMore` requests
or when the answers brought `maxTotal`; of an answer no more than `maxPage` is read, and a heading is looked for as far as
`Reach` before its link. These three are bytes or characters in the code (16 MB, 4 MB, 1500) and cards here. An answer in JSON that was cut
tells nothing; a page that was cut still has its link to the next, as `<link rel="next">` is at its top. `AllFound` is claimed when
no request failed and neither limit was reached, of `Regular` sites: the rest is asked for, in steps that the page or its answers tell, each answer is read whole and has a book, and no ASIN is a title
(`seen` holds both: `parse.go:43-60`; ASINs are upper case and titles compared in lower case, so only one of digits
alone could be both).

### HideRules, CustomFilters, Suggestions, AskAI, ModelUpdates, SpeedTest

`HideRules`: a book's columns, its content items, a kid's rules; a rating, a check and a profile are
saved statement by statement. `CustomFilters`: `flags` with their wording, the version, the rating under way with
the filters it asked about, and edits, whose save, look at the version and new version are statements of their
own; an answer may name any filter, and those that are not there are dropped (`FlagsFrom`). `stale` is history: an edit
wrote over what came after its reading. `Suggestions`: the
reader's votes and list, the saved picks and how old they are, the call under way; `Rank` and the sums
in it are `rank.go` in sixtieths of a point. A vote against takes 1000 points (`ruledOut`, `rank.go:27`) and one like gives
less than 21 (`rank.go:62`), so that up to 48 of them never make up for it; from there on they could. `AskAI`: `setting` key by key, the save under way, each
asker's copy with what it has tried. `ModelUpdates`: versions installed and in the library, what the
page shows and what was announced, the one download, each check's answers. Who runs Ollama may install and delete models
without NovelCheck; what was announced may fail to be saved (`unsaved` is history), and the list that a check goes through to announce
is the one `Updated` shortens in place. `SpeedTest`: the one setting all results
are in, tests between reading and writing it, and looks at a card with the model they loaded.

## Runs

| Run | Instance | Shows |
|---|---|---|
| `RatingQueue` | 2 books, 2 requests, batch 1, one stop | no queued book loses its place in line, no re-rate flag is stranded, no wake-up is lost, nothing stays in processing |
| `RatingLive` | 2 books, 1 request, batch 2, one stop, automatic rating on, fair | a queued book is served by the wake-ups alone; every book ends up rated or in error |
| `DeepScan` | 1 book, 1 scan of 2 parts, 2 admins, a restart | a scan shown as done was applied; no approved scan is forgotten; rows implement `ScanLifecycle` |
| `DeepScanEnds` | 2 books, 2 scans, 1 admin, a restart, fair | one scan at most shows as reading, the runner's; every approved scan ends while the machine stays on |
| `Library` | 1 entry, 2 titles, 3 requests, one edit in Calibre | no request, box set, event or later sync takes the book of an untouched Calibre entry; a sync that ends leaves Calibre's links as Calibre has them |
| `LibraryConverges` | 2 entries, one fileless, 2 titles, 1 request, two edits, fair | a rename alone keeps the book's row; left alone, the library becomes what Calibre has |
| `SplitLost` | as `Library` | finds the books of a split box set deleted (see Findings) |
| `Services` | tunnel with 1 save at a time, 2 books at Hardcover, 3 books for genres, fair | a save is answered; pushes come to rest; a book finished here is not left as being read there; Calibre's tags win; nothing is paid for twice; a run that fills in genres ends |
| `People` | the parts of the two sections on people above | one main admin, one setup; who comes often stays signed in and who signed out stays out; the PIN's lock holds; a person's choice survives reports; late reports move no book back; decisions stand and waiting requests are in the bell, as long as it keeps them; one key, and live devices stay |
| `Jobs` | formats, deletes, shelves, Discover | one job; a kept format stays; another library is never touched; requests are marked deleted when the library served has none of the numbers; what waits is in the bell; a book taken off a shelf stays off; one refresh; the day's allowance |
| `Books` | hide rules, filters, suggestions, AI, models, speed tests | a first check's finds are hidden; a filter saved since a rating is missed by none; a vote against outweighs; every model is tried; versions are announced once, if that can be saved; results and memory are kept |
| `Tools` | starts, titles, duplicates, parts, event pages, 2 saves of the tunnel | crash loops are caught, safe mode is quiet and the work starts once; our own edit offers no rating and others' does; the last copy stays and so do the best formats; no word is lost and a finding opens where it was; no book of a list is missed within the limits, or doubled; one connector runs |

**Bounds.** Two books are enough to have one in hand and one in line, and to tell a flag of one from
an entry of the other; two requests race with each other and with the worker, and each may be of any
kind. `MaxStops`, `MaxCrashes`: one restart leaves every kind of remnant; a second starts from a state
the first could have left. Two scans make a line; two parts give a first, a last and a split one.
`Window`, `HealthyAt` and the clock keep the code's proportions (ten and five minutes), which is what
`SafeModeAssumption` asks.

In `Library`, one request is under way at a time beside the sync and Calibre, and three are made one
after the other (import, find, split; import, import, merge; create, list, claim). Two titles, one of a
box set, give a merge, a rename onto a taken title and a split; two entries and two edits add two
entries on one book, a rename during a sync, and entries that swap their titles. A list has one book
(`MaxList`); several books are several passes of the same loop. `Id` is large enough in both instances
that an `Insert` always finds a fresh id, so the bound holds nothing back.

`People`: two accounts under two requests at once give every hand-over and demotion of one by the other
(`MaxUser`; a third was searched to 8.7 million states without a difference, but not to the end). Lengths of a
sign-in are 2, 4 and 8 with a renewal after 4, so that both arms of `min(renewAfter, life/2)` count;
two requests on one sign-in are one that renews and one that ends it. Two visits are past the PIN's lock
at once. One file on a device fits books by title, by file name, or not, and each job looks at it while the choice changes.
`MaxRows`, `MaxKeys`, `MaxGen`, `MaxMinute`: a second one meets what the first left.
The bell keeps two notices in `People` and one in `Jobs` (`MaxNotices`), so that the next drives one out. `Services`: one book is not at
Hardcover (`Unknown`), and three acts of the person overtake a push twice; a batch of two with three
books leaves a rest. `Jobs`: one format kept and one not; the other library has one of the numbers (`Shared`), so that a removal meets a book of
another title there or nothing at all; two admins with a request each; a batch of one makes
every second batch fail or not; two collections can be of one season; one weekly idea at a time (`MaxIdeas`, three in the
code), which is asked for, shown and kept or dropped; a week of two days. `Books`: two items, one
of them hidden for every kid; one filter under two wordings, edited by two admins at once; three books of which two are alike;
two models on the main AI and one on the backup; one local model of two versions, looked up by the loop and by the button. `Tools`: books of up to ten words against parts of three and four give a
part that fits, one that is cut, a halved one, and one too small to halve; four copies of two books; lists of
five cards, with and without headings and links, with repeats by ASIN, by title, and by both, against limits (`maxMore`, `maxTotal`,
`maxPage`, `Reach`) that some of them pass; at most two connectors
live at once.

**Fairness.** Goroutines are scheduled and each call to an AI ends (it has a time-out), so the
worker, the runner and every request under way are weakly fair. The worker's idle timer is
fair only in `TimerFires`, which `EverythingIsRated` assumes; `QueuedIsServed` does without, being about
wake-ups. The runner's `IdleTimer` is fair, being the one way back from a machine that was away. In
`Library`, `LiveSpec` is weak fairness of `SyncStep`: the scheduler (`calibre/scheduler.go`) asks for a
sync again and again; `Converges` speaks of behaviours that end in nothing but sync steps.

In `Tunnel` goroutines run, and a cloudflared that was cancelled ends: the kill is strongly fair, since its last
lines interrupt it a finite number of times. In `Hardcover` the hourly loop comes back (weak), and each of
the four calls, made again and again, succeeds some time (strong): without this no push need ever arrive,
and the code can do nothing about it. In `Genres` the run is a goroutine whose calls end, the
window of the token cap frees as time passes (weak), and a run that waits for room finds some when there is room
again and again (strong), which leaves out that others spend every window first. Nobody has to make a
request, leave safe mode or switch a machine on. A stopping process ends and is started again (the
container's restart policy).

**Deadlock** is checked in every run but `Tools`: a scan of parts and the reading of a list end for good there.

## Findings

| Run | What the code does |
|---|---|
| `SplitLost` | the sync deletes the books of a split box set, with their ratings: they have no copies of their own |

**Exceptions in properties.** Some properties hold only but for an overlap, which a history variable tells:
`overtaken` (Accounts), `late` (EReader), `silent`, `since` and `asking` (Bell, Requests, Deletes), `overlapped` (Tunnel), `mixed` (TitleFixes, Duplicates, ModelUpdates), `late` and `unsaved`
(ModelUpdates), `raced` (AskAI), `lost` and `stale` (CustomFilters), `overtook` (Shelves). The exception is as
narrow as TLC allowed; what the code does in it is listed below.

**Behaviours seen.** The models show these; no run is spent on them. Where a comment or a doc says
otherwise, it is named.

Ratings and scans
- A re-rate overwrites a rating given by hand, or by a Deep Scan, while it waited for the AI
  (`analyzer/worker.go:257-259`). A book interrupted by a clean stop is left as an error, not pending
  (`cmd/novelcheck/main.go:59`). "Check a book" and the worker may rate one book at the same time.
- A scan cancelled during its last part still saves its rating (`store/deepreads.go:141-142`). A machine that is
  switched off at a third try or in a second look fails the scan (`docs/AI_PROVIDERS.md:81`).
- A scan that one admin turns down while another accepts it is applied, and shows as declined. A scan can
  raise a rating given while it read by two levels, without the review that asks.
- A label of an old scan for a wordless chapter at the end opens an empty passage, one of a halved part
  opens near it; places are those of the EPUB as it was.

Library
- A listed book that a library had is not filed under Events when the event is made. When it leaves that
  library it goes, and the event loses it (`eventarchive.go` says archived events keep their books).
- `UndoSplit` deletes a book the split made even when it is in somebody's Nightstand or on a wishlist.
- A merge during a sync moves links the sync has not seen under that book: they are dropped until the
  next sync. An `UpsertBook` that read the alias before the merge brings the merged title back as a book
  of its own until a sync files it again.
- An import that takes a title between `followRename`'s check and its `UPDATE` makes the `UPDATE` fail; the
  sync leaves the entry out and prunes its links, and with them its book.
- Between choosing another Calibre library and the sync of it, deleting any library also deletes every
  book that only Calibre had.
- A site that answers an offset with fewer books than before and gives no next offset loses some; one with page
  numbers that ignores the number is asked sixty times. Of a list that takes more than sixty requests
  or brings 16 MB the rest is left (`more.go:62`, `more.go:93`), of an answer what is beyond 4 MB, and no log says so.

People
- Safe mode comes at the third start, after two unexpected stops; `README.md:31` and `docs/TRUENAS.md:152`
  speak of three stops.
- A request that found an account not to be the main admin demotes or deletes it after a hand-over made it
  that (`CHANGELOG.md:216`); two admins may delete each other this way and setup opens again.
  `UpdateUserProfile` writes the whole profile as it was read. `CreateUserAge` inserts a kid and then sets the rules.
- A sign-in is renewed when `min(86400, life/2)` of it is used up, so "12 hours idle" (`README.md:134`) may be
  over for somebody who came within them.
- "Start Reading" delivers, then writes its status over a Finish made meanwhile. "Forget" of a match leaves
  KOReader's document filed as before. Fingerprints are shared by the family.
- `RematchUnmatched` (`store/rematch.go`) files a title by the list it read first: a choice, or "no book", that a
  person makes after that read is overwritten (`late`).
- A notice is cleared after the count; a wish from a suggestion has none; all devices of a notice share
  one minute. The bell drops what is beyond its newest 300 notices, unread ones too (`store/notifications.go:50-51`), and a request whose
  notice could not be written, or before whose notice the program ended, waits without one; the next request of its list brings it.

Calibre's server
- A removal whose answer is lost, or that a restart overtakes, is not in the log that Undo reads. A kept
  format that is removed in Calibre while the job runs leaves a book with none. A conversion that timed out is
  never added.
- Requests are marked deleted when the library that is served has none of the numbers, though nothing was removed
  (`calibresrv_handlers.go:146-148`, `deletes_handlers.go:157`; the comment at `deletes_handlers.go:88-90` speaks of removing the entries): another
  library at the address counts as "already gone from calibre".
- A book requested between the read of the requests and the removal stays requested (`deletes_handlers.go:88-91`);
  a review compares only how many books there are (`calibresrv_handlers.go:86`, line 111).
- An edit by somebody else since the last sync is swallowed when our own is accepted
  (`store/titlefix.go:84-86`); a rating saved between our look and our edit leaves the book on offer.
- "At least one entry of every book is always kept" (`duplicates_handlers.go:51-52`) fails for two requests
  that overlap, or when the library could not be read again. AZW3 with KFX is kept over EPUB alone.

Shelves and Discover
- A book taken off one of two collections of a season comes back by the other, or by a build or fill under way
  (`store/shelfrejects.go:11-13`). A crash in `MakeIdeas` leaves an empty idea.
- Discover says it "tries again tomorrow" (`sources.go:77`), but the week is recorded when any of the New York
  Times' lists came. Its rows stay after the key is removed; the fallback is cleared when only some came.
  The day's count is saved after the books are marked.

What is said of a book
- Rules and content items are deleted and inserted statement by statement: a look between, or a stop, finds
  none. `bumpFlagsVersion` reads the version and writes it back in two statements (`store/flags.go:36-38`): two edits
  that overlap can set it back below a third's, and then a filter worded anew after a rating does not bring the book
  back on offer (`flags.go:93-94`); a rating that was asked before an edit
  and saved after it carries the new version (`books.go:164-168`, `flags.go:18-19`); a stop between an
  edit and its version loses it.
- For a reader who likes nothing, "Popular in your family" overwrites a vote against (`rank.go:68-70` against
  `rank.go:120-122` and `CHANGELOG.md:534`). Two pages may ask for AI picks twice; saved picks ignore later votes.
- Two pushers can lower a status at Hardcover (`push.go:103-104`, `CHANGELOG.md:174`); a run ends at the first book that
  fails. "Stop ends a run after the current call" for genres, but the call is cut off and its answer lost.

AI machines
- Settings are saved key by key in no order. `HostDown` skips the other models of a server only in ratings. A late answer
  of the backup opens its notice again.
- Two checks that overlap announce a version twice (`aitools.go:66-67`), and so does the check after one that could not save what it
  announced (`aitools.go:107-109`); a model that was installed on the Ollama machine itself stays on offer until the next check;
  a model may be deleted while it is downloaded (`ollama_models_handlers.go:70`). `Updated` shortens the list that `announce` is
  going through, and some of it may not be announced until the next day (`aitools.go:139`, a read without the lock); an update is offered again by a check that began
  before the download. `modelsInUse` leaves out the Deep Scans' model. A speed test that fails
  replaces a good result. Unloading after a look may unload a model that somebody began to use.

Remote access
- Two saves at once leave two connectors, or "off" beside one that runs (`tunnel.go:36`). The notice
  that remote access lost its connection stays open when it is turned off.

## Proofs

Eight modules hold the theorems. TLC checks a property on the instances above; its theorem says the same for every value
of the constants that the assumptions allow: any number of books, requests, admins, devices, any bound. Each property rests on
an invariant that every step keeps. The header of a proof module says what that invariant adds, the definitions
called `...Fits` state it, there is a lemma for each action or group of actions, and the theorem puts `Init`, `Next` and
"the invariant gives the property" together.

`RatingQueue`, `DeepScan`, `Library` and `Genres` are proved about by themselves. The theorems about the other parts are about their
composition (`MCPeople`, `MCTools`, `MCJobs`, `MCBooks`): since only the part that `running` names takes steps, the invariant is
`running = "x" => XFits`, and it is enough that this part's steps keep `XFits`.

| Theorem | Property | What makes it inductive |
|---|---|---|
| **RatingQueue_proofs** | | |
| `TypeCorrect` | `TypeOK` | |
| `BooksKeepTheirPlace` | `QueueKeepsItsBooks` | claims are counted: positions of the list by bijections (`EntriesConcat`, `EntriesTail`), enqueuers as a finite set since nobody enqueues but by leaving "new"; a goroutine that marks has a book to mark |
| `FlagsAreServed` | `FlaggedIsQueued` | what `Without` returns: the ids `Rerate` was given are flagged afterwards, and each is in the queue already or appended |
| `WakeupsAreKept` | `NoLostWakeup` | the worker decides to sleep one step earlier, in `feed` (`WakeIsDue`) |
| `ProcessingIsOwned` | `ProcessingHasOwner` | the worker marks only the book it popped for a rating, `RateNow` only its own (`MarksItsOwn`) |
| **DeepScan_proofs** | | |
| `ScansStayTrue` | `ScansAreTrue` | what the runner knows (its scan was approved), what an accepting admin knows (the rating was saved before the row is closed), what a held row has (`HeldFits`) |
| `RowsImplementLifecycle` | `ImplementsLifecycle` | initial states map to `ScanLifecycle`'s, each step to one of its steps or a stutter (`OneLives`, `RequeueAll`, `KeepAll`) |
| **Library_proofs** | | |
| `RowsAreKept` | `BooksKeepTheirRows` | where the sync is with every entry that was filed and not edited since (`OnItsWay`); references and keys with what each request carries (`Shapes`, `Jobs`) |
| `CalibreIsMirrored` | `SyncMirrors` | while nothing was disturbed, each entry gone by is filed under a book with its key, and this book, link and all, was seen |
| `RenamesAreFollowed` | `RenameKeepsBook`, half of `FollowsCalibre` | an entry that is to be renamed is alone with its book and its new title until the sync renames it, and has both from there on |
| **People_proofs** | | |
| `MainAdminIsSafe` | `MainAdminSafe` | what a request may still believe (below) |
| `SignInsAreKept` | `SignInsLast` | the row of a sign-in in use ends no earlier than its renewals allow (`Lasts`) |
| `LockIsKept` | `LockHolds` | wrong answers and the requests past the lock are counted together |
| `ChoiceIsKept` | `ChoiceSurvives` | what a job has still to do and what it read, but for the files it looked at before the choice |
| `ReportsAreHeeded` | `ReportsMoveOn` | a book that is there was written when the person last touched it, or later |
| `RequestsAreHeard` | `RequestsAreKept` | while a request waits, whoever would clear its notice was overtaken; a notice is as far down as notices were written since (`BellFits`) |
| `PhonesAreReached` | `PhonesAreServed` | one key is made at a time, and only while there is none |
| **Genres_proofs** | | |
| `GenresAreKept` | `GenresKept` | a run picks at most `Batch` books, by counting those before each (`HasLargest`, `BatchFits`) |
| **Tools_proofs** | | |
| `AlwaysOnce` | `WorkStartsOnce` | who holds the lock of `Leave` is alone and in safe mode; who starts the work has left it, and is the first |
| `LoopsEnd` | `LoopsAreCaught` | quick deaths are starts that the file has, and all of them fit into the window |
| `TitlesAreTidied` | `TidyingIsNeutral` | the time a rating saw, the time read last and Calibre's own stay in this order |
| `CopiesAreKept` | `BestCopyStays` | at each stage of a request, what is left beside what it was asked to remove is there |
| `TunnelIsTold` | `TunnelIsAsShown` | who saves alone is the one that stops the connector and starts the next |
| `BookIsReadInOrder` | `BookIsReadWhole` | where each part begins and ends is a chain from the first word to the last; halving puts one more link into it (`PartsRead`, below) |
| `ListsAreRead` | `ListIsRead` | answers that are read whole begin, together, with the list's cards up to what is asked for next, and past its end with all of them, while requests and size last (`PagesRead`, below) |
| **Jobs_proofs** | | |
| `CleanupStaysSafe` | `CleanupIsSafe` | a list holds what may be removed, as it was read in the library it is of |
| `RemovalStaysSafe` | `RemovalIsSafe` | what a request has removed is gone until it marks the rows; what was skipped was not in the library served; who closes the notice saw nothing that waits, or `silent` says so |
| `RejectionsAreKept` | `RejectedStaysOff` | a rejected book is in no place its shelf is shown from and in no build; a fill leaves it out |
| `AllowanceIsKept` | `DailyAllowance` | what is chosen and not yet recorded fits what is left of the day |
| **Books_proofs** | | |
| `WhatAFirstCheckFoundIsHidden` | `FirstCheckHides` | a find is in the book, or is still to be inserted before the stamp |
| `NewFiltersAskAgain` | `SavedBeforeIsOffered` | a filter nobody asked about leaves the version behind, or an edit is about to raise it |
| `AskersAskTheirModels` | `AsksAllThatWasSaved` | between saves the settings are what was said; the models before the one asked now were asked or stand behind a server that is down |
| `UpdatesStayTrue` | `UpdatesAreTrue` | no download or check knows of more than the library has; who announces remembers all that was, but for what could not be saved; what came during a check is in its `late` |
| `TestsKeepTheirResult` | `TestsLeaveTheirResult` | who writes the results has read what is saved; who loaded a model is there to unload it |
| `RuledOutStaysOut` | `RuledOutIsOut`, for a reader of at most 48 likes | a sum taken one signal at a time: 1240 at most for each like, 60000 off for the vote |

**Accounts.** What a request has read goes stale before it writes, so the invariant says of every request what
it may still believe (`Fits`). While there is no main admin nobody has an area, so no request can have
found its sender fit to make, demote or remove an admin (`Powerless`); once there is one, a request about to
write to that account leaves its role alone (`Respects`). `Founded` is the same of the accounts: a main admin is
an admin; accounts without one mean an admin and a setup that is about to make one. A hand-over to
somebody whom a request is about breaks `Respects`; it is what `overtaken` records, and from there on only
`AtMostOneOwner` and the types are claimed. `EnsureOwner` takes the earliest admin, which exists by
`WellFoundedInduction`'s least element of a set of naturals.

**Library.** An entry of Calibre that was filed under a book and not edited since is, at each point of a sync, one that is still
to be filed, the one filed now, or one that was kept and seen. While it is filed now, the key the sync
looks for is that book's, and the only rename it can come to changes no key. Every deletion but a merge
takes only books without a link, and a merge ends the claim for the two books it joins.

For the mirror the invariant goes through the sync's stages. Filing one entry gives no other filed book another key:
a rename looks for a clash first, and who takes a key over takes it from its own alias. What was filed is seen, so what the
prunes take away was not of this library.

For a rename it goes entry by entry: what the sync finds for the entry (`Finds`) is its book, and what it finds for another
entry is neither this book nor its new title, so `followRename` meets no clash, and `UpsertBook` no other row.

**Refinement.** The types need the last position of the line of scans to be a number, which is `HasLargest` of the finite image
of `position`. `HeldFits` (a held row is done and has a proposal, an open one has none) is what tells "kept" from
"refused" in the mapping.

**Lists that a program builds.** `Split`, `Parse`, `fromHTML` and `Rank`'s sums are folds of the community modules: recursive
functions on sets of positions. The library's induction theorems do not apply (they take an operator), so these proofs do
without: that such a function exists is shown first (`FoldExists`, `SumExists`), and that what it gives has a property by taking the least
position at which it would not have it (`Climb`, from `WellFoundedInduction`'s least element), with one lemma for a step
(`AddIs` for `Parse`, `NextBookIs` for `fromHTML`, and so on). For a scan of parts, `PartsRead` has a chain of positions
from 0 to the number of words, each part the words between two of them; a section adds its cuts to the chain, a halved part
one more, and `PassageIsPart` and `LabelFindsPart` look a part up by it. For an event, no two books of the growing list have
an ASIN or a title in common (`Listings`), which gives `NoneTwice` of any cards whatever; each book of the list is found since
the answers begin with the whole list, so that each link has the heading before it that it has in the list (`TitleAgrees`).

**Assumptions** on the constants are those of the modules (`RatingAssumption`, `DeepScanAssumption`, `LibraryAssumption`, `AccountsAssumption`,
`GenresAssumption`, `SafeModeAssumption`) and, for parts that a composition instantiates, one of each part in the `MC` module
(`LockAssumption`, `TitlesAssumption`, `CleanupAssumption`, `FiltersAssumption`, and so on): bounds are naturals, sets that are counted are finite,
markers such as `None` are no member of the set they stand beside, a default lies within what may be set. A part has room for a
word and may be tried twice (`PartsAssumption`), a list is of cards and a site's answers of one at least (`PagesAssumption`). The window of
safe mode has room for the crashes that make a loop, as the code's proportions have. TLC checks them in every run of the module.

**Only model-checked.** All liveness (`QueuedIsServed`, `EverythingIsRated`, `ScansEndInTurn`, `Converges` of `FollowsCalibre`, `SaveEnds`, `PushesArrive`,
`RunEnds`), which needs fairness and `ENABLED`: of `Genres`, whose properties `RunEnds` and `GenresKept` share an instance, the
first is TLC's alone. Every invariant of a passing run is stated by a theorem; `RuledOutIsOut` with the bound on likes above,
which no instance of the run comes near.

## Not modelled, and why

- **What an AI answers**, prices and the token budget: answers are free; what is asked for is I/O.
- **Bodies of pure functions on text** (`NormKey`, `Halve`'s search for a sentence end, title patterns of box
  sets, the texts of notices and prompts): the models use what they decide.
- **Deleting a book that waits in line** for a rating.
- **`TidyTitles`** at a start, covers, look-ups of descriptions and Libby: they fill in facts from services
  outside, and keep no state another part relies on.
- **Search, filters of the book list, series, OPDS pages, the rows shown in Discover**: queries that read.
- **Passwords, hashes, the limit on wrong passwords by address**; sharing of libraries between accounts.
- **Archive, restore and pin of events**, reading hours, notes, taste, delivery by e-mail.
- **Migrations, backups, settings pages, diagnostics, static files**: plain I/O around a store whose statements
  are atomic. `PROJECT.json` lists them as not modelled.
- **The web app and the reader plugin**: screens and a client of the API; what they may send is what the
  models' requests may be.

`PROJECT.json` says of each component what of it is left out; its hazards without a property name the reason.

## What is left

1. Archive and restore of events in `Library`, and a book that is deleted while it waits for a rating, which
   would join `RatingQueue` and `Library`.
2. `OldDeepRatings` in `DeepScan`, and when the timer of a sync is due.
3. The limit on wrong passwords by address, beside `Family`'s lock.
4. Proofs: what remains needs fairness, and stays with TLC.
