# wherewasi: specifications, model checks and proofs

`wherewasi` collects where its owner has been into one SQLite database: check-ins
from Foursquare, trips from TripIt, device locations from OwnTracks and from a
Google takeout file. It runs as a server (`serve`) whose two loops sync Foursquare
and TripIt at an interval, and as one-shot commands (`4sqsync`, `tripitsync`,
`takeoutimport`) that may be run beside the server on the same database. This
directory holds TLA+ specifications of its core, TLC configurations that check
them on small instances, and proofs that hold for every instance.

## 1. The system

| Component | Source | State it keeps | Operations |
|---|---|---|---|
| Foursquare download | `main_4sqimport.go` | none of its own: the newest `checkin_time` in the database is where the next run starts | `run`, `fetchCheckins` |
| Foursquare storing | `sql_checkin.go` | tables `checkins`, `people`, `checkin_people`, `venues` | `Upsert4sqCheckin`, `Sync4sqUsers`, `Sync4sqVenues`, `Last4sqCheckinTime` |
| Secrets | `main.go`, `web.go` | a struct in memory, `secrets.json` | `Load`, `Save`, `/connect` and two callbacks |
| Server life cycle | `main.go` | actors, done channels, requests in progress | start, sync turns, signal, interrupt, exit |
| TripIt sync | `main_tripitimport.go`, `sql_trips.go` | table `trips`; its latest `end_date` is where the next run stops | `run`, `LatestTripitID`, `UpsertTripitTrip` |
| OwnTracks publisher | `owntracks.go`, `owntracks_types.go`, `sql_device_locations.go` | table `device_locations` | `HandlePublish`, `AddOTLocation`, the readers |
| Takeout import | `main_takeoutimport.go`, `sql_device_locations.go` | table `device_locations` | `run`, `AddGoogleTakeoutLocations` |
| Database start-up | `sql.go` | schema, table `migrations` | `newStorage`, `integrityCheck`, `migrate` |
| Command line, authentication | `main.go` | configuration | flags, OpenID Connect and basic authentication middleware |
| Web index page | `web.go`, `index.tmpl.html` | none | reads check-ins and locations |
| Metrics | `metrics.go` | counters | `Collect` |

How they interact: the loops call the `run` of a sync, which talks to a remote
service and calls the storage; requests and loops share the secrets struct without
a lock; processes share the database, which serialises writers; the group of
actors couples the loops, the HTTP servers and the signal handler at shutdown.

What is hard in it, and what makes each part right:

- **Download.** The only memory between runs is the newest stored time, and a run
  stores newest first. Right is: no check-in that was at Foursquare when a run
  started is left out, however the listing shifts under the offset, however late a
  check-in appears, and wherever earlier runs ended.
- **Storing.** Two of the three steps see a snapshot of the raw items while others
  write. Right is: references resolve, a completed run leaves no row half done, and
  the derived tables agree with the raw items in the end.
- **Secrets.** Nothing guards the struct or the file. Right would be: what was answered
  "saved" is on disk, is used, and never keeps the server from starting. The code does
  not keep this when requests overlap or a save is cut short; what can be said is which
  overlap and which cut it takes to break which part, and that a later save repairs it.
- **Life cycle.** Right is: whichever actor returns first, everything else is told,
  nothing waits for ever, and the process does not exit in the middle of a sync.
- **TripIt.** A run stops at a trip it knows. Right is: what is behind that trip has
  been stored.
- **Locations.** A phone repeats what is not answered, the table has no key, an
  import locks it, and times are compared as text. Right is: what was acknowledged is
  stored, and rows too many are owed to lost answers only; an import is all or
  nothing; what the readers make of the text is off by no more than a change of the
  clocks, and the index page shows the days it was asked for.
- **Start-up.** Commands of several binaries start at once on one database, and refuse
  each other. Right is: every migration is executed once and in order, nobody sees
  half a start, no command runs on an old schema, and all of them run in the end.

## 2. Modules

| Module | What it is |
|---|---|
| `FsqFetch` | the download against a changing history at Foursquare |
| `FsqFetchProofs` | theorems about it, and that it implements `Mirror` |
| `FsqStore` | the storing, statement by statement, by several processes |
| `FsqStoreProofs` | theorems about it |
| `Secrets` | struct, file, requests, crashes, restarts |
| `SecretsProofs` | theorems about it |
| `Serve` | the actor group of a server |
| `ServeProofs` | theorems about it |
| `Tripit` | the TripIt sync against a changing list of trips |
| `TripitProofs` | theorems about it, and that it implements `Mirror` |
| `Mirror` | abstract: what both syncs promise; `FsqFetch` and `Tripit` implement it |
| `Locations` | the phone, the publisher, the takeout import and the readers of one table |
| `LocationsProofs` | theorems about it |
| `Startup` | starts of several commands on one database |
| `StartupProofs` | theorems about it |
| `MC*` | model values for TLC; the `.cfg` files of the same stem are the runs |

### FsqFetch

`posted` and `deleted` are Foursquare: `Post` gives a check-in a `createdAt` of now
or up to `MaxLag` ago (made offline), `Delete` removes one. `stored` is the set of
rows. The run is `pc`, `since`, `fetched` and `batch`, which are the local variables
`lastTime`, `fetched` and `batch` of the code; they are lost when it stops.
`StartRun` is `run` up to the call of `fetchCheckins`; `FetchPage` and `FetchEnd` are
a turn of its loop with and without items; `Upsert` stores one item, in the order of
the page; `FinishRun` is the rest of `run`. `StopRun` is every error return and the
end of the process. Retries with backoff are not steps: a call takes as long as it
takes, and `Tick` may happen before it.

The remote listing is defined by its contract as the query uses it: newest first, a
place in it (`Rank`) is the number of newer items, and `offset` and `limit` cut a
page out of it. `owed`, `startedAt`, `shrunk` and `gap` are history variables; `gap`
records that some run moved the newest stored time without having seen its listing
to the end, which is when the code no longer promises anything.

### FsqStore

`raw` is `fsq_raw` of every row (the venue and everybody's name, as the item had
them), `order` the order of insertion, which is the order a scan returns rows in.
`venueRef` and `venueId` model `checkins.venue_id` and `venues.id`: ids are named
after the process that made them, and a reference also records the venue it was
meant for, so that a reference to an id that was never inserted can be told apart.
One action is one statement. `Sync4sqUsers` is `UsersBegin` (its query takes a
snapshot) and `UsersCommit` (its writes, which keep every other writer out until the
commit); when another connection committed in between (`stale`), the first write
fails and the run ends, `UsersBusy`. `Sync4sqVenues` is a query (`VenuesBegin`) and
three statements per row (`VenueSelect`, `VenueUpsert`, `VenueUpdate`), none of them
in a transaction. The pages of a run are taken as one page, and how far back it
starts is any place a run may start at; the exact place is the subject of `FsqFetch`.
The database is in WAL mode, as it is without `-disable-wal`. `GetCheckins` is the
query of the index page, and what the properties look at the tables through: a
check-in is on the page only once its venue is joined to it.

### Secrets

`mem` is `secretsManager.secrets`, `disk` is the file: absent, truncated, garbage (a
short text written over a longer one), or some secrets. A request is a handler with a
`pc`: one step is one assignment to the struct, one copy of it, or one call on the
file. `os.WriteFile` is `Truncate` and `Write`. Requests overlap in any way. A
torn read of one of its strings (two words in Go) yields the old or the new token,
since tokens of one kind have one length; from an empty field it can also be a panic,
in a loop the end of the process, which `Crash` covers. `Crash` ends the
process anywhere, `WriteFails` is a full disk. `Restart` is `Load`; a file that is
empty or not JSON is fatal (`up = "fatal"`).

Four history variables say what has happened to the secrets that the code does not
guard against, one for each thing it can cost:

| Variable | Set when | What it can cost |
|---|---|---|
| `crossed` | a save begins inside another, or an older key is set over a newer one | an older text over a newer one: a saved key is lost |
| `split` | the pair is set or saved between the two assignments of another request | a token and a secret that do not belong together |
| `mixed` | two requests had the file open when it was last truncated | a file that is no JSON |
| `cut` | a save failed or the process ended after it truncated the file; until the file is truncated again | an empty file, and a server that does not start |

No other overlap costs anything; this is what the properties say, each with the
variable it needs only. `FileIsWhole` is also explicit about the other side: after a
cut save the file *is* empty.

### Serve

`loop`, `done` and `key` are the sync loops; `server` and `requests` the HTTP
servers; `returned`, `cause` and `next` the group. The group is external: it waits
for the first actor to return, calls all interrupt functions in the order of `Add`,
and waits for every actor. A channel is made with room for one value, and sending
waits for room (`HasRoom`, the guard of `InterruptLoop`); since the group interrupts
every actor once, it never has to. `Order` is the order in which the code adds its actors. The model has a
server with an OwnTracks listener and without a metrics listener; both are HTTP
servers with the same code. `TimerWins` reads the select: its timer starts with it,
so a value already in the channel is taken first.

### Tripit

A trip is the day it ended on; `past` is TripIt's list, latest first, in pages that
count from 1. `Day` lets a trip end, `EnterLate` adds one afterwards, `Delete` removes
one. `FetchPage`, `Upsert`, `PageDone` and `LastPageDone` are the loop of `run`,
including that a page with the known trip is stored to its end. `fetchAll` is chosen
per run: the server never sets it, `tripitsync` may. Two trips that end on one day
are left out: the code's order between them is the database's choice.

### Mirror

A copy of a history that somebody else keeps changing. `Grow` and `Shrink` are the
remote service, `Begin`, `Read`, `Store`, `Complete`, `End` and `Fail` a sync. The one
promise is in the guard of `Complete`: a sync whose last page is stored has copied
what was in the history when it began, unless something was taken out meanwhile
(`torn`) or there was a hole already (`lost`). How a sync finds what is missing is not
in it. `FsqFetch` and `Tripit` instantiate it as `Sync` and state
`ImplementsMirror == Sync!Spec`: `copy` is `stored`; `history` is what Foursquare has,
or what is in TripIt's list; `page` what a page still has to be stored; `torn` and
`lost` are their history variables; `phase` is their `pc`, with the pages of a
download as one phase. A deletion, which TripIt's list and Foursquare's
both allow, is `Shrink`; a trip entered late makes a hole (`LateLoses`), a late
check-in does not, which is what the buffer is for.

### Locations

A message goes round `phone`: `due` to be sent, `sent` and waiting at the server, `ok`
or `failed` while its answer is under way, `done` or `dropped`. `HandlePublish` is the
handler: decode, insert, answer; a failed insert is a 500, a message that is no
location is answered `ok` and forgotten. `Timeout` is a phone that gives up while the
request goes on as one of `orphans`, whose insert may still be done or be cancelled
with its context (`HandleOrphan`). `LoseAnswer` and `Crash` are the other ways to
lose an answer; the phone then sends the message again.

`StartImport` to `CommitImport` are `AddGoogleTakeoutLocations`: one transaction that
inserts record by record (`pending` are the places it has inserted), with
`RejectRecord` for one the loop returns an error for. While it has written, an insert
of the server fails after the busy timeout (`Locked`). A file's rows are counted per
record (`copies`), since a second import of a file adds them again.

The readers see a time as its text: local time and then the offset (`Text`,
`TextLess`; the driver writes a `time.Time` with its zone). `LatestLocationTimestamp`
is the row whose text comes last, `RecentLocations` those between two texts. `Index` is
the index page's call of it for the days of a query, which are parsed as UTC, and
`DefaultIndex` the one without a query, from a week ago (`Window`) to now in the
server's zone; both end a day less a second later (`EndOf`). A tick stands for the
second. `Offset` is a zone with one change of the clocks.

### Startup

A process is `down`, `opened` (the integrity check passed), `migrating` or `running`.
`Begin` is the transaction's first select, which fixes what it sees of the table (`seen`);
`Skip` and `RunMigration` are the two ways round the loop of `migrate`, `Commit` its
end. The transaction is deferred: the first `RunMigration` takes the write lock
(`writer`), and is `Refuse`d when another process has it or committed since `Begin`
(`stale`); an error there ends the process. `Stop` ends one anywhere, with SQLite
rolling back. `Write` is any other write of a running command. A migration is its
number; what it does to the tables is not in the model. `oldest` says which binary
the database was last used with.

## 3. Runs

Every run takes less than three minutes on two workers.

| Run | Bounds | What it shows |
|---|---|---|
| `MCFsqFetch` | 3 check-ins, one deletable, pages of 2, buffer 3, lag 1, download 1, 5 ticks, 1 interrupted run | `RunCovers`, `BufferSuffices`, `NothingMissed`; every posted check-in is stored (`PostedIsStored`) and every run ends |
| `MCFsqFetchGap` | the same without deletions | **violated**: `CompletedRunMissesNothing` |
| `MCFsqStore` | a server and one 4sqsync, 2 check-ins, 2 venues, 1 person, 1 edit, 1 fault | references resolve; a completed run leaves nothing half done; the tables converge |
| `MCFsqStoreNames` | the server alone, no faults | **violated**: `NamesUpToDate` |
| `MCSecrets` | 2 requests at a time, 3 tokens, 2 crashes or failed writes | which overlaps and cut saves lose a key, leave a file that cannot be loaded, or part the halves of a token, and that nothing else does; a saved key is used |
| `MCSecretsTripit` | 1 request at a time, 4 tokens, no faults | **violated**: `SavedTripitStays` |
| `MCServe` | 2 loops, 2 servers, 1 request each | shutdown completes and is orderly; at most one late sync; keys are picked up |
| `MCTripit` | 5 days, pages of 2, 1 fault, 1 late entry or deletion | a run covers what was there; no hole behind the latest trip; runs end |
| `MCTripitNew` | 3 days, pages of 2, 1 fault, no late entries | **violated**: `RunFetchesNew` |
| `MCLocations` | 2 messages (a location, one that cannot be decoded), 2 files (one good, one with a bad record), days of 4 ticks, a zone at UTC with 2 ticks of summer time until tick 3, a default range of 2 ticks, 5 ticks, 1 import, 2 faults | acknowledged locations are stored, surplus rows are owed, imports are whole, text misleads by the change of the clocks at most, the index shows local days less their first and last tick as stated, locations arrive |
| `MCLocationsIndex` | a location without accuracy and a message that is none, no faults | **violated**: `IndexAnswers` |
| `MCStartup` | one old binary with 1 migration, two new with 3, 2 other writes, 2 stops | migrations whole and in order; running commands are migrated; all run in the end |

`MCFsqFetch` and `MCTripit` also check `ImplementsMirror`, the refinement.

Why the bounds are enough. `MCFsqFetch` needs two pages and an empty one while
something is posted, a late check-in, and an interrupted run followed by a complete
one; three check-ins and five ticks have all of these, and the proofs cover the
rest. In `MCFsqStore` two processes are what it takes for a busy snapshot, a double
insert of a venue and a stale venue, and two venues for a moved check-in. `MCSecrets`
needs two overlapping requests, a crash during a save, and a save after it. In
`MCServe` a signal, a failing server or both may come first. In `MCTripit` five trips
are two full pages and one that is not, and a run may stop inside a page or between
two. In `MCLocations` two faults are a time-out whose request is
still handled and a crash or lost answer after it, the import locks the table while a
message waits, and five ticks are on both sides of the change of the clocks, in
two local days, with locations at the last tick of a day, at a midnight at UTC and at
one that is not, and on both sides of the start of the default range, within the
change of the clocks of it and beyond. Offsets west of UTC are left to the proof. `MCStartup` has a stale transaction, one that
finds the lock taken, and a database older than, as old as and newer than the binary
that starts; two stops are one in each of two starts. The theorems of section 5 lift
these bounds for everything but liveness.

Provisos. Where a property holds but for something the code does not guard against,
a history variable says so. For `gap` in the two syncs (a run was cut short; in
`Tripit` also a trip entered late) the properties without the proviso are the violated
ones, `CompletedRunMissesNothing` and `RunFetchesNew`. For `shrunk` (a deletion while a
run pages) and for the four variables of `Secrets` there is no such run; what breaks
without them is said in section 2 and, for `cut`, by `FileIsWhole` itself.
`SavedTripitStays` has no proviso. Each passing property has a mutant of a mapped
definition under which its run fails.

### Disagreements found

1. A first Foursquare sync that is interrupted leaves a hole for good. It stores
   newest first, so the newest stored time is recent after one page, and later runs
   only look 24 hours behind it. The comment on the buffer says it is there "to avoid
   missing checkins" (`main_4sqimport.go:69`). `MCFsqFetchGap`.
2. `Sync4sqUsers` "ensures there are up-to-date user entries" (`sql_checkin.go:43`),
   but gives a person the name in the row inserted last, which may be an old one: a
   first sync inserts the newest check-in first. `MCFsqStoreNames`.
3. Visiting `/connect` puts a request token in the place of a saved TripIt access
   token; connecting Foursquare afterwards writes it to disk. `MCSecretsTripit`.
4. A TripIt sync without `-fetch-all` is to fetch the trips "not already fetched"
   (`main.go:485`), but after an interrupted run stops before those. `MCTripitNew`.
5. The accuracy of a location is "optional" (`owntracks_types.go:47`), and is stored as
   null when it is missing, but `RecentLocations` scans it into an `int`: the index
   page is an error for every range of days with such a row. `MCLocationsIndex`.

Two more have no violated run; a property that holds states each as what the code
does:

6. The index page is to "make it to the end of the 'to' day" (`web.go:104`), but its end
   is 24 hours less a second after the start of that day, and the comparison with it
   is strict (`sql_device_locations.go:97`): a location of the last second of the day
   is never shown. Nor is one of its first second where the server's clock is at UTC.
   `IndexShowsRange` says that exactly these are missing.
7. A save that is cut short after it truncated `secrets.json` leaves it empty, and the
   server then does not start until somebody removes the file, although `Load` takes a
   missing file for "no data yet" (`main.go:632`). `FileIsWhole`.

## 4. Fairness

Weak fairness only, and only of what the program does by itself: the loop of the
server starts runs for ever (`main.go:297`, `:356`), statements are executed, remote
calls are answered in the end, requests that have begun are carried on, timers fire.
Nobody has to post, delete, edit, send a request or a signal, run `4sqsync`, or let a
run fail. In `Secrets` a server that went down is started again. In `Locations` the
phone sends what is due and repeats what failed (OwnTracks queues what it could not
deliver), the server handles a request, and an import goes on to its end; nobody has to take a
message or start an import, and a phone may give a refused message up. In `Startup` a
command that was started goes on and one that ended is started again, by its user or
its supervisor; that they all run in the end rests on the number of writes and stops
being finite. `ShutdownCompletes`
needs that a sync returns: the code retries Foursquare for ever and does not pass the
context on, so that is an assumption about Foursquare. In `FsqFetch` the progress of
`Tick` is not assumed; a download is over within `MaxRun`, the other assumption the
code does not enforce (`FsqFetchAssumption`: lag plus download is less than the
buffer).

## 5. Proofs

Every safety property that a run checks is a theorem, proved from the named assumption
on the constants of its module alone, and so for any number of check-ins, trips,
messages, requests, actors, processes, faults and ticks. `FsqFetchAssumption` is the
one that asks something of the world: lag plus download is less than the buffer. The
others say what the constants are; that of `Secrets` says too that no file, an empty
file and a garbled one are told apart from each other and from a file with secrets.

| Module | Theorem | Statement |
|---|---|---|
| `FsqFetchProofs` | `TypeCorrect` | `SafetySpec => []TypeOK` |
| | `PagingCovers` | `SafetySpec => []RunCovers` |
| | `BufferIsEnough` | `SafetySpec => []BufferSuffices` |
| | `CompleteDownload` | `SafetySpec => []NothingMissed` |
| | `DownloadImplementsMirror` | `SafetySpec => ImplementsMirror` |
| `LocationsProofs` | `TypeCorrect` | `SafetySpec => []TypeOK` |
| | `AcknowledgedStays` | `SafetySpec => []AcknowledgedIsStored` |
| | `RowsAreOwed` | `SafetySpec => []OneRowPerLostAnswer` |
| | `ImportsAreWhole` | `SafetySpec => []ImportWhole` |
| | `LatestIsNear` | `SafetySpec => []LatestWithinShift` |
| | `IndexIsLocal` | `SafetySpec => []IndexShowsRange` |
| `StartupProofs` | `TypeCorrect` | `SafetySpec => []TypeOK` |
| | `MigratedInOrder` | `SafetySpec => []SchemaIsWhole` |
| | `RunsMigrated` | `SafetySpec => []RunningIsMigrated` |
| `TripitProofs` | `TypeCorrect` | `SafetySpec => []TypeOK` |
| | `CompleteRun` | `SafetySpec => []RunCovers` |
| | `CompleteFetchAll` | `SafetySpec => []FetchAllCovers` |
| | `StoredHasNoHole` | `SafetySpec => []NoHole` |
| | `SyncImplementsMirror` | `SafetySpec => ImplementsMirror` |
| `FsqStoreProofs` | `TypeCorrect` | `SafetySpec => []TypeOK` |
| | `VenuesAreThere` | `SafetySpec => []ReferencesResolve` |
| | `CompleteRunDenormalises` | `SafetySpec => []RunDenormalises` |
| | `CompleteRunMatchesRaw` | `SafetySpec => []RunMatchesRaw` |
| `SecretsProofs` | `TypeCorrect` | `SafetySpec => []TypeOK` |
| | `SavedAlone` | `SafetySpec => []SaveAlonePersists` |
| | `KeyIsKept` | `SafetySpec => []FsqKeyKept` |
| | `OnlyTornIsFatal` | `SafetySpec => []FileIsWhole` |
| | `PairIsWhole` | `SafetySpec => []TripitPairWhole` |
| `ServeProofs` | `TypeCorrect` | `SafetySpec => []TypeOK` |
| | `ExitIsOrderly` | `SafetySpec => []OrderlyExit` |
| | `AtMostOneLateSync` | `SafetySpec => []OneLateSync` |

**The download.** `RunCovers` is not inductive. `PagingInv` adds that a listed check-in's place is at
most grown by what others do, that everything owed is still listed, and that whatever
lies before the offset is stored or in the page being stored. `RankGrows` shows a new
check-in can only push others back; `PageSize` and `EmptyPageIsLast` are counting
arguments (a page has no more items than places, and an empty page has no listed
item behind it, since places are numbered without holes: distinct items have distinct
places below the length of the listing).

`BufferSuffices` needs `BufferInv`: what a run did not see was posted after its start
and so is at most `MaxLag` older than it; what is stored is at most `MaxRun` newer;
the sum is less than the buffer. `CompleteDownload` puts both together.

The refinement needs both for the step that ends a download, the only one whose
abstract guard says something: it is `NothingMissed` of the state after the step. Every other step maps to the step of `Mirror` of the same meaning, or to
a stutter.

**Locations.** `AcknowledgedIsStored` and `OneRowPerLostAnswer` become inductive once
an answer that is under way counts like one that arrived (`AnsweredIsStored`), and a
request nobody waits for any more counts like the row it may still add (`RowsOwed`).
`ImportWhole` rests on `TypeOK`, which says that an open transaction holds exactly the
records before its place: at the commit that is the whole file. `LatestWithinShift`
needs no history but `TypeOK`: `TextOrder` shows that when the text of one time does
not come before that of another, the first is not earlier by more than `Shift`.
For the days of a query `IndexShowsRange` needs `TypeOK` only, too. `IndexBounds` turns
the comparison of texts into one of local times with the two bounds: the last tick
before the second one is out, and at the first the offset decides. The rest is
division, also of the negative local times west of Greenwich (`DayOf`). The default range
rests on `LaterText` (a time later by more than `Shift` has the later text) and on
`NothingAhead`: no location is of the future, so none lies beyond its end.

**Start-up.** `SchemaIsWhole` does not say what an open transaction is about to
commit. `Transactions` does: one that holds the lock has seen all that is committed
and executed the next migrations without a gap (`Continues`); one that does not has
executed none, and sees the table of the last commit unless it is stale
(`OnlyReads`). SQLite's refusal of a stale transaction's first write is what takes a
transaction from the second case to the first.

**TripIt.** None of `RunCovers`, `FetchAllCovers` and `NoHole` is inductive: they speak
of a run that is over. The invariant speaks of the trips on the pages the run has
fetched, which are those of a rank below `Frontier`. Trips are added in front and only
raise the rank of the others, so unless one was deleted a trip below the frontier that
was owed has been fetched (`CoversFetched`), and a past trip that was not is behind all
that were (`NoHoleFetched`). `FetchPage` moves the frontier by one page and brings just
the trips of the ranks in between (`PageRanks`). A run ends because the frontier is
past the last trip, for which `PagesType` and `PagesSteps` count the pages of a list
(division with a remainder), or because a page had the known trip; what is behind
that one is stored by `KnownBefore`, which is `NoHole` as it was when the run began.
`Shape` bounds the page number by the number of pages and of changes. As with the
download, the refinement's only hard step is `LastPageDone`, whose guard in `Mirror` is
`RunCovers` of the state after it.

**Storing.** `RunInv` says of one process what its run has done: each row it was to do
is done, or is still to come in `snap` (`Linked` for the people, `HaveVenue` for the
venue). Other processes cannot undo that, since whatever they execute, the tables only
grow: no row, link or name goes away, a venue keeps its id, no reference is set back to
null (`DbGrows`, and `UntouchedInv` for everybody whose local variables did not change).
`ReferencesResolve` is kept with it: the foreign key holds when a reference is written,
and a venue keeps the id it was inserted with, also when a second process inserts it.
That the venue is the one of the raw item as well (`MatchesRaw`) needs that nobody else
wrote since the run began, which `alone` remembers.

**Secrets.** `AloneSaves` follows a request that had the server to itself through its
`Save`: its token is in the struct, what it copied is what the struct still holds, the
file it writes to is the one it truncated itself, and the file then equals the struct.
That is `SaveAlonePersists`. The other three properties have a part of the invariant
each, which holds while the one thing that breaks it has not happened, and allows any
other overlap. `File`: without `mixed` at most one request has the file open, and
finds it empty when it writes. `Key`: without `crossed` at most one save is under way, so
what it writes has every key that was set before, and the key on its way to "saved"
goes from the struct to the text to the file. `Pair`: without `split` at most one pair is
half set, and what is copied and written is whole.

**Life cycle.** Every actor has one place in `Order` (`OnePlace`, a counting argument:
a sequence as long as the set it maps onto repeats nothing), so the group interrupts it
once. A loop is sent one value, which stays in its channel until the loop returns with
it (`SentOnce`); the late sync is the one that begins with the value already there
(`LateOnce`), and the select after it takes the value. A server the group has
passed is closed and takes no new request, and has none left unless its `Shutdown` ran
out of time (`PassedIsClosed`). The process exits when
every actor was interrupted and has returned (`ExitedLast`).

Only model-checked: the liveness properties (`PostedIsStored`, `RunEnds` of both syncs,
`Converges`, `SavedKeyIsUsed`, `ShutdownCompletes`, `KeyIsPickedUp`, `Delivered`,
`StartsEventually`), since the prover does not reason about fairness and ENABLED. The
five violated properties are refuted by a run, and need no proof. Before it was proved
each inductive invariant was checked as an invariant of the component's run.

To repeat: `tlc -workers 2 -config MCFsqFetch.cfg MCFsqFetch.tla` for a run (the
module of a run is named in `PROJECT.json`), `tlapm FsqFetchProofs.tla` for proofs.

## 6. Not modelled

- The contents of rows, pages and messages beyond what is named above; formatting and
  logging.
- Command line, OpenID Connect and basic authentication: straight-line set-up from
  libraries, over before anything runs.
- Of the index page, the filter by accuracy, GeoJSON and the template; of the metrics,
  the counters, which nothing reads.
- The people of a check-in are fixed (links in `checkin_people` are never removed by
  the code), two trips do not end on one day, and the times of messages are near
  enough to fit 64 bits in nanoseconds.
- Two runs of the same sync at once: `FsqFetch` and `Tripit` model one run after another,
  although `4sqsync` and `tripitsync` may be run beside the server's loops. Two runs of
  the storing half are in `FsqStore`.
- How long a call of Foursquare is retried (`main_4sqimport.go:145` has no limit): section 4
  says what is assumed instead. Deletions while a run pages through the history are in
  the models, but no property promises anything for such a run.
- `-disable-wal`, the switch of a database to WAL, a failing integrity check, a
  migration that fails by itself, and errors of the disk while rows are read.

## 7. Plan

Done: all components that keep state, the abstract mirror with its two
refinements, and the proofs of every safety property and of both refinements. To do:

1. A run each for the disagreements 6 and 7, and one with a sync run from the command
   line beside the server's loop.
2. A composition of `FsqFetch`'s runs with `FsqStore`'s statements, in place of the
   arbitrary start of a run that `FsqStore` has now.
