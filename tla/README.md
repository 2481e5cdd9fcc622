# Conspectus in TLA+

Conspectus keeps a personal net-worth ledger: classes of assets, one value per
asset and month, payments, and settings, in MySQL, behind a JSON API that a
server-rendered frontend calls.  This directory specifies two kinds of its parts:
those whose correctness depends on the order of things (what concurrent requests,
several server processes, crashes and lost connections do to the database, the
caches, the pages and the importer), and those whose correctness depends on
computations with many cases (the monthly statistics; dates and time zones).
Sources are quoted relative to `src/`.

## 1. The system

| Component | State | Operations | Talks to |
|---|---|---|---|
| Migration runner, `internal/migrations/runner.go` | the schema; the `db_version` and `db_migration_state` rows; the advisory lock `conspectus_migrate` | `Run` at start-up or `migrate`, `Repair` for `migrate --repair` | MySQL, over the lock's own connection and over the pool |
| Migration files, `migrations/*.sql`, `migrations.go` | none (embedded) | `Load`, `Statements` | the runner |
| Ledger handlers and repositories, `internal/httpapi/{assets,classes,logs,payments}.go`, `internal/storage/mysql` | tables `asset_classes`, `asset_list`, `asset_log`, `payments` | POST, PATCH, DELETE, close, reopen, the batch `POST /api/v1/logs` | MySQL, one statement at a time; only the batch is a transaction |
| Settings service, `internal/settings`, `storage/mysql/settings.go`, `httpapi/settings.go` | table `settings`; in every process a write-through cache | lazy load, Get, Set, Create, SetDisplay, Delete | the basic-auth gate, the statistics and the projections card read the cache |
| Projections card, `internal/views/projections.go` | one setting that holds a list of targets | `saveTargets`, `deleteTarget` | the settings service |
| CSV importer and quick grid, `internal/importer`, import handlers of `internal/web/pages.go` | preview tokens in memory, 15 minutes; what users have on their screens | Preview, Commit; open and send the grid | the lists and the batch endpoint, over the API client |
| Frontend settings cache, `internal/web/settings.go` | settings rows for 2 s, under a mutex held over the call | refresh, Get, All | the API |
| API client, `internal/apiclient` | a memo of GETs, per page | Get, the writes | the API, in process or remote |
| Pages, `internal/web`, `internal/views` | none | a page, a table feed or a form: some calls of the API, one after another | the API client, the settings cache |
| Statistics, `internal/stats`, `SeriesRows` in `storage/mysql/logs.go` | none | series with carry-forward, returns, breakdowns, the overview's changes, the quality report, projections | the ledger tables, the settings cache |
| Dates, months, money, `internal/domain`, `httpapi/api.go` | none | `parseDate`, `rejectFuture`, `stampNow`, the range of a month, `ParseMoney` | the handlers, the statistics, the forms |
| Gates and paging, `httpapi/middleware.go`, `basicauth.go`, `domain/repos.go` | none but a same-origin secret | read-only, CSRF, basic auth, web-off, API-off; page clamps | every request |
| Start-up and wiring, `internal/app` | configuration; the storage; the listener | open, check or migrate the schema, serve, drain, close | all of the above |
| Rendering, `internal/render`, charts | none | templates | the pages |

### What is hard about it

* **The runner** is meant to survive a crash at any statement, next to other
  instances that start at the same time, on servers where `GET_LOCK` may be
  prohibited.  MySQL commits each DDL statement, the bookmark is written before
  the statement and the version after the file, and the bookmark travels on the
  pool while statements travel on the lock's connection.  Correct means: no
  statement is skipped, nothing a stamped file created is dropped again, the
  version never goes back, and the newest version is reached.
* **The ledger** has neither foreign nor unique keys.  Every rule (one entry per
  asset and month, unique names, no orphans, no silent loss of history) is a
  SELECT followed by a write in another statement; PATCH writes every column of
  a row it read four statements before; a forced asset delete is three DELETEs;
  the batch reads the snapshot of its transaction and locks rows as it goes, so
  two of them can wait for each other.
* **The settings cache** of the server loads the table outside its mutex and then
  replaces itself, writes the table outside the mutex and then itself, and is
  never refreshed, while several processes may share the table.
* **Serving.**  A page makes up to a dozen calls, one after another, while other
  clients write; its memo must make it agree with itself and die with it.  The
  frontend's settings cache does the opposite of the server's: it holds its mutex
  over the call, so that rows only move forward, and one page's slow call is every
  page's.  A failed call must neither unlearn the rows nor make them young.  The
  process must not serve on an older schema, must close its storage after the last
  request and not before, and a newer build may migrate the database under it.
* **The importer** lists assets and entries page by page by offset, checks a
  token, posts the rows and deletes the token in three separate steps; what it
  previewed, or what a grid was filled with, may be stale.
* **The statistics** read entries, payments and assets in three queries outside a
  transaction.  A month's value is the sum of every asset's latest entry; an asset
  begins with its first entry, is carried on to now while it is open and ends with
  its last row when it is closed; a payment without an entry makes a row of its
  own.  Ranges need the month before them (the baseline), years open with what the
  year before closed with, and every table is a different cut of the same series
  and has to add up to it.
* **Dates.**  A picked date is stored with the current time of day in UTC, as an
  instant; everything that reads it asks for its date and month in the app's zone;
  the statistics take the current month in UTC.  A form shows the date that was
  read and sends it back.  Near midnight and the end of a month these differ.

`PROJECT.json` lists each of these hazards at its line, with the properties that
watch it.

## 2. The modules

| Module | What it is |
|---|---|
| `Migrations` | the runner: one action per round trip to the database |
| `MigrationsProofs` | its invariants, proved |
| `MCMigrations` | the shipped files and a set of re-executable files as constants |
| `Ledger` | the ledger's handlers: one action per SQL statement of one request |
| `LedgerProofs` | its invariants and the refinement, proved |
| `LedgerPromise` | what the ledger promises, as atomic operations on a map from asset and month to value |
| `MCLedger` | a small database and seventeen requests |
| `Settings` | the settings table and the cache of each server: one action per statement or critical section |
| `SettingsProofs` | its invariants, proved |
| `MCSettings` | two keys, one with a stored value |
| `Pages` | every page, table feed and form as the list of what its handler asks for |
| `Serving` | one process from its start to its end, and the requests of `Pages` it serves |
| `ServingProofs` | its invariants, proved |
| `MCServing` | two browsers, a few requests of each kind, four configurations |
| `Dates` | picked dates, stored instants and the dates and months shown, in a zone |
| `DatesProofs` | its invariants, proved |
| `MCDates` | the nights around the first of a month, in three zones |
| `Statistics` | the queries of a statistics request and, as pure operators, what is computed from them |
| `SumsProofs` | lemmas about its sums and its passes over months, proved |
| `StatisticsProofs` | its invariants, proved |
| `MCStatistics` | five months of two years, three assets in two classes, entries of savings and of debts, six requests |
| `Importer` | CSV preview and commit and the quick grid, over an API of atomic requests |
| `ImporterProofs` | its invariants, proved |
| `MCImporter` | three assets on two pages, two entries of one asset, older or newer figures of other months, three files |

How they fit together: `Ledger` is refined to `LedgerPromise`, which is what
`Importer` takes the API for and what `Statistics` reads.  `Serving` runs the
requests of `Pages`; the settings it caches are those of the table of `Settings`,
and the schema it waits for is the one `Migrations` produces.  `Dates` is the one
place where a month is more than a name: `Ledger`, `Importer` and `Statistics`
take the month of a row as given.

### Migrations

`pc[r]` is the line of `Run`, `Repair` or `applyOne` where a process stands;
`target` and `index` are the file being applied and the `k` of `applyOne`'s
loop; `conn` tells whether the connection `acquireLock` returned is alive.  The
schema is a set of `<<table, feature>>`; a statement drops or creates a table,
adds an index or a column, or modifies a table, and `Tolerated` and `Rejected`
say which MySQL errors it meets and which of them `isAlreadyApplied` lets pass.
`done` is a history variable.  Faults are a crash at any point (`Crash`, which
also stands for a failed call through the pool that makes the function return),
a bookmark read that fails (`readState` takes it for "no bookmark"), a
`clearState` that fails (only a warning), and the loss of the lock's connection
under a process that does not notice.  The files, how many of them each binary
embeds, and whether the server grants locks are constants, so that a rolling
upgrade and a shared-hosting server are instances.

### Ledger

A request is a record that names its handler; `Program` is the list of
statements that handler issues, `client[c].todo` what is left of it.  Checks
(`Exists`, `ParentExists`, `NoOther`, `ItselfFound`, `Count`) and writes (`Insert`,
`Update`, `SetClosed`, `Delete...`) are actions of their own, as they are in the
code.  `POST /api/v1/logs` runs in a transaction: `begin` takes its snapshot `seen`
(REPEATABLE READ, the default of InnoDB), `rows` stands for the loop over the rows
posted, of which `row` is the next, and what it writes, `wrote`, locks its rows and
reaches `db` at `commit`.  A statement on a row that another transaction has
written waits, and `LockWaitFails` is the server's deadlock detection or lock
wait timeout.  `Interrupted` cuts any request short at any statement.  Updates
write all columns of the row as the handler read it, which is what loses
concurrent changes.

What a request may be is an assumption (`IsRequest`): the fields its decoder lets
through, each of its type; a new asset is open; a batch has rows, of different
assets (`handleLogsCreate` refuses others).  The database at the outset is any one
with unique keys and without orphans (`StartAssumption`).

Two history variables tell overlaps.  `client[c].scope` is what the request in
flight concerns: the rows it names, what they belong to (the asset of an entry, the
class of an asset, the name of a class), and the same of what it is to make of them;
a batch concerns, from its snapshot on, the entries that its assets have in its
month, and a write the row it inserts.  `raced` is all that two requests in flight at
the same time have both concerned, together with the rest of either's scope; it
grows when a request is sent and whenever its scope does.  The code protects its
rules only between requests that do not overlap, so `KeysAreUnique`, `NoOrphans`,
`PatchKeepsTheRest` and `BatchIsAtomic` speak of what is not raced, in a world
where other requests do race; `HistoryKept` holds whatever overlaps, and
`OneEntryPerAssetPerMonth` is the documented rule without the proviso, which
fails.

### LedgerPromise

Three variables: open assets, closed assets, and the value of each asset in each
month that has one.  `Ledger` maps to it by `open <- AssetsThat(db.asset, FALSE)`,
`closed <- AssetsThat(db.asset, TRUE)`, `entry <- Entries(db.log)`.  A batch is one
`Record`, its `Commit`; a PATCH of an entry one `Amend`; a forced delete a `Clear`
and a `Discard`, since the code does not make them one; all checks are stutters.
`KeepsPromise` is that refinement, for as long as no two requests have overlapped
on the same rows: from the first race on, the mapping (one entry per asset and
month) need not exist.

### Settings

A value is the set of amounts it lists (what `parseStoredTargets` reads), which is as
much as the properties tell apart.  `Load`, `Fetch` and `Install` are `ensureLoaded`:
the mutex is free between them, and a loaded server skips the last two.  Each write is
a store step and a cache step.  `WriteFails` is any of the four write statements
ending with an error, with or without its `Effect` on the table: the handler answers
the error and leaves its cache alone.  `FetchFails` is a load that fails, after which
this request reads built-in defaults.  `suspect` is a history variable, the
`<<server, key>>` pairs for which a write overlapped another write or a load, went
through another server, or lost its answer after it had changed the stored value.  The
basic-auth gate is modelled as configured in the settings (not in the environment), so
every request begins with a load.

### Pages and Serving

`Pages` translates each handler into the steps it takes, in order: an answer it
needs (`Must`), one it does without (`May`), the redirect of a remembered scope
(`Unless`), the settings cache (`SettingsRead`), a write through the API (`Write`)
or to the process's own storage (`OwnWrite`).  Pages that ask for the same URL
twice, such as the assets in a table and again in the scope picker, name it
twice.

`Serving` runs them.  `phase` is where the process stands between `Boot` and
`Exit`; `open`, `schema` and `config` decide at `Gate` whether it serves (`Allowed`:
a storage, a schema that is current or may be migrated); `GateFails` is a migration
or a version check that fails with the database up, perhaps after some of the
versions, and ends the process.  `tab[b]` is the request a
browser waits for: its handler's position, the memo the API client keeps for it,
and its call for the settings rows if one is in flight.  `rows`, `fetched` and
`holder` are the settings cache and its mutex: `AskRows` takes it, `ApiAnswers`
is the API reading the table meanwhile, `EndAsk` stores what came and unlocks;
`TakeRows` is a page that finds them fresh.  An answer stands for the version of
the table it was read from; `floor`, `shown`, `call`, `written` and `own` are
history.  The world stops and starts answering (`Outage`, `Recovery`), other
processes write (`OtherWrites`) and a newer build migrates (`Upgrade`).  A drain
that does not end in ten seconds (`Deadline`) closes the storage under the requests
that are left, which then fail; `Exit` and `Crash` take memory and requests along.
The loopback client of a bundled process and the remote one of a frontend differ in
what `Fails`: for the one, a closed storage too.

### Dates

Instants are hours and dates days, both from 0 in UTC; `zone` is a fixed number
of hours, chosen at the start and kept.  `Stamp` is `parseDate` and `stampNow` (the
date in UTC with the time of day of the clock in UTC), `LocalDay` and `MonthOf` what
`AppLocation` makes of an instant, `Listed` the range queries of the lists and of
`FindByAssetMonth`, `NowMonth` the current month of the statistics.  The actions are
the API's writes that carry a date, the payment form, the edit form (`OpenForm` shows
the date as read, `SaveForm` sends it back, maybe days later), and an import in
which the preview looks for entries of the picked date's month and the commit for
entries of the stored instant's.  `picked`, in a row, is history.  The clock moves on
only (`Tick`).  Requests are atomic here; their races are those of `Ledger`.

### Statistics

The state is the ledger as `SeriesRows` sees it (`log`, `paid`, `closed`) and one
`reader`, a request in the middle of its three queries (`ReadEntries`,
`ReadPayments`, `ListAssets`); `Record`, `Pay` and `SetClosed` are writes, in
whatever order the API makes them, also between the queries.  `shown` is history:
the series of everything, were it read at once, so that an action property can say
which months a write may change.

The computations are operators on what was read.  `SeriesRows(read)` is one row per
asset and month; `BuildSeries(in, S)` the points V, D, P, F of the axis for a set `S`
of assets, `Visible` the part a range shows and `Baseline` the month before it;
`Chain` the growth factors, plain and with payments credited; `Streaks`, `Extremes`,
`Drawdown` the one-pass records of `RiskFrom`, each a `Pass` over the months in their
order; `YearTable`, `GroupLast`, `Decompose`, the two `AllocationOverTime...`,
`ClassValues`, `AssetValues` and the `IncomeBy...` the tables; `Overview` the latest
month and its changes; `Quality` the report on gaps, stale assets and future rows.  A
month is `12 * year + month - 1`, money a small number, of either sign as in the code
(the value of a debt, a reversed payment), and a return an exact fraction where the
code has a float: the properties compare returns, they do not round them; `Encodes`
asks of a fraction what JSON asks of a float, that it be a number.  The properties
define what a series should be directly from the entries (`Counts`, `LatestEntry`),
without rows, snapshots or folds, and compare.

### Importer

The API is one atomic request per action here (`AssetsAfter`, `EntriesAfter`,
`Batch`); `Ledger` says what becomes of a batch's statements, and `LedgerPromise` is
what this module relies on.  Assets and entries are functions, of an asset's id and
of an entry's place in the order of writing; a page after *n* rows is the assets or
entries whose rank lies in the next `PageSize`, and a batch is one set of places
added and one taken away, which its rows being about different assets allows: a
batch that repeats an asset is rejected.  A user's call is a record: the phase it is
in, how many rows lie before the page it asks for, what it has listed and found, the
rows it will post.  `shown` is what users have on their
screens: reports stay there after their tokens have expired (`Expire`), been spent
(`Forget`) or been lost with the process (`Restart`).  `CallFails` and `AnswerLost`
are a request without and with effect.  History variables say which tokens are
`spent`, which reports are still `fresh`, which call is `clean` (nothing has changed
since it began) and which token was posted `last`.  A row's deposit and value are
one value.  The entries are those of one month, the month to which everything is
posted; what other months hold matters to the grid only, which is filled with the
latest figures of all months (`LatestValue`) while its form picks the month on its
own: when a grid is opened, assets may have figures of later months and of earlier
ones (`OtherMonths`, kept in the call as `others`), and `Standing` is what an asset
has in the month, from an earlier one if need be.  A post is dated after what is
there, so that what is written last is listed first (the code stamps the picked date,
so that a snapshot for an earlier day of the month may be listed after an entry of a
later day, and it breaks the ties within a batch by id where the model goes by row).

## 3. What is checked

| Run | Instance | What it shows |
|---|---|---|
| `migrations_shipped` | the six shipped files, two processes, one with the previous release's five files; run and repair; any starting version; three faults | `NothingSkipped`, `InOrder`, `FreshPlan`, `SchemaMatchesVersion`, `VersionOnlyAdvances` |
| `migrations_rerunnable` | three files of re-executable statements, two equal builds, with and without `GET_LOCK`, one fault and one lost connection, fairness | `EndsMigrated`: where `GET_LOCK` is granted, the newest version is reached and kept, and the schema is that of its version throughout; nothing is claimed without it |
| `migrations_stuck` | the shipped files from version 5, one process, one crash, fairness | **fails**: see finding 1 |
| `ledger_races` | two clients, seventeen different requests, any three of them, anything may overlap and be cut short; fairness | what holds of rows that are not raced (`KeysAreUnique`, `NoOrphans`, `PatchKeepsTheRest`, `BatchIsAtomic`), `HistoryKept` of all, `KeepsPromise`: the handlers implement `LedgerPromise`, and `EveryRequestAnswered`, deadlocks of batches included |
| `ledger_entries` | two clients, the requests about history | **fails**: see finding 2 |
| `settings_cache` | two servers, two clients, three requests out of eleven, any load or write of which may fail | `CacheAgrees`, `CardEditsWhatIsStored`, `RowsAppearAsAsked` |
| `statistics` | November to February and a month ahead, three possible histories, two writes, requests for all, a range, ranges that end before and after the current month, a class, an asset, in the three closed modes | `SeriesExplained`, `PartsAddUp`, `NumbersAgree`, `RiskByDefinition`, `PastIsStable` |
| `statistics_overview` | the same, one request | **fails**: see finding 3 |
| `importer` | two users, three calls, one change by others, one fault, figures of earlier or of later months | `PreviewIsExact`, `CommitWritesItsRows`, `CommitDoesWhatWasShown`, `RepeatIsHarmless`, `GridKeepsTheRest` |
| `dates` | three rows, three dates, four hours around two midnights, three zones | `DatesStayClose`, `MonthsAgree`, `ImportKeepsItsWord` |
| `dates_picked` | the same | **fails**: see finding 4 |
| `serving` | two browsers, eight requests, four configurations, any schema, one fault; fairness | `ServesWhatItMay`, `PagesAgree`, `SettingsMoveForward`, `EveryRequestEnds` |

**Bounds.**  Two processes or clients suffice for every hazard listed: each is a
pair of actors, one of which reads before and writes after a step of the other.
A third request lets a race's remains (an orphan, a second entry, a spoilt cache)
be met by an innocent request, which is why `ledger_races` and `settings_cache`
have three.  `MaxFaults` is three in `migrations_shipped` so that a resume or a
repair can itself be cut short and resumed.  The ledger starts with two assets in a
class of two, one with a payment: enough for entries to move between assets and
months onto taken and free places, and for the two opposite batches to deadlock.
`AUTO_INCREMENT` and `sent` are bounded by `MaxRequests`.

Four months over a year's end are the shortest history with an opening month, a month
to carry into, a year that begins inside a range and a month after a range; the three
assets are one with a gap, one that joins late or has a loss, and one with an entry in
the past and one to come, or none, in classes of one and two, with the name of one
repeated in the other class. Entries have a gain, a loss to below zero (a debt) and
nothing at all (an emptied portfolio), payments a receipt and its reversal and a cost,
a month has two of them on different days, and one is in a month to come. Ranges begin
at the first, second or third month, and end before or after the current one. Two
writes suffice to record out of order, to close after a payment, and to write between
two queries. In `importer` a page holds two rows of three assets and of up to four
entries, the asset with entries on the first page and another closed, the figures of
other months are all older or all newer, the cap of a batch is two rows and that of a
file five; three calls are a preview and two commits of it, and each fault or change
can come at any point of them.

In `dates` the clock stands at 23:00 UTC before the first of a month, at its
midnight, at 22:00 of that day and at 1:00 of the next: in the zones of -5 and +9
hours each side of local midnight occurs on both sides of the month's end.  Three
rows are an entry in each of two months and a payment.  Months have two or three
days: only the days next to their ends matter.

`serving` has for one browser the requests with the most steps of each kind (the
asset's page with the memo and its settings read in the middle, the overview with a
redirect, a feed without a memo, the readiness probe), for the other the page that
reads the settings twice and the three ways of writing.  The settings can change once
under the process and once by it; two requests, a tick and one fault (outage, crash,
failed migration, dead listener or expired drain) can be in any order.  The pages of
the run ask for no chart series, which are further reads like those they make;
`PagesAssumption` has the pages with series checked for their form.  The process
starts once there; that settings never go back across restarts, and everything else
said of `Serving` but `EveryRequestEnds`, is a theorem for any number of starts.

**Symmetry** permutes clients, servers or rows, which have no role of their own in
any definition, and is used in safety runs only.

**Termination.**  A bounded model stops when all requests are answered: `Quiet`
is that state's only step in `Ledger`, `Settings` and `Importer`, so that deadlock
checking stays on and still finds a request that cannot go on.  A migration process
can always be started again, statistics and forms can always be asked for.
Only `serving` runs without deadlock checking: its process may be down for good
with its starts used up.  `EveryRequestEnds` finds what could not go on before.

**Fairness.**  `Migrations`: a running process takes its next step (weak), the
server gives the lock to every waiter in turn, and a failed process is started
again by its service manager (strong, since a crash disables both time and
again).  `Ledger`: every statement is answered (weak fairness of each client's
steps), which for a statement waiting for a lock means that it gets the lock or
is failed by InnoDB's deadlock detection or `innodb_lock_wait_timeout`.
`Serving`: a handler goes on and the API answers or fails (weak), a goroutine that
waits for the cache's mutex gets it in the end (strong; `sync.Mutex` hands itself
over to a goroutine that has waited a millisecond), and a process whose storage is
closed exits (weak).  That the API answers or fails is an assumption in one case:
a frontend's client of a remote API has no timeout (`apiclient/client.go`), so an
API that accepts a connection and says nothing blocks that page, and if the call was
for the settings every other.  Nothing is assumed about requests being sent or
faults happening.  Safety runs assume no fairness.

## 4. What is proved

`MigrationsProofs` proves, for any number of processes, any files, builds,
starting versions and faults:

* `TypeCorrect`: `TypeOK`, by itself inductive: the conjuncts about `pc` say
  that a runner between `resume` and `stamp` has a file its build embeds and
  that it only executes a statement that file has.
* `NeverSkips`: `NothingSkipped`, with or without the lock.  It is not inductive:
  what protects it is what each runner knows.  The invariant adds, per runner,
  that when it is about to bookmark or execute statement *k+1* of its file, all
  that precede it are in `done`, that when it is about to stamp the whole file
  is, and that while resuming all files below its target are.  It holds without
  mutual exclusion because `done` only grows.
* `ExecutesInOrder`: `InOrder`, from the same invariant.
* `PlanStaysFresh`: `FreshPlan`.  Its invariant adds that with a working lock a
  runner past `locking` whose connection is alive is the holder, so the version
  it read cannot be moved by another.
* `SchemaKeepsUp` and `VersionAdvances`: `SchemaMatchesVersion` and
  `VersionOnlyAdvances`, for files like the shipped ones (`SafeFiles`) and when no
  connection is lost or no process repairs (`MaxLost = 0 \/ "repair" \notin
  Commands`).  Neither is inductive: a bookmark can outlive the run that wrote it,
  and a runner that has lost its connection still writes one.  The invariant
  `InStep` says that through the lock's connection a runner applies the file above
  the version or, in a repair, the version's own again, which then drops nothing;
  that what its statements so far build (`Built`) is in the schema; and the same of
  a bookmark somebody may resume from.  A bookmark is only stored once the settings
  are wide enough for it, and by then no file that is left drops a table
  (`FitsNoDrops`): that is why a resume never repeats a `DROP`, and what `SafeFiles`
  asks of the files.  With both a lost connection and a repair the two properties
  are false: from version 3, a runner without its connection bookmarks file 4 after
  another has executed file 5, which lets the bookmark in, and has crashed; a repair
  then applies file 4 again, dropping `payments` and stamping 4, over 5 if that was
  stamped before the crash (see section 5).  TLC finds either when
  `migrations_shipped` is given a lost connection, which is why it has none.

They rest on `ConstantsAssumption` (the types of the constants; bookmarks and
runners are told apart from their null values) and `SettingsAssumption` (only
file 1 drops the settings table: true of `migrations/`, and evaluated by TLC on
the shipped files, as is `SafeFiles`).  Nothing bounds the number of files,
processes or faults.

`LedgerProofs` proves, for any clients, any requests of the forms the handlers
accept, batches of any length, and any database to begin with that has unique keys
and no orphans:

* `UniqueKeys` and `NothingOrphaned`: `KeysAreUnique` and `NoOrphans`.  Both are lost
  by a write whose check has become untrue, so that the invariant must say, of each
  handler between its statements, what its checks have established and that it still
  holds, or that the thing it is about is raced: `ParentThere`, `KeyFree`, `Cleared`
  (of a DELETE after its count), `SeenCurrent` (of a batch's snapshot), `DraftCurrent`
  (of the row a PATCH has read).  Another request can only spoil these by writing a
  row that belongs to the same thing.  That it then has that thing in its scope is
  `RowsBelong` and `DraftBelongs`, and `Exclusive` is that scopes that meet are raced.
* `PatchKeepsRest`: `PatchKeepsTheRest`, from `DraftCurrent`.
* `BatchesAreAtomic`: `BatchIsAtomic`.  `WroteEntries` and `HandledRows` say what the
  transaction has written after *n* rows; `SeenCurrent` carries it to the commit.
* `HistoryIsKept`: `HistoryKept`, raced or not.  What makes it inductive is that no
  two transactions have written the same row (`Apart`), and that a row updated or
  closed late is only put where it still is.
* `Refines`: `KeepsPromise`, the implementation of `LedgerPromise`, step by step: while
  nothing is raced, entries have places of their own (`Placed`), so that each write is
  one `Record`, `Amend`, `Remove`, `Clear`, `Add`, `Close`, `Reopen` or `Discard` of
  the map, or leaves it alone.
* `TypeCorrect`.

What a request concerns is part of what had to be right for this.  An earlier
`scope` was taken from the rows as they were when the request was sent; a request for
a row that another was only about to insert then did not count as overlapping with
those that found the row later, and the invariant is not inductive.  The scope
therefore grows with the rows inserted and with a batch's snapshot.

`SettingsProofs` proves, for any servers, clients, keys, amounts, requests and
contents of the table:

* `CacheIsRight`: `CacheAgrees`, failed writes and lost answers included.  The
  invariant `PairsOK` says of every server and key that is not suspect that one
  request at most is about to change it, that this server then neither loads nor is
  passed by (`Exclusive`), and that its cache agrees with the table but between the
  two halves of that request (`CacheHolds`), as does what a load has fetched and what
  a handler is about to write (`ReadHolds`).
* `CardEditsRight` and `RowsAppearRight`: `CardEditsWhatIsStored` and
  `RowsAppearAsAsked`, from `ReadHolds`; that a POST never writes over a row needs no
  proviso, since the INSERT itself fails.
* `TypeCorrect`.

Both rest on their module's `ConstantsAssumption` (what a request is), `LedgerProofs`
on `StartAssumption` as well; TLC evaluates them in the runs.

`DatesProofs` proves, for every zone from -12 to +14 hours, any clock, any dates,
any number of rows and every calendar whose months follow one another:

* `DatesClose`: `DatesStayClose`, from two facts of arithmetic: a stamped instant
  has the picked date in UTC (`StampedDay`), and no instant's date in a zone is
  more than one day from its date in UTC (`ShownDay`).  Which side depends on the
  sign of the zone; a date that is not in the future there is stamped at most a day
  ahead of the clock (`StampedInstant`).
* `MonthsAlwaysAgree`: `MonthsAgree`, from `RangeIsMonths`: the hours between the
  first instants of two months are those whose date falls in the months between.
  That there is one entry in a month is inductive because the replaced entry, the
  one looked for and the one written are found by the same range.
* `ImportAsPreviewed`: `ImportKeepsItsWord`.  The invariant `IInv` adds to both that
  a fresh preview's word is what a new lookup would give; in UTC the month looked
  up and the month written are the same.
* `TypeCorrect`.

Its assumptions (`OffsetsAssumption`, `ClocksAssumption`, `MonthsAssumption`,
`CalendarAssumption`, `NoneAssumption`) say what zones there are, that the first
days of the months ascend, and that the calendar covers the days next to those
that may be picked.

`ServingProofs` proves, for any number of browsers, any requests, configurations,
schema versions, starts and faults:

* `PagesAlwaysAgree`: `PagesAgree`.  `RequestsOK` adds that every answer a page
  has had, but for those of its writes, is the one its memo has, and that answers
  and memo lie between the version the browser knew (`floor`) and the one stored.
* `SettingsOnlyMoveForward`: `SettingsMoveForward`.  The mutex is what makes it
  true: `Asking` says that only its holder has a call in flight, and that the
  answer to it is not older than what was shown last; `CacheOK` that the cached
  rows lie between what was shown and what is stored, and that whatever they miss
  was written after the call that brought them began.
* `ServesSafely`: `ServesWhatItMay`, by `ProcessOK`, which adds that a read-only
  process has no write in flight and an idle one no request.
* `TypeCorrect`.

It rests on `ConstantsAssumption`: what a configuration and a request is, and that
the null values are told apart.  `PagesAssumption` in `MCServing` has TLC check
that every request of `Pages` is one.

`ImporterProofs` proves, for any number of users, any files, assets and entries to
begin with, any sizes of pages, batches and files, and any number of calls, changes
and faults:

* `PreviewsAreExact`: `PreviewIsExact`.  The invariant `CleanHolds` says of a call
  that nothing has disturbed what it has read when it asks for the page after *n*
  rows: of the assets those of rank *n* at most, as they are (`FirstAssets`), of the
  entries the ids of the newest *n* (`FirstEntries`).  That the next page is exactly
  the next `PageSize` ranks is `FirstAndNext`; that an empty page means there are no
  more is `EmptyPage`, which needs that ranks have no gaps (`NextUp`, `NextDown`);
  and that as many ids as there are entries can only be found when all of them have
  been read is `AllFound`.
* `CommitsWriteTheirRows`: `CommitWritesItsRows`.  That a live token is unspent is
  `TokensHold`; that a call posts its report's rows and no bad amount is
  `CommitHolds`.  The rest is about batches: `BatchPlaces` says which entries an
  asset has after one, `BatchSpares` that those it does not write for keep theirs.
* `CommitsDoWhatWasShown`: `CommitDoesWhatWasShown`.  `FreshHolds` says of a report
  since whose preview nothing has changed that each line's action is what a new
  lookup would give; the rows created and replaced are then the lines that say so,
  and the lines add up (`LinesAddUp`).
* `RepeatsAreHarmless`: `RepeatIsHarmless`.  `LastHolds` says of the report posted
  last that the newest entry of each open asset it names has the value of its line,
  so that a second batch finds every entry (`RepeatedRow`) and writes the value it
  had (`SameValueKeeps`).
* `GridsKeepTheRest`: `GridKeepsTheRest`, for any figures of other months.  The part
  of `CleanHolds` it needs says that an undisturbed grid is what a new one would be
  filled with (`GridOf`); a row sent as the grid showed it then leaves what the asset
  has in the month as it stands, replaced or recorded anew, unless the figures were a
  later month's (`LeftStands`).
* `TypeCorrect`.

The inductive invariant is `IInv`, the conjunction of these with the types; it holds
`ShownHolds` besides, that a report's lines that will be applied have an asset's id, a
value, and a place within the cap of a file, which is what makes `Batch` well typed.
A history variable falls with what it is about: whatever changes assets or entries
empties `fresh`, and makes every call of that moment not `clean` (`Loudly`); all other
steps leave assets, entries and reports alone or add a report (`Quietly`,
`CallOutlives`).  It rests on the module's `ConstantsAssumption`, which TLC evaluates
in `importer`.

`StatisticsProofs` proves, for any assets, classes, months, entries, payments and
requests and any number of writes, also between the queries of a request:

* `Invariant`: `IInv`, which is inductive, is the types of the ledger and of what a
  request has read so far, and that the series of an answer is `Asked` of exactly
  that.  The properties but one are consequences of it: they speak of computations,
  and what is to be proved is that one computation agrees with another.
* `TypeCorrect`: `TypeOK`.  That there is one row per asset and month at most is
  `RowsAre`, which says which row that is (`RowAt`).
* `SeriesIsExplained`: `SeriesExplained`.  `CountsIs` and `SnapLatest` say that the
  months an asset is covered in and the row that counts in each are what the entries
  say, for entries and payments of either sign; `SumsCarried` makes sums of it, but
  for the months in which a closed asset is emptied (finding 5), `FlowsAddUp`
  telescopes the flows, and `GapsAre` counts the months between rows for the quality
  report.
* `PartsAlwaysAddUp`: `PartsAddUp`.  `PartsAre` and `IncomesAre` express every table as a
  sum over assets of one function, `GroupsAddUp` regroups it by class or by name,
  `IncomeIs` exchanges the sums over months and over assets, and `OpenWorth` says
  that in a series without "to" an open asset lives until its end.
* `NumbersAlwaysAgree`: `NumbersAgree`.  `BuiltIs` reduces a series to what is true of
  any series (`IsSeries`: a flow is the difference of two deposits, what a range shows
  is the end of the axis).  On it rest the agreement of a range with the whole history
  (`FromSame`, `FactorsSame`, `YearsSame`, and `ToAgrees` for ranges with an end), of a
  year with its months (`SpanAddsUp`, `YearAddsUp`) and with the year before
  (`YearsMeet`), what a year's return multiplies (`FactorsOfYear`: its own months, the
  months shown before them or those shown after them, which `NthBefore` and `NthAfter`
  tell by counting), and of the overview with the split, for a range of any length
  (`MonthChanges`, `RangeChanges`, by counting months back: `LooksBack`).
* `RecordsAreRight`: `RiskByDefinition`, for values of either sign.  For each pass there
  is an invariant of the months passed so far: the run they end with and the longest
  (`AreRuns`), the first best and worst (`IsFirst`), the highest value and the deepest
  fall from it (`IsDeepest`).  Fractions need positive denominators to be ordered, which
  `LegsAre` shows of all factors but a seed.  The pass compares each month with the
  highest value before it; that no fall from any other earlier value is deeper either
  holds where no value is negative (`DeeperFromHigher`, `NoneDeeper`), and only there:
  from 1, 2 to -10 the pass says 12/2, and 11/1 is more.
* `PastStable`: `PastIsStable`.  `KeptIf` reduces it to rows: two inputs that agree on the
  latest row of every asset up to a month have the same points up to it
  (`PointsAgree`), and a write leaves the earlier rows alone (`RecordKeeps`,
  `PayKeeps`, `CloseKeeps`).

Sums and passes are folds of the community modules, which are recursive functions
on sets chosen by `CHOOSE`.  `SumsProofs` shows that such a function exists, for sums
(`SumsAre`) and for passes in ascending order (`PassExists`), and what follows from it:
that a sum can be split, exchanged, regrouped and telescoped (`SumJoin`, `SumSwap`,
`SumGroups`, `SumTelescope`), and that what each step of a pass keeps holds at its end
(`InTheirOrder`).  Induction over the size of a set, which the library states for an
operator, is put as a search for a smallest counterexample (`Smallest`), which needs
none.  It all rests on the module's `ConstantsAssumption`, which TLC evaluates in
`statistics`.

Two properties were not quite true beyond the bounds of their run, which attempts to
prove them showed: closing an asset can change months up to an entry in the future
(`PastIsStable` now speaks of the last entry that is not), and a range that ends in the
future shows the rows it has there, which the whole history leaves out (`RangeAgrees`
now compares ranges that do not).  The run has since had entries and a range that
reach into the future.

Only model-checked, because the prover cannot reach it:

* liveness (`EventuallyMigrated`, `EndsMigrated`, `EveryRequestAnswered`,
  `EveryRequestEnds`).

The properties that finding runs check (`OneEntryPerAssetPerMonth` and the like) are
false, and stated of no theorem.

## 5. Where the code and its documents differ

1. `migrations_stuck`.  `docs/quickstart.md:73` says that migrations are resumable
   and that `--repair` resumes a half-applied file after a crash.  After a crash
   between 0006's `ADD COLUMN` and the stamp, every run and every repair repeats
   the statement, MySQL answers 1060, `isAlreadyApplied` knows 1050 and 1061 only,
   and the database stays at version 5.  0002 has the same shape.
2. `ledger_entries`.  `docs/api.md:184` says "One entry per asset per month
   (enforced)"; two overlapping batches for a new month both insert.
3. `statistics_overview`.  `docs/api.md:22` says that successes wrap the payload, in
   `data`, as its example shows.  The overview's change of the return ratio checks
   that the earlier month has deposits and divides by the latest month's as well
   (`stats/service.go:179`).  When all that was deposited has been withdrawn, the
   quotient is not a number, and `WriteJSON` (`httpapi/respond.go:28`), which has sent
   its 200 by then, drops the encoder's error: an answer without a body, on which the
   overview page fails.
4. `dates_picked`.  The comment at `httpapi/api.go:89` says that the stored entry's
   calendar date "stays exactly the picked date".  It does in UTC.  East of UTC, an
   entry recorded between local midnight and the zone's offset is shown and counted
   under the next day, and saving its form unchanged is refused as a future date;
   west of UTC, one recorded in the evening is shown under the day before, and each
   unchanged save in an evening moves it back a day more.  Around the first of a
   month that is the wrong month: an import whose preview said "create" can replace
   the neighbouring month's entry.  `DatesStayClose` and `ImportKeepsItsWord` say how
   far it can go.
5. `statistics`.  `docs/quickstart.md:128` says of an asset that is closed that
   "History stays in the wealth picture".  A month with a payment and no entry
   carries the asset's last entry unless the asset is closed by the time of the
   request (`logs.go:371`): closing it takes its value and deposit out of such a
   past month, and the next entry, also past, brings them back.  No run of its own
   fails on this: `SeriesExplained` says nothing of the total of such months
   (`Emptied`) and `PastIsStable` nothing of what closing does to them
   (`PaidOnlyMonths`).  Without `Emptied`, TLC refutes `SeriesExplained` in that run
   with an entry in November, a payment in December, an entry in January, and the
   asset closed.

Outcomes that the models contain and a document speaks of, without a run of their
own; the properties say that these are the only exceptions:

* `docs/api.md:337`: reads fall back to the default after a DELETE.  A load whose query
  precedes the DELETE and whose assignment follows it (`settings.go:157`) brings the
  value back for the life of the process (`CacheAgrees`, `suspect`);
* `docs/quickstart.md:136`: a read-only viewer still migrates the schema at start-up
  when it is configured to (`Gate` looks at `autoMigrate` alone; `ServesWhatItMay` says
  that it writes nothing for a request);
* `docs/quickstart.md:150`: in a frontend-only process the projections card reads
  and writes the process's own settings, which have no storage, so that its form
  always fails (`WriteFails`);
* `requestcache.go:12`: the settings that a page shows are said to share the page's
  memo; the cache asks for them outside the page's context, so that they come from
  its own rows only;
* `docs/api.md:513` shows a month with two entries in the quality report, which
  `SeriesRows` has merged by then: `duplicates` is always empty.

About the following no document promises anything.  Of the ledger and its
settings: an unforced delete of an asset overtaken by a batch removes an asset
that by then has history; an asset created in a class while the class is deleted
becomes an orphan; of two overlapping PATCHes of a row one is undone; a batch sent
again after a lost answer skips or replaces its entries but repeats its payments;
after a failed load the projections card replaces the stored list by what was added;
and a lost connection, then a crash, then a repair can execute `DROP TABLE
payments` again from a bookmark a stale runner left (this one needs repair and a
lost connection together, which is why the run with lost connections has `run`
only).

Of the pages and the process:

* the management page shows its settings rows from the frontend's cache and its card
  from the server's, which may differ;
* for two seconds after a change of the settings, pages show what was there before;
* `readyz` wants the schema version of its own build, so that a process goes on
  serving after a newer build has migrated while its probe fails;
* a remote API that never answers blocks a page for good, and with it, if it was
  asked for the settings, every page after it;
* pages ask for "all" rows with a limit of 1000000, which the API takes for 500.

Of the statistics and the importer:

* the chart of assets over time is keyed by name, and of two assets of one name (in
  different classes) it shows one (`breakdown.go:259`; `PartsAddUp` excludes it);
* the yearly table multiplies the factors of a year's own months only where the range
  shows the whole history and that begins with a deposit.  With a baseline it takes, for
  each month, the factor of the month shown before (`service.go:384`: leg *i - 1* where
  leg *i* belongs to visible month *i*); without one, when the first month has no
  deposits, there is no seed, every leg lies one place lower than `service.go:382`
  expects, and it takes that of the month shown next.  `FactorMonths` models it and
  `YearsAgree` states all three cases;
* where a value is negative the deepest fall is one from the highest value so far, and
  a fall from a smaller one can be the larger part of it (`RiskByDefinition`);
* a request with an explicit `to` carries no asset on (`in.To` is set only when `to`
  is empty), so its last month can differ from the same month of an open range and
  its tables of open assets from its total: `RangeAgrees` and `PartsAddUp` say where;
* a payment or entry that reaches a closed asset late extends it over the months in
  between, which is why `PastIsStable` speaks of open assets;
* a deletion between two pages of a preview hides another asset from it;
* a file of more than 500 rows to apply, or with an id twice, is previewed without
  complaint and can never be committed; the cap on rows is only looked at after a
  row that will be applied;
* a row whose asset is closed between preview and commit is neither applied nor
  counted as skipped; bad amounts block the commit in the page, not in `Commit`;
* the quick grid shows the latest figures of all months (`logs.go:313`, at most 500
  assets) and its form picks the month on its own (`import.html:67`).  With the month
  of an earlier date picked, an asset left untouched has a later month's figures
  recorded in that one, or with "replace" put over its entry there, though the page
  says "leave the rest" (`import.html:54`): `GridKeepsTheRest` excepts the assets with
  figures of later months, and nothing else;
* a grid sent with "replace" overwrites what others recorded since it was opened
  (`clean`).

## 6. Not modelled, and why

* The other statistics (means, volatility, CAGR, histograms, concentration, yields)
  are floating-point formulas over the series that `Statistics` models, and the
  projections are a Monte-Carlo simulation: nothing TLC could enumerate.
* Templates, charts, number formats, the parsing of CSV and of money, and the
  decoding of envelopes are text; what each page asks for, and in which order, is in
  `Pages`.
* The comparison of credentials, the CSRF token and the security headers keep no
  state.  Clients in `Serving` are past those gates; that the basic-auth gate loads
  the settings is in `Settings`.
* Zones have a fixed offset: on the two nights a year on which a zone changes it, an
  hour is shown twice or not at all, which no property here speaks of.
* Configuration parsing, the registry of storages and logging are sequential and
  share no state that the properties are about.  The loopback client's recorder is
  a call of the router.
* List and read endpoints change nothing and take one statement each; the clamps of
  `Pagination` are left out.
* The MySQL server is external: its DDL effects, `GET_LOCK`, row locks, snapshots
  and deadlock detection are modelled from how the code uses them.  A crash in the
  middle of an SQL statement is MySQL's business: it takes effect or it does not.

## 7. Plan

Done: `Migrations`, `Dates`, `Serving`, `Ledger`, `Settings`, `Importer` and `Statistics`
with their proofs, `Pages`, `LedgerPromise`.

1. `Dates` in zones whose offset changes.
2. `Importer` in the terms of `LedgerPromise` (`entry`, `open`, `closed`) for months
   without second entries, so that the two modules meet in one refinement.
3. The gates as a decision over requests and configurations, with credentials from
   the environment and from the settings; the clamps of `Pagination`; the splitting
   of a migration file into statements, as pure operators with their definitions.
4. `Serving` over `Settings`: the answer for the settings taken from the server's
   cache in place of the table, which adds the one's staleness to the other's.
