# Verification of the Optivoy backend

This directory holds TLA+ models of the Optivoy backend (a NestJS service over
PostgreSQL and Redis that plans trips), the TLC instances that check them, and
TLAPS proofs of their main properties. The code is under `src/src`; line numbers
in `PROJECT.json` refer to it.

## 1. The system

One Node.js process serves the API, runs the timers and talks to PostgreSQL
(TypeORM), Redis, the AMAP map provider, Aliyun OSS and an optimizer service
(`docker-compose.yml`: one `api` container, `restart: unless-stopped`). Within
the process the only concurrency is interleaving at `await`: two requests, a
request and a timer, or two runs of one timer. Most state lives in PostgreSQL
and is read, held across awaits and written back.

| component | state it keeps | operations | interacts with |
|---|---|---|---|
| matrix job queue (`matrix-admin.service.ts`) | rows of `matrix_recompute_jobs`; flags `jobWorkerRunning`, `matrixJobsTableReady` | create, list, remove a job; timer: claim, process, finish | calls the precompute service with a progress callback; reads places and `transit_cache` |
| matrix status pages (same file, and the point states of `transit-cache.service.ts`) | none | state of a city, its nodes, its diagnostics, of a point | read places and `transit_cache`; what they promise is up to the planner to keep |
| transit precompute (`transit-cache-precompute.service.ts`) | snapshots of places and edges while it runs | recompute a city, recompute one point's neighbourhood | AMAP client, transit cache |
| transit cache (`transit-cache.service.ts`) | rows of `transit_cache`, one per directed edge | upsert an edge, delete the edges of places, read ready edges, count a place's edges | written by the precompute, deleted from by the place services, read by the trip planner |
| AMAP client (`amap-transit.client.ts`) | a promise chain that spaces requests, back-off state | directions, distance matrix | precompute, trip planner |
| places (`spots`, `shopping`, `hotels`, `base-place`) | rows with names, planning data, coordinates and publication | create, update, remove | delete a place's edges after saving it, empty the planner's cache |
| location import and locations (`airport-csv-import`, `locations`) | countries, regions, provinces, cities, airports | import a CSV file, delete an airport, list | deletes the edges of stale airports |
| holiday calendar (`holiday-calendar.service.ts`) | one row per date | create, update, delete, import a year, read for planning | trip planner |
| direct uploads (`uploads.service.ts`, `upload-batch-cleanup.service.ts`) | batches and items; objects in OSS | issue a credential, complete an upload, clean up | OSS, moderation |
| sessions (`auth.service.ts`, `users.service.ts`, `jwt`) | refresh-token hashes in one slot per client, JWT blacklist | login, refresh, logout, password and status changes | rate limit, status cache |
| accounts and identities (`auth.service.ts`, `users.service.ts`) | rows of users and of `user_oauth_identities`, signed link tokens | register, sign in through a provider, link a provider | sessions |
| security tokens (`auth.service.ts`) | rows of `user_security_tokens` | issue, answer, bind an address, replace a password | e-mail, rate limit |
| administrator two-factor (`admin-two-factor.service.ts`) | challenges and counters in Redis | issue, answer | e-mail, sessions |
| rate limit (`auth/rate-limit`) | counters with expiry, in memory or in Redis | consume, reset, clean up, evict | logins, codes, challenges |
| user status cache (`user-status-cache.service.ts`) | statuses with expiry in memory and in Redis | read through both layers | the guard of every protected route |
| notifications (`modules/notifications`) | rows per user; the digest's timer | create, mark as read, clean up, mail a digest at nine | e-mail |
| trip planner (`trip-planner.service.ts`, cache, optimizer client) | none beyond a response cache | check a selection, generate an itinerary, list places | transit cache, optimizer, holiday calendar |
| audit, e-mail, home, administrators, health, i18n, observability, migrations | their tables | single reads and writes | |

### Behaviours that are hard

* Work that outlives its snapshot: a recompute runs for minutes over places and
  edges read at its start, while administrators edit the places.
* Check, await, act: the worker flag, `removeJob`, upload slots, refresh tokens.
* Saves that write back stale entities (TypeORM's `save` writes every column that
  differs from the row).
* A process that dies between two statements, with no recovery pass at start.
* Calls that go on after `Promise.all` has rejected.
* Counters with limits and expiries kept in several places.
* Uniqueness that is asked by one statement and relied on by the next.
* Imports that save row by row, with and without a transaction.
* A timer that sets itself again, in a process a rejection may end.

### What makes each component correct

* Job queue: one worker per job, oldest first, each job finished once, counters
  that never exceed the work, no row lost from under its worker, nothing stuck
  but by a crash; pending jobs are eventually claimed.
* Transit cache: an edge of a place shows the place's present coordinates, or is
  being recomputed, or is one of the named races; no edge of a deleted place
  counts in a status.
* Uploads: at most `allowedCount` items per batch, one processing attempt per
  object at a time, a completed item has the object that was inspected and
  moderated unless the client or a refused request has changed that, a failed
  attempt frees its slot.
* Sessions: at most one usable refresh token per slot; a suspended user has none.
* Map provider client: requests pass one at a time and apart from each other, a
  bounded number per call, and every call ends.
* Two-factor, security tokens: a bounded number of attempts; each used once;
  what a newer token or a bound address replaces is not in force.
* Rate limit: no key admits more than its limit within a window but by a reset or
  when the store is full, which never holds more than it may.
* Status cache: a stale status is used for a bounded time.
* Accounts: accounts, addresses and identities are unique; a password the user
  chose is not replaced by the initial one.
* Notifications: one digest a morning, and every unread notification in one.
* Holiday calendar: an import that is cut off leaves a prefix of its file.
* Location import: all of a file or nothing, but for rows that others write
  meanwhile; the parser reads what was written.
* Places: what is stored passes the checks together; the page of a city promises
  nothing that the planner refuses, but for want of an airport; opening hours
  reach the solver as entered.
* Figures of an edge: each is the last the provider told, else an estimate.
* Response cache: an edit leaves no older answer in it, or for one lifetime only.
* Trip planner: hotels cover the nights once, each day starts where the day
  before ended, every leg joins its two stops, one lunch a day, no made-up times
  after a successful check.

## 2. Plan

Modules in the order in which they matter to the system. All are written and
checked; those marked "yes" have their main properties proved as well.

| order | module | composes | abstract specification or reference | proofs |
|---|---|---|---|---|
| 1 | `MatrixJobs` | extends `MatrixTally`, the arithmetic of a recompute | `JobBoard` | yes |
| 2 | `TransitCache` | places, the cache and a recompute over snapshots | | yes |
| 3 | `UploadBatch` | batch, items, bucket, moderation, cleanup | `UploadLedger` | yes |
| 4 | `UserSessions` | user row, requests, blacklist in two stores | | yes |
| 5 | `AmapTransit` | calls side by side and the chain of tickets | | yes |
| 6 | `PlannerCache` | readers, editors, expiry | | yes |
| 7 | `Itinerary` | queries, optimizer's answer, provider's answers, assembly | | yes |
| 8 | `SecurityCodes` | token rows, requests in statements, the counter of wrong answers | | yes |
| 9 | `AdminChallenges` | challenges and counters in Redis | | yes |
| 10 | `LoginLimits` | two keys per login over the memory store | windows told by a ghost | yes |
| 11 | `UserStatusCache` | two processes' memories and Redis over the row | | yes |
| 12 | `Identities` | users, identities, link tokens | | yes |
| 13 | `Notifications` | table, digest timer, cleanup, process | | yes |
| 14 | `HolidayCalendar`, `LocationImport` | imports beside edits and each other | the file put over what was there | yes |
| 15 | `Places` | rows of places, edits that cross | | yes |
| 16 | `LocationCsv` | parser, detection, filters, names | tables printed by RFC 4180 | yes |
| 17 | `CityMatrix` | the page, the point states and the planner's check | each other | yes |
| 18 | `PlanningHours`, `EdgeFigures` | hours for the solver; replies to figures to rows | the rules entered; what was last told | yes |
| 19 | `PureParts` | 16 to 18, each over inputs of its own | the references just named | yes |

`AccountParts` holds 8 to 12 side by side, `ContentParts` 6 and 13 to 15. Their
parts do not interact: a behaviour is one of the module that the variable `part`
names, while the variables of the others keep their initial values, so that one
run checks, and one module of proofs is about, all of them. `MCAccounts`
instantiates the first for TLC, `MCBackground` and `MCContent` the second, each
for some of its `Parts`; `MCContent` takes in `MCTables` too, the bounded inputs
of `PureParts`. The modules interact through what
they share with another module, which is in both: the edges of a place in
`Places`' handlers are `TransitCache`'s, the counter of a code is in
`SecurityCodes` with the loss `LoginLimits` explains, the sign-ins of
`Identities` end where `UserSessions`' logins begin.

Every safety property that a run checks and that holds is proved; what the plan
leaves to TLC is liveness.

## 3. The modules

`PROJECT.json` maps every definition to the lines it stands for. Common to all
modules: one step of a request, timer or run ends where the code awaits; a step
that follows an `await` uses what was read before it. Calls that fail do so at
most `MaxFaults` times. Unless a module says otherwise a failed database call
has not taken effect. Variables marked *ghost* or *history* in the modules are
read by properties only.

### MatrixTally, MatrixJobs, JobBoard

`MatrixTally` counts: the edges a job expects (`processMatrixJob`), the chunks of
origins one call is cut into, what a chunk adds, and the status the counts give
(`resolveMatrixJobStatus`). Points are counted, not named.

`MatrixJobs` is the table `matrix_recompute_jobs` (`rows`), the two flags of the
service, the invocations of `runPendingMatrixJob` (`pc`, and what each holds in
memory: `held`, `entity`, `refreshed`, `work`) and the administrator's requests.
`Tick` starts an invocation where the interval fires; then `ProbeAnswers`,
`FindPending`, `Claim`, `Reread`, the recompute in chunks (`ComputeChunk`,
`ReportChunk`), `Refresh`, `SaveDone` or, from the catch block, TypeORM's `save`
of the stale entity in its two statements: the SELECT (`SelectFailed`) and the
UPDATE of the columns that differ (`SaveFail`), with room for a sibling's report
between them. `upsertEdge` swallows its error and the edge is counted all the
same, so an upsert of a chunk (`Upsert`) stores some edges (ghost `cached`) and
loses others (ghost `missed`), and its report counts both.
`late` holds calls whose sibling in `Promise.all` failed: they go on with nobody
waiting and may report when the job is finished. `Crash` loses all of memory.
Jobs are numbered in the order of `createdAt`.

`JobBoard` is what the queue promises to the administrator: submitted once,
started once and oldest first, finished once, removed only then. `BoardSpec`
states that `MatrixJobs` implements it.

### TransitCache

Places (`place`), edges, administrators' requests (`editor`) and recompute runs
(`run`). An edit reads the entity, saves the columns in which it differs
(`SaveUpdate`), and then deletes the place's edges in a second statement; either
may fail, and `deletePointEdges` swallows its error. A run reads the three tables
of places one after the other, then existing edges per destination, asks the
provider, and upserts edge by edge, with a mode that got no answer copied from
the row read before. Minutes are represented by the two coordinates they were
computed from, so that "outdated" is visible; whether the provider answered or
the code estimated is `EdgeFigures`' matter. Cities are compared with their case
folded and the province is folded into the city. `markCityStale` has no callers,
and the statuses `stale` and `failed` are never written: they are left out.

### PlannerCache

`remember` with a reader under way (`Ask`, `Query` per table, `Set`), entries
with a lifetime in ticks, edits (`Commit`, then `InvalidateAll` in the
continuation). An answer is the version of each table it was read from. Airports
are a table whose edits announce nothing.

### UploadBatch, UploadLedger

A batch with its items and the objects in the bucket. A request to complete an
upload reserves an item (one transaction), heads the object, inspects it, sets
its ACL, has it moderated, and finalizes the item; every one of these may fail,
and the failure paths reject the object or release the item as the code does.
The answer to the finalizing update may be lost after it took effect. An item's
id is represented by the request that reserved it.

The credential lets the client write its keys and set their ACL as often as it
likes until the batch expires: before, during and after moderation, and also
when the item is completed (`PutObject`, `PutObjectAcl`). What the service
promises of an object is therefore about the object as a request found it:
`changed` says what the client has done to it since a request last took charge
(`Inspected`), and `CompletedIsBacked` and `UnsuitableIsRemoved` speak of
objects that are untouched since. A request on an expired batch is refused
before its key is compared with the batch's directory, and deletes the key it
names, whosever it is (`RefuseUpload`, `DeleteRefused`); `swept` names the keys
this happened to. The ACL setting modelled is `public-read`. `FailOpen` is
`moderationFailOpen`; the run has the fail-closed setting, the theorems hold for
both. `UploadLedger` is the abstract view: slots taken, given back or filled,
never more than `Allowed`, and a filled slot is final.

### UserSessions

One user: the row (status, password, one refresh slot per client), requests that
read it and act after further awaits, access tokens, and the blacklist in memory
and in Redis. A slot is held or empty. Expired entries leave the blacklist at
once. In a password reset the reading of the token and marking it used are one
step. Of the OAuth paths the one of an identity already linked is modelled.
`signedOut[c]` records how the last session of client `c` ended, and whether a
request was on its way at that moment.

### AmapTransit

`getTransitDirection` for several callers: a ticket in the chain of promises, the
wait computed when the ticket before has resolved, the request, its answer, the
retries after "QPS exceeded" with a growing pause, and the next city candidate.
Time is kept relative: what is left of a pause, and the time since the last
request ended, up to `MinInterval`. Timers may fire late. `blind` marks a ticket
that computed its wait while another request was under way.

### Itinerary

`checkMatrixCoverage` and `generateItinerary`: three queries (`ReadPoints`,
`ReadHotels`, `ReadEdges`) between which administrators edit, the optimizer's
answer (`Solve`: any sequence of days with the points of the request, any change
of hotel, possibly one unknown or repeated identifier), the legs' questions to
the provider in a map of promises (`AskDirections`, `Answer`), and the assembly
of each day (`FinishDay`) from booking segments, legs, lunch and stops. The
optimizer is an external service; its days carry consecutive dates from the
start date (day numbers here). There is one lunch hint for all days. The content
of legs, transport modes, links and texts is left out; a leg keeps whether its
row existed or its times were made up. Failures of the other queries, of the
airport and calendar lookups and of the optimizer are folded into `Refuse`. The
edges of a city are one of a few sets, and edits happen only up to the last
query, since nothing is read after it.

### SecurityCodes

The rows of `user_security_tokens`, numbered in the order of `createdAt`. Issuing
is two statements, `Invalidate` and `Insert`; an answer to a code is read and
compared (`Answer`), counted when wrong (`CountWrong`), and at the limit spends
the row and then its counter (`Spend`, `Forget`); a right one empties the counter
(`ForgetRight`) and then binds the address in a transaction (`Bind`). A password
reset finds its row by the hash, marks it used on condition, and sets the
password (`FindReset`, `Use`, `SetPassword`). `applied`, `told`, `bound` and
`older` record what the properties speak of. A counter may be lost at any time
(`DropCounter`), as `LoginLimits` says it may.

### AdminChallenges

The second step of an administrator's login: `Store`, `Mail`, and on failure
`Retract`; an answer reads the challenge (`Read`), counts (`CountWrong`), empties
the counter (`Reset`) and deletes the challenge (`Delete`), each a call to Redis
of its own that may fail. `Accept` reads the administrator's row again.

### LoginLimits

`RateLimitService.consumeLoginAttempt` over `MemoryRateLimitStore`. The `Map` is
a sequence, since its order of insertion decides what goes when it is full, and
`Kept` is what is left of it when some counters go; `Increment` looks a key up,
cleans up every `GcInterval` writes, and evicts. `window` follows each key from
the attempt that opened its window.

### UserStatusCache

Two processes with a memory each, and Redis, over a row that changes once. A
request goes from memory to Redis to the row and back (`Ask`, `RedisHit`,
`ReadRow`, `SetMemory`, `Write`); a value may be on its way for `Latency` ticks.
The bound the property states is `Grace`: a copy in Redis and a copy of that copy
live one after the other.

### Identities

Registration, sign-in through a provider and linking, for any provider profile.
Whether a name, an address or an identity is free is asked by statements of their
own; `createOAuthUser` is one transaction, linking is three statements. Unique
columns refuse. Rows of an older release may lack a password, which
`EnsurePassword` fills from the copy that was read.

### Notifications

One notification stands for the unread ones of a user. `Start` sets the digest's
timer and waits for a first cleanup; `Fire` begins a run, which probes for the
table, lists the users, reads a preview and sends (`Probe`, `List`, `Preview`,
`Send`), and sets the timer again in a `finally`. Time is `early` or `late` of a
day. A statement that fails is a rejection nobody handles
(`void this.runAndReschedule()`), and ends the process; its container starts the
next one.

### HolidayCalendar, LocationImport

`HolidayCalendar` has two administrators who create, update, delete and import;
a row is found by one statement and saved by another, and a save of a row that
is gone inserts it. An import reads the rows once and saves a day at a time with
no transaction. `Unique` is the file's `Map` by date, built entry by entry
(`Entered`) as the constructor does.

`LocationImport` is one transaction per file, row by row, with a `try` around
each row. A save of an entity that was read is a SELECT (`SelectRow`) and then
an UPDATE of the columns that differ (`UpdateRow`), or an INSERT if the row is
not there (`InsertRow`), or nothing, and no lock, if the row says so already.
Between the two another transaction may change the row, which leaves a mixture
(`Other`), or delete it, and then the UPDATE affects no row without an error.
`overtaken` holds the codes that another transaction wrote or deleted since the
SELECT of their last save, the one exception of `ImportIsWhole`. What PostgreSQL
does is external but decisive: a failed statement aborts the transaction, later
ones fail, `COMMIT` rolls back; a statement waits for a row another transaction
has written, and of two that wait for each other one fails. A region's countries
are looked for once; a missing one is inserted and refused if it has appeared
(`WriteParent`). An airport's province and city are found, renamed or created
with it (`SelectParent`). Stale airports go last, and their edges after the
commit.

### LocationCsv, CityMatrix, PlanningHours, EdgeFigures, PureParts

Pure operators. `PureParts` has their inputs as constants, the references they
are compared with and the behaviour: an input is chosen, then the result of the
operator is set beside it. `PureAssumption` says what an input is, and
`MCTables` gives TLC a bounded set of each. The row of an edge alone changes
again: a step is one more recompute of some modes with other replies, and a
ghost keeps what the provider told last of each figure.

`LocationCsv` has the parser character by character (quotes, doubled quotes and
line ends decide it), the detection of a dataset, the filters of a line, and the
names in three languages. A cell after parsing is its text and which of the
service's patterns it matches.

`CityMatrix` has the three readers of a city: the page (`CityPage`), the state of
a point (`ResolvePointMatrixStatus`), and what the planner refuses and what its
check covers (`Refusal`, `CheckMatrixCoverage`), each with filters of its own.
`generateItinerary` also refuses a city and province without an airport
(`GenerationRefusal`, `HasAirport`), which the page never asks about.
`Tally` and `ToCoverage` keep the rounding to four decimals.

`PlanningHours` has what is accepted of opening hours, a last entry and a queue
profile, how it is stored, and what the solver is told.

`EdgeFigures` has the names a city is asked by, the replies of the provider, the
retries, and how a recompute of some modes makes the row to write from the
replies, the row that was read and the estimates.

### Places

A row has the columns that a check relates to each other. An update reads the
row, merges its form, checks the whole, and saves: `Select` reads the row once
more and `Write` writes the columns that differ, or inserts the row if there was
none. What follows a save in the two caches is in `TransitCache` and
`PlannerCache`.

## 4. What the runs check

Every property has a mutant in `PROJECT.json`: a change of one mapped definition
that a plausible bug would make, under which TLC finds the property violated.

| run | what it shows |
|---|---|
| `matrix_jobs_queue` | Several invocations overlap (the flag is read before an await), yet each job has one worker, its row is there and running until the last save, and a running row without a worker comes from a crash only (`WorkersHoldTheirJobs`); the table implements `JobBoard`; pending jobs are claimed and running jobs finish unless the process dies (`JobsFinish`). |
| `matrix_jobs_progress` | A row never shows more than was handled for it, each edge stored or lost to an error that `upsertEdge` swallowed, and "completed" means that the expected edges were counted ready (`ProgressIsEarned`); counts go down only in the failure save, through failed, late and overwritten reports, one of them between the two statements of that save. |
| `transit` | An edge shows both places as they are, or a deletion is still to come, or one of the named races touched it (a deletion that failed, a process that died, a run during which the place was edited); no second row of one direction but by the same races; a run nothing disturbed leaves every edge it was to compute current, whatever it found. Places move between two cities meanwhile. |
| `transit_coordinates` | **Violated**, see below. |
| `upload_items` | The allowance is kept, and as far as the client leaves them alone, completed items are backed and unsuitable objects go (`ItemsAreBacked`), with refusals that delete a key of whatever batch; one worker per processing item, and no item is processing for ever; the items implement `UploadLedger`. |
| `user_sessions` | Revoked sessions stay revoked and disabled users hold none (`EndedSessionsStayEnded`), logged-out tokens are refused, a chosen password stays; each up to a request that was overtaken, which the properties name. |
| `amap_transit` | Windows open one at a time and in order and requests are bounded (`WindowsAndRequestsBounded`), a request whose wait was not computed blind is spaced, every call ends. |
| `amap_interval` | **Violated**, see below. |
| `itinerary` | Bookings tile the nights; types, days that join at a booked hotel, transports that join their stops, one lunch a day, no made-up legs after a successful check (`DaysHold`); each leg asked once. |
| `accounts` | A code or link takes effect once, a newer one or a bound address leaves no older one in force but by a race that is named, wrong answers are bounded; the same of challenges (`ChallengesAreSpent`); limits of logins hold until the full store drops a counter; a stale status ends; accounts and identities stay unique and whole; a chosen password is not overwritten but from a copy read before. |
| `content` | An import of the calendar leaves a prefix of its file; one of locations leaves all or nothing but for rows that another transaction overtook, and saves every row if nobody disturbs it and the database takes them; saves of places are sound; the CSV reader, the detection and the names (`ImportedFilesAreRead`); page and planner agree, and the planner refuses at most for want of an airport (`ReadyMeansUsable`); hours reach the solver as entered; a row keeps what the provider last told through any series of recomputes. |
| `background` | A cached answer misses a committed edit only if it is about to be removed or was stored by a reader that was under way, and every edit, an airport's too, is eventually in every answer and stays; one digest a morning, and a notification that stays unread comes in one once failures cease. |

Properties that follow from each other or speak of one hazard are conjunctions
(`DaysHold`, `ItemsAreBacked`, `WorkersHoldTheirJobs`, ...), whose parts have
names and theorems of their own where they are proved. In `accounts`, `content`
and `background` a property speaks of the behaviours of one part; its conjunct
`TypeOK` is that part's type invariant.

### Findings

* `transit_coordinates`: `recomputePoint` refuses a point without coordinates
  ("Point coordinates are required for recompute."), but the job reads the point
  again when its turn comes. An update to null coordinates in between makes
  `Number(null) = 0`: edges are computed from latitude 0, longitude 0 and stored
  as ready.
* `amap_interval`: the wait of a ticket is computed from the end of the last
  request, and a ticket resolves before its request is sent. A second call whose
  ticket runs while the first request is under way waits for nothing:
  `AMAP_TRANSIT_REQUEST_MIN_INTERVAL_MS` does not keep two concurrent requests
  apart.

### Observations that are not findings

No document of the repository says otherwise, so these appear only as exceptions
of properties, or not at all:

* Jobs and edges. A row left running by a crash is never taken up or removed. A
  recompute that overlaps an edit may leave outdated edges until the next one.
  The column `provider` describes the last recompute only; a new route without a
  summary keeps the summary of the old one, and "no route" keeps old minutes. A
  matrix reply the provider refuses is not asked again, only one that is thrown;
  the retries of public transport in the precompute never happen, because the
  client catches every failure (`FetchTransitDirections`). A matrix of more than
  141 places may be shown ready with one mode of one row missing, as coverages
  are rounded. The state of a point counts only rows that are there. An edge
  whose upsert failed is counted like one that was stored, so a job may be
  "completed" with rows missing.
* Uploads. An object that could not be moderated stays public. A request on an
  expired batch may delete the object of a completed item, of its own batch or of
  another. Until its batch expires a client may replace an object or change its
  ACL after the service has looked at it, also once the item is completed.
* Sessions and accounts. A login or refresh that has read the row before a status
  change stores a session after it. Two requests for a code may leave two codes
  in force. A challenge whose deletion failed after its counter was emptied may
  be answered for another round.
* Trips. On a day without points a change of hotel is shown without a transfer
  (`SequenceChained` is stated for days with points); the optimizer is sent a
  calendar of seven days and may answer a longer trip. A city that is shown
  ready and able to generate is refused if no airport of the province has a
  code. The generation warns of a missing holiday year when the dates of the
  trip have no row, even if the year was imported. A spot with a last entry and
  no hours may keep a last entry after the default closing.
* Listings. `listSpots` maps the planning columns of rows that its raw query does
  not select (opening hours, closure dates, last entry and stamina), so they come
  out empty or at their default.
* Content. A creation compares a null price as zero, an update takes it for
  unbounded. An update that races a deletion inserts the row again. Two saves
  that cross may leave a price range upside down. A CSV import in which a row
  fails answers counts of rows that were rolled back. Of two imports that cross,
  one may commit without a row of its file, which the other deleted as stale
  between the SELECT and the UPDATE of its save, or with a row of mixed columns;
  a row that was found unchanged is not locked and may go before the commit.
* Notifications. A statement that fails in a digest run or a cleanup ends the
  process.

### Bounds

| run | bounds | why they are enough |
|---|---|---|
| `matrix_jobs_queue` | 2 jobs, 2 invocations, 1 request, 1 fault, a city of one place besides the point | two of each is what the races need: two invocations for one job, a second job to be claimed out of turn, a removal against a claim; the counts are left to the next run |
| `matrix_jobs_progress` | 1 job, 1 invocation, 3 places in chunks of 2, 2 faults, the two counters of walking | a last chunk that is shorter, two calls side by side, one failing while the other goes on, and a failing report |
| `transit` | 2 places of two tables, 2 cities, 2 administrators, 1 run, 2 edits, 1 fault, 1 coordinate besides null; what is there at the start is in one city (`HomeInit`) | an edit against an edit, an edit against a run, a move to the city or away from it, and a fault in any of them |
| `upload_items` | 2 batches of 1 slot, both keys in the first one's directory; one key that any file may be stored under and one that none is; 2 requests, 2 faults | a request refused by the other's slot, two requests for one key, a lost answer followed by a retry; a request on the expired second batch that names a key of the first |
| `user_sessions` | 2 requests, 2 clients, 2 access tokens, 1 chosen password, 1 Redis failure | every pair of operations, each at every await of the other |
| `amap_transit` | 3 calls, 2 candidates, 1 retry, interval 1 | a call in its window, one delayed and one in line; a retry and a next candidate for each |
| `amap_interval` | 2 calls, 1 candidate, interval 2 | the shortest overlap of two requests |
| `transit_coordinates` | 2 places, 1 coordinate besides null | the shortest way to a null coordinate |
| `itinerary` | 3 points and 2 hotels, at most 2 points selected, 3 days, 1 edit, one unknown identifier | a hotel that changes and comes back, blank days at any place, two points a day |
| `accounts` | 2 requests; 2 users, 2 addresses, 2 codes of 2 answers; 1 challenge of 3 answers; 2 clients of 1 account, windows of 2 ticks, 2 counters, a cleanup every 3 writes; 2 processes, lifetime 2, latency 1; 2 names, 2 users, 1 identity under either address | every pair of requests at every await; a third counter for a full store of two; a copy of a copy of a status; two sign-ins of one identity, a registration against a sign-in |
| `content` | 2 administrators; 3 rows ever drawn, files of 3 and 1 days; 5 keys, 3 tables to begin with, 4 files; 1 spot, 4 forms to create and 8 to update it; the inputs of `MCTables` | a date given twice, two imports and an edit between any two saves; imports that wait for each other, and one that deletes or writes a row between another's SELECT and UPDATE; two fields checked together and set by different requests |
| `background` | 2 keys over 2 tables, 2 readers, 2 editors, 1 edit per table, lifetime 1; 2 users, 2 failures | a reader on each side of an edit, and a lifetime that ends; a run cut off before, between and after its two mails, twice |

The inputs of `MCTables`: CSV tables of up to two rows of two cells of up to
three characters; files with up to two columns missing; names in three languages
given or not; up to two rules of opening hours of two weekdays with up to two
periods; cities of two hotels, a spot and a shop with coordinates missing, and
tallies up to 141 places, the largest size at which rounding hides no row; an
edge through recomputes of every set of modes until nothing new can be reached.
The theorems about them hold for any inputs that `PureAssumption` allows.

`SYMMETRY` is used only in runs whose properties are invariants or action
properties, over sets whose members the modules never tell apart. Deadlock is
checked in every run but `accounts` and `content`: a challenge that is spent is
never drawn again, an operator has been evaluated, and the numbers of codes, users
and days that may ever be drawn are bounded, so these behaviours end.

### Fairness

* `MatrixJobs`: weak fairness of `Tick` and of an invocation's steps. The
  interval fires again and again, and a database call answers or fails; failures
  are counted by `MaxFaults`. The requests, crashes and late calls are not fair.
* `PlannerCache`, in `MCBackground` over `ContentParts`: time passes, queries
  are answered or rejected, continuations run (`InvalidateAll` is called
  synchronously after the awaited save).
* `Notifications`, in `MCBackground` as well: the container starts a process
  that ended, the clock goes on (`Nine`, `Midnight`), a due timer fires, and a
  run or cleanup goes on with what it has begun. Reading, creating and failing
  are not fair. Each condition of `PartsFairness` is about the steps of one
  part; in a behaviour of the other part such a step is never enabled.
* `UploadBatch`: a request's calls answer or fail, a batch expires, the cleanup
  timer fires. Clients are not fair.
* `AmapTransit`: time passes and a call goes on; `fetch` is aborted after
  `requestTimeoutMs`, so every request ends.
* The other modules are checked for safety only.

## 5. What is proved

All theorems are for every value of the constants under the assumption of the
module: `TallyAssumption` (modes and counters of the code, at least one origin
per chunk) and `JobsAssumption` (bounds are naturals), `TransitAssumption`,
`PlannerAssumption`, `UploadAssumption`, `SessionsAssumption`,
`AmapAssumption`, `PlannerConstants`, `CodesAssumption`, and `PartsAssumption` of
`AccountParts` and of `ContentParts`. They say that bounds are naturals, that
named values differ and that sets which are counted are finite; those of the two
compositions also that limits, lifetimes and the interval of cleanups are
positive, that a form that creates a place has its Chinese name (the DTO demands
it), that files are finite lists, and that what the rows of a file of locations
depend on is in another table than they are. TLC evaluates each in the runs of
its module.

`PureAssumption` says what an input of a pure operator is: the six characters
that the parser tells apart differ; the header of a file has published columns
of its dataset, and the code of a region is not two letters, as a country's is
(`CN-11`); a line that names places has an airport code, and the text that names
a province without a name is not empty; times of a day are minutes from 0 to
1439; of the places of a city, two with one identifier are one place, each has a
province, and of coordinates only those of its kind; rows between them have only
the modes there are; replies have figures that are naturals or missing; and
every name that a city may be asked by is one the provider can be taken to know.
Nothing bounds the length of a table, the number of rules or places, or how often
an edge is recomputed. That a city is shown ready just when each node is holds up
to 141 places, the most at which rounding to four decimals hides no row
(`Rounding`); the property says so itself.

| module | theorems | argument |
|---|---|---|
| `MatrixJobs_proofs` | `TypeCorrect`, `ExclusiveWorker`, `HeldRowStays`, `OnlyCrashStrands`, together `WorkersHold`; `QueueIsBoard`; `ProgressEarned`, `ProgressKept` | `Hold`, then `Progress` |
| `TransitCache_proofs` | edges: `TypeCorrect`, `EdgesStayCurrent`, `OneRowStays`, `UndisturbedRunRepairs` | `Current`, then `UniqueKeys`, `CleanRuns`, `NotLate` |
| | their rows: `RowsKeepAnswers` | `TablesKeepInv`; `RowFits` |
| | the page and the planner: `ReadyIsUsable` | `TablesKeepInv`; counting and rounding |
| | opening hours: `SolverIsTold` | `TablesKeepInv`; `LastRules` |
| | files of locations: `FilesAreRead` | `TablesKeepInv`; the runs of the parser |
| `UploadBatch_proofs` | `TypeCorrect`, `NoItemForgotten`; `AllowanceKept`, `UnsuitableGoes`, `CompletedStaysBacked`, together `ItemsStayBacked`; `CompletionIsFinal`, `ItemsAreLedger` | `Held`, `Judged` |
| `UserSessions_proofs` | `TypeCorrect`; `RevokedStaysRevoked`, `DisabledSignedOut`, together `EndedStaysEnded`; `LoggedOutRefused`, `ChosenStays` | `SessionInv`, `ListInv` |
| `AmapTransit_proofs` | `TypeCorrect`; `WindowsOneAtATime`, `RequestsAreBounded`, together `WindowsAndRequestsStayBounded`; `RequestsSpaced` | `AmapInv` |
| `Itinerary_proofs` | `NightsAreTiled`, `AskedOnce`; `DaysHoldTogether` | `BookingsInv`, then `TripInv` |
| `AccountParts_proofs` | codes and tokens: `TypeCorrect`, `TokensApplyOnce`, `SupersededRowsAreUsed`, `AnswersAreBounded` | `Once`, then `Seen`, `Known` and `Attempts` |
| | accounts: `AccountsStayWhole`, `ChoiceIsKept` | `IdentityInv` |
| | the status a guard believes: `StaleStatusEnds` | `GuardInv` |
| | challenges: `ChallengesStaySpent` | `Issued`, then `Rounds` |
| | login limits: `LimitsStay` | `LimitInv` |
| `ContentParts_proofs` | response cache: `TypeCorrect`, `NoEntrySurvivesAnEdit` | `IInv` |
| | places: `SavesStaySound` | `PlacesInv` |
| | notifications: `OneDigestAMorning` | `DigestInv` |
| | calendar: `ImportsArePrefixes` | `CalendarInv` |
| | locations: `ImportsStayWhole` | `ImportInv` |

The inductive invariants and why they are needed:

* `Hold`: that no two invocations hold a job does not follow from itself. One
  needs that a held row is running (so the conditional `UPDATE` refuses it to
  others), that what an invocation found is the oldest pending job as long as the
  job is pending (for `JobBoard`'s order: jobs are only appended, and claimed
  ones never return), that a request about to delete saw a finished row, that
  the entity an invocation will save was read as running, and that the status it
  is about to save is a final one. Most steps change none of these
  (`QuietKeepsHold`), which leaves the claim, the saves and the removal.
* `Progress`: what a row counts leaves room, within what was handled for it
  (`Counted`: stored or lost), for the chunks that are not reported yet; the
  entity the catch block would save counts nothing, so each column of its UPDATE
  is zero or what the row has by then; nothing was counted between the read and
  the save of a final status; and a late call, one per job, belongs to a job
  that has failed or is about to.
* `Current`: an edge is current, explained, or else about to be overwritten;
  the invariant also says what a run holds: each place and row in its memory is
  as the table has it, or the run is marked as disturbed for that place. The
  proofs of `OneRowPerDirection` and `RecomputeRepairs` add that rows have
  unique keys and that a clean run has already written what is no longer left
  to do.
* `IInv` of `PlannerCache`: a reader that was not under way when the store was
  last emptied has read only versions that are present, or whose edit has not
  been announced.
* `Held`: rows have their batch, and a row that is processing is that of the one
  request whose id it bears. `Judged` says what is known at each await of a
  request of the object it inspected, as long as the client has not touched it
  (`Assured`); what a client does only takes that away, and so does a refusal,
  which the ghosts record. `CompletedIsBacked` follows at the finalizing update.
* `SessionInv` joins `SignedOutStays`, which is inductive with the types since it
  already speaks of requests on their way, with the mark that a status change
  leaves on every client of a disabled user. `ListInv` relates both stores of
  the blacklist to the tokens whose logout has returned, and an OAuth login that
  will write the initial password to the choice that has overtaken it.
* `AmapInv`: the chain is a sequence without repetition whose members are the
  queued and delayed calls, and only its head is delayed; with it the wait that
  is left covers the rest of the interval, and a call's requests stay within the
  budget of its candidates.
* `BookingsInv`: once the optimizer has answered, the bookings are those of the
  days' maximal runs of one hotel. `DayInRun` finds the run of a day (its least
  and greatest day, by well-founded induction on the naturals from the library)
  and `RunOfDay` shows that it is the only one.
* `TripInv`: once the optimizer has answered, the plan is a trip in the hotels
  that were read, with no point twice on a day and its bookings as above; every
  day assembled so far fits the day of the plan it was made from (`DayFits`); and
  if the check promised the rows of the matrix, they are there as long as the
  request goes on with what it read. `DayIsFit` is the step: `LegsOfDay` says
  from where to where the legs of a day lead, `RowsAreThere` that none is made
  up, `EveningBooked` and `MorningBooked` which booking the ends of a day
  show, `OneLunch` where the one lunch is. The sequence is then followed as
  it is pushed: `PushTransport`, `PushStop` and `PushBreak` each keep it
  chained and count its lunches, `PushRound` composes them for one visit.

* `Once` of the codes: a row that is not used has taken no effect and is
  held by no request; one that is held is held by one request and has taken none
  yet. `SupersededIsUsed` needs `Seen` besides: a request about to insert has on
  its list every row in force that was inserted since it invalidated the others.
  `Attempts` counts: while a code is in force its counter holds what was told of
  it; once it is used, what was told and the requests that have compared but not
  counted stay together within the limit and one less than there are requests,
  since the one that spent the code is no longer among them.
* `IdentityInv`: what a request carries was true of the rows when it was read, so
  a request that goes on with a user refers to one that exists, and one that read
  a user without a password is marked once the user has chosen one. Uniqueness
  then follows from the unique columns, and wholeness from the transaction.
* `GuardInv` bounds the age of an old status in each place it may be: on its way
  from the row, in Redis, on its way from there, in a memory.
* `Issued`: a challenge belongs to the request that issues it until its token is
  sent, and only the deletion by its own request precedes an accepted login.
  `Rounds` counts the wrong answers told of a challenge: the counter, and for each
  request that has yet to delete a challenge it emptied the counter of, one round
  more. Where a deletion failed after that (`broken`) nothing is claimed.
* `LimitInv` (`Fits`): the counters have one key each, a counter's time left is
  that of its window, a window without a counter is closed and has admitted
  nothing, and a live counter says at least what its window has admitted. The
  `Map` operations are proved to keep this one by one: a cleanup takes out only
  closed windows (`CleanedFits`), an eviction closes the window it ends
  (`TailFits`), a counter finds room (`RoomFits`, `PutFits`), and an attempt is
  two such increments (`IncrementFits`).
* `PlacesInv`: what a request is to save has passed the checks as a whole, and
  what its save has read is a whole row or none; the save writes the columns that
  differ, so an uncrossed one leaves the row that was checked.
* `DigestInv`: a due timer means that nothing was mailed since nine, there is no
  timer while there is a run, and a run has left to do only users who have had
  nothing.
* `CalendarInv`: the rows have one date each, identifiers are never drawn twice,
  and while an undisturbed import goes on, the calendar is the one it found with
  the days it has come to put over it (`Made`); `Unique` gives each date of the
  file once, with its last entry (`EnteredHolds`).
* `ImportInv`: of the rows handled so far each code says what its last one says,
  unless it is overtaken or about to be written (`RowsSaved`, `Unsure`), whether
  the transaction wrote that or found it; what they depend on is there, and at the
  end the deletions (`Fit`). Once it is aborted it holds nothing, which is why a
  skipped row undoes the others. A step of somebody else changes what it sees only
  in codes that are marked as overtaken by the same step (`CrossedFits`). An
  import nobody disturbs knows every row there is for its codes (`Quiet`).

* `TablesInv` of `PureParts`: an input stays the one that was chosen and the
  result is the operator's, so a property of a pure operator is a lemma about the
  operator for every input. For an edge it is an invariant proper (`RowFits`):
  each figure of the row is the last that was told or the estimate, and its word
  the last it had, whatever recomputes came between.

What the lemmas about the operators say:

* The parser (`TableIsRead`). A printed table is pieces joined one after the
  other: lines of cells and commas, cells of characters with their quotes doubled.
  `OffsetsExist` gives each piece its place in the text, `RunsExist` the state of
  the parser after each character, and three inductions, each over the pieces of
  one kind, say where the parser is after a piece: inside quotes it has read the
  cell so far (`InsideIsRead`), after a row the cells of it with the last not yet
  ended (`RowIsRead`), after a line the cleaned rows so far. A quote that closes a
  cell is told from a doubled one by the next character, which is why each step
  carries what follows the piece. The last line may lack its end.
* Detection (`FileIsToldApart`). `ColumnIsRead` says that a column which is there
  is read from the place of its header; from that, a header of one dataset's
  columns that is taken for another dataset's lacks a column that one needs.
* Names (`NamesAreOfFile`). An import gives a name in every language, and a name
  that is given in every language hides what was stored.
* The page (`PageAgrees`, `TallyAgrees`, `PlannerAgrees`). The pairs of a set of
  places are counted, and those from a place or to it (`PairsCounted`,
  `TouchingCounted`), so a city is ready just when every row is there with every
  mode (up to 141 places a missing one shows in four decimals), a node just when
  the rows from it and to it are, and each row is one of some node. What the page
  found between all places and hotels is there between the selected and their own.
  Each check of the planner but the one for an airport asks for something the page
  has reported on.
* Hours (`HoursReachSolver`). The hours stored are those of the last rule for
  each weekday; accepted rules close at some time of the day, of those times one is
  the latest, and the last entry that is derived lies before it.
* The edge (`RemeasureHolds`). The names a city is asked by are those of its
  places, with the suffix and without, each once (`CandidatesAre`, `PlaceNames`,
  `QuestionsAre`); the reply that counts is the first that was not thrown; and the
  row made of replies, the row read and the estimates keeps `RowFits`
  (`RowIsKept`). What a report counts is then read off the row (`CountedIs`).

Recursion. `Unique` and `Kept` are recursive functions over a sequence. That such
a function exists, and what its last value is, is proved by taking the smallest
counterexample: `Smallest` (every set of naturals but the empty one has a least
element) follows from the library's `WFMin` for `<` on the naturals
(`MapsAre`, `KeptAre`, `KeptKeeps`). The visits of a day are joined by the
library's `FlattenSeq`, a recursive function within a `LET`, which is treated the
same way (`FlattenUnfolds`, `PushRounds`). For the pure operators this is stated
once: `UpTo` is induction up to a number over the *set* of the numbers that
something holds of, which takes no operator for a parameter, and `FoldsExist`
gives a function that is defined by steps in a set; the parser's runs, joined
texts and lists of names are instances of the two.

### Only model-checked

* Liveness under fairness: `JobsFinish`, `EditsAreSeen`, `ProcessingEnds`,
  `EveryCallEnds`, `DigestComes`. TLAPS handles neither weak fairness of actions
  nor `ENABLED`.

The type invariants of `PlannerCache` and `AmapTransit` are not repeated in a
run: their theorems `TypeCorrect` hold for every instance.

## 6. What is not modelled

`PROJECT.json` lists every component with its reason. In short: services that
read or write one row per request and keep nothing between requests (home,
administrators, audit); pure input and output (e-mail, health, tracing); pure
formatting and validation (filters, DTOs, texts, links and diagnostics of an
itinerary); configuration read once at start; migrations and scripts run by
hand. Within the modelled components: the settings of the bucket other than a
`public-read` ACL, the administrators' single session slot, the Redis store of
the rate limit (whose `INCR` and `EXPIRE` are Redis's), samples and sorting of
the matrix pages, the texts of a place other than its name, and the distance
between two coordinates, which is an input.
