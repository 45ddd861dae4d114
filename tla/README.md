# Verification of the StockRadar control plane

StockRadar is a batch pipeline for Japanese equities.  GitHub Actions jobs fetch
prices, compute indicators and publish them: the bytes go to an R2 bucket, and
which bytes count is decided by rows in a Postgres control plane that the jobs
change through PL/pgSQL functions (Supabase RPCs) and REST calls.  Nothing locks
the bucket and the database together, several workflows write the same
coordinates, any job may be killed between two calls or lose the answer of one, and
a killed job is run again.  What makes the system correct is the protocol between
the jobs, the functions and the sweepers, and, in the jobs that work on files, what
an earlier run may have left.  That is what is modelled here.

Contents: 1 inventory, 2 modules, 3 runs and bounds, 4 findings, 5 proofs,
6 what is not modelled, 7 plan.

## 1. Inventory

| Component | State | Operations | Interacts with | Hard behaviour | What makes it correct |
|---|---|---|---|---|---|
| Derived generation control plane (migrations 006-011, 020, 025-029) | generations, object rows, CAS coordinates, latest staging, latest rows | begin, register, mark uploaded, stage, seal, commit, fail, purge, delete | every derived writer, sweeper, readers | commits of several writers on the same coordinates, retries of an identity, failures half way | one committed object per coordinate, always served, all-or-nothing, latest never goes back |
| In-memory double (`derived_generation.py`) | the same tables and four indexes | the same, without roll-back | tests of the writers, in threads | a method that raises keeps what it wrote; `fail_generation` takes no lock | its lookups agree with its rows; it is a catalog like the database |
| Derived writer (`write_derived_generation.py`, `derived_bus_cli.py`), series-only writer (`write_series_only_generation.py`), as-of writer (`write_web_asof_bundle.py`) | program counter, listed prior series, merged contents | Daily, backfill, reconcile, seed, repair | control plane, bucket, backfill worker | state read before a commit that may not re-check it, crash and re-run under the same identity | a committed row has its object, a commit drops no day it knew of |
| Derived sweeper (`derived_generation_sweeper.py`) | the listed rows | purge objects, delete rows | bucket, control plane | rows change between the list and the deletes | never deletes what is served |
| Supabase adapter (`supabase_metric_generation.py`) | offset and rows of a listing, chunks of a batch | list, register, mark, stage, commit | writers, control plane | a page is a query of its own, answers are lost | nothing listed twice or missed, nothing committed short |
| Backfill requests and outbox (011-016, `monthly_new_core.py`) | requests, outbox chunks, progress, links to snapshots | create, supersede, claim, reclaim, mark dispatched, finish, fail, progress | monthly commit, poller, worker | late reports of runs that lost their claim, a new canonical release under a running worker | chunks one after another, nothing closed reopened, no work lost |
| Backfill poller and worker (`mnc_dispatch_cli.py`, `mnc_worker_cli.py`) | the chunk and token a run holds, the series state it read | poll, dispatch, preclaim, drain, run-request | outbox, series-only writer, GitHub dispatch | leases that expire under a live worker, lost dispatches, retries | a date is written before it counts, a request ends |
| Monthly commit (003, 012, `monthly_bus_cli.py`) | monthly snapshots, links | stage, commit with or without backfill request, mark orphan | backfill requests, resolvers | several releases of one month, lost answers, re-runs | one canonical winner, losers linked |
| Cache bus (001, 002, `cache_bus_cli.py`) and orphan sweeper (`orphan_sweeper.py`) | cache rows, pointers, objects | put of four kinds, get, sweep | Daily, monthly, compute | a lost or late commit answer, a handler that marks an orphan whatever became of it | a pointer moves only from what was read, a get is of one put |
| Artifact bus, publish bus, run records (`artifact_bus_cli.py`, `publish_bus_cli.py`, `control_plane_cli.py`, `reconcile_stale_runs.py`, `finalize_daily_run.py`) | artifact and publish rows, runs, shared file and manifest | put, get, commit, reconcile-manifest, sweep; upsert, update, reconcile, finalise | jobs of one run, sweeper | two runs of a date share the file, attempts share the rows, operators' tools at any time | a manifest claims only commits, a success has published or had a reason not to |
| Metric registry (004, 005, `seed_metric_set.py`, `activate_metric_set_cas_cli.py`) | metric set versions, members, active set | seed, promote, activate by compare-and-set, preflight | writers | two seedings of one set, activation from an old look, a writer that reads five times | one active set, whole, and a writer writes with its catalog |
| Signed URLs (`signed_url*.py`, `mint.js`, 017, 019) | grants | mint, refresh, deny | readers, derived rows | object replaced between resolve and use, two mints of one request | one grant per request, of what was seen |
| Web as-of bundles (`assemble_web_asof.py`, `web_asof_backfill_cli.py`) | work directory with its put files, served bundles | assemble, put, backfill passes | generations, enriched CSV | a directory kept over kills, attempts and dates | a bundle is of its date and whole, "ok" means served |
| Daily price cache and archives (`yf_cache.py`, `fetch_yf_daily_for_universe.py`, `ensure_*`, `archive_*`, `restore_*`, `compute_indicators_for_core.py`) | files and manifest of a run, warm copy, exclusions | restore, ensure, archive, rotate, compute | provider, cache bus | late bars, replays, suspended codes, unreadable copies | a CSV is of its date, history never shrinks |
| Core and release resolution (`resolve_core_csv.py`, `patch_universe_daily.py`) | snapshots, patches, output | release, patch, resolve, replay | monthly commit, daily run | replays that must not know the future | no hindsight, no delisted stock |
| Monthly universe (`run_monthly.py`, `build_universe_from_jpx.py`) | workspace, staged CSVs, latest | five jobs, gate | exchange, provider | files an earlier run left half done | the released run is a partition of one list |
| Cron dispatcher and watchdog (`github-cron-dispatcher`, `cron_dispatch_watchdog.py`) | runs, reports | tick, audit, catch up | GitHub | three reads apart in time, ticks lost, late or doubled | a lost tick is not passed as covered, no catch-up after a tick |
| Event causes (`fetch_external_events_for_spikes.py`, `rank_turnover_event_causes.py`, `build_daily_event_cause_enriched_csv.py`) | events, candidates, enriched CSV | fetch, rank, build, render | news sites | runs and attempts over the files of others | news is of its date, a replay agrees |
| Name aliases (`update_kabutan_name_aliases.py`) | checkpoints, state, proposal, delta, summary | pass, resume, write | sites, operator | killed anywhere, resumed days later | nothing counted twice, a summary vouches |
| Candle descriptor (`candle_descriptor.py`) | none | labels, text | indicators | zero ranges, limits, boundaries | up side and down side agree |
| Governance, rendering, uploads, web UI, leases, entitlements | - | - | - | - | not modelled, see section 6 |

`PROJECT.json` lists every part, the ones left out with the reason, and every
hazard with the line where it bites.

## 2. Modules

| Module | Models | Proofs |
|---|---|---|
| `DerivedCatalog` | abstract: what readers are promised of the derived objects | - |
| `DerivedGeneration` | the PL/pgSQL functions of the derived generations; implements `DerivedCatalog` | `DerivedGenerationProofs` |
| `DerivedDouble` | the in-memory double of the same tables; implements `DerivedCatalog` | `StoreProofs` |
| `DerivedClient` | listing and batches of the Supabase adapter | `StoreProofs` |
| `DerivedWriters` | the writers, the bucket and the sweeper, over `DerivedGeneration` (`G == INSTANCE`) | `DerivedWritersProofs` |
| `MncRequests` | requests, links and outbox of the backfill and the monthly commit that makes them | `MncRequestsProofs` |
| `MncWorkers` | the poller, the worker runs and the seed job, over `MncRequests` (`R == INSTANCE`) | `MncWorkersProofs` |
| `CacheBus` | the four kinds of cache puts, the gets and the sweep of their rows | `BusProofs` |
| `PublishBus` | run records, artifact hand-over, publication and its sweep | `BusProofs` |
| `MetricSet` | registry, seeders, operators, writers' preflight | `RegistryProofs` |
| `Grants` | minting of signed URLs | `RegistryProofs` |
| `WebAsof` | assembly and backfill of the as-of bundles | `JobsProofs` |
| `PriceStore` | ensure jobs, archives and the compute job of a daily run | `JobsProofs` |
| `CoreSelection` | release, daily patch and the core CSV a run works on | `JobsProofs` |
| `MonthlyUniverse` | the five jobs of the monthly build | `JobsProofs` |
| `CronWatch` | the ticks and the watchdog | `JobsProofs` |
| `EventCause` | the three jobs of the event causes and the sheet | `JobsProofs` |
| `NameAliases` | the passes over the company names | `JobsProofs` |
| `CandleDescriptor` | labels and text of a bar, as operators | `JobsProofs` |
| `SheetWords` | the two jobs about words, `NameAliases` and `CandleDescriptor` | `JobsProofs` |
| `MCDerivedGeneration`, `MCDerivedWriters`, `MCMncRequests`, `MCMncWorkers`, `MCStores`, `MCJobs` | instances for TLC | - |

`MCStores` holds `DerivedDouble`, `DerivedClient`, `CacheBus`, `PublishBus`,
`MetricSet` and `Grants`; `MCJobs` the modules from `WebAsof` on.  The modules of one
instance share no state: a behaviour is about the one its first state names
(`world`), so one run checks them all without multiplying them.

### DerivedCatalog and DerivedGeneration

The catalog is one table, the holder of each coordinate: publishing a generation
takes over exactly its own coordinates in one step, and nothing else changes.

`DerivedGeneration` has one action per function; a function runs in one transaction
that locks the rows it decides on, so it is one atomic step.  `gen` is
`derived_generation_runs.status`, `obj` and `digest` the status and logical digest of
`derived_object_index` per generation and slot, `members` and `prior` the CAS
coordinates of `derived_generation_series_cas` (or the expected old digest), `sealed`
the keys behind `expected_object_set_digest`, `uploaded` and `purged` the two
timestamps, `staged` and `latest` the staging and latest tables.  A slot stands for an
object and its manifest, which the same statements always treat alike, and one metric
set and one series year are modelled: coordinates of different sets or years never
compete.  The callers are left free here: any call may come at any time with any
argument of its type, except that a writer seals the keys it has marked uploaded.

Concurrency inside a commit: a commit locks its generation and its (set, date);
the coordinates of a series_only commit are locked too, those of a Daily commit
are not.  Postgres then orders two commits on one series by the row locks of the
displacing update and, for two inserts of an absent series, by the unique index,
which aborts the second.  An aborted commit changes nothing, so the interleavings
that matter are those of whole commits.

`DerivedDouble` keeps the variables of `DerivedGeneration` and the indexes
`servedSeries`, `servedSnapshot` and `servedBundle`; a method that raises keeps what it
wrote before (a registration takes a prefix of its items), and its commit checks read
the indexes where the SQL reads the rows.  A method that writes holds the lock of the
store and is one action, but for `fail_generation`, which takes none: it finds the
generation pending (`DoubleFailCalled`, `failing`) and writes later (`DoubleFail`), with
whatever the calls of other threads have made of the generation meanwhile.  A commit in
between loses rows to it, and the indexes keep them; `overtaken` remembers those
generations.  `DoubleSafe` says the indexes match the rows of all others, and that the
double implements `DerivedCatalog` up to the first such commit.  The pool threads of
the writers only touch the bucket, so no test of the repository meets that case.

`DerivedClient` is what lies between a writer's call and the functions.  `shelf` counts
the keys other generations have committed for each series, `listing` is the loop over
pages, `server` and `batch` are a generation and the chunks a call is cut into; answers
may be lost, calls refused, the whole run repeated.  `ClientSafe`: a listing has every
series that was there when it began, and what is committed was registered and uploaded
whole.

### DerivedWriters

A workflow run writes one trade date under one identity, so it is named by its
generation; `pc` is where it is, `read` the committed objects it listed, `handled`
and `batch` the objects it has got through and is working on.  Every call to the
database or to the bucket is a step, in the order of `run_derived_generation`,
`run_series_only_generation` and `run_web_asof_bundle`: register, put, mark, and
again for the next batch, then stage, seal, commit.  `Start` takes the place of the
workflow's concurrency group.  A run may be killed between any two steps, an exception
takes it to its handler (which fails the generation; the series-only writer has none),
the answer of a commit may be lost, and a job is re-run under the same identity, also
after it ended well.  The sweeper is modelled step by step from its listing on, with
and without `--delete-orphan-rows`.

A content is, for each day, the run whose values it holds: that is what the lost
update of a day needs, and values of one identity are always the same bytes.  The
prefix delete of the sweeper takes the snapshot only, as series and deltas have keys
of another shape.  Left out: the rollout stages and the registry checks before begin
(`MetricSet` has them), the encoding of objects, the heartbeat (it moves a timestamp),
and the poll of `series_write_leases`, which never waits because nothing writes that
table.

### MncRequests and MncWorkers

`MncRequests` is one release month.  `snap` is `monthly_snapshots.status`; `cli` is
where the monthly run of a snapshot is between its calls: staged, committing, handling
an exception.  `status`, `successor` and `last` are columns of the requests, `winner`
and `loser` the rows of `request_release_links`, `row` and `token` the status and the
fencing token of an outbox row per `chunk_seq`.  `attempt_count` and `fencing_token`
start at 0 and each claim adds one to both, so one variable stands for both.

Each function of 012-016 is one action.  Time is left out: a visibility timeout may
have passed or not whenever a call looks, so expiry is a choice of `ReconcileOutbox`
and `ClaimOutbox`.  Of a caller only its token matters: a call with an old token
changes nothing, so the actions are those of calls with the current token, by whoever
holds or ever held it.  The heartbeat only moves the visibility time.  The statuses
`paused` and `dispatch_failed` and the `ohlcv_*` ones are never set by any code and
are left out.  `Progress` takes no token, as the function does not.

`MncWorkers` has the programs that make those calls.  A worker is a workflow run of a
request (`mnc-{request_id}` runs one at a time and keeps one waiting) or the seed job of
a monthly run; `at` is the call it comes to next, `mem` its claim, the date it is at,
what it has counted and the series state it read; `owner` says who took a chunk last.
Claims expire under live workers, so a worker may go on with a claim another has taken
over.  A worker may stop between any two calls, and a Daily run (`Daily`) may change the
series between its read and its write.  The series-only writer is one step here
(`DerivedWriters` has its steps), and the codes of a request move together.

### The buses, the registry and the grants

`CacheBus`: `row` is `cache_index`, `pointer` is `cache_pointers`, `store` the bucket;
`put` holds, per put, where it is, what it has seen and whether its commit is still
under way (`LateCommit`).  The concurrency groups (`daily-indicators`,
`monthly-universe-build`, `daily-universe-patch`) let one put of a kind run at a time;
gets and the sweeper (group `derived-orphan-sweep`, weekly, seven days of grace) run
beside it.  `CacheSafe` is the type, `NewBytesStay`, `GetIsOnePut` and
`MovesWhatWasRead`.

`PublishBus`: `runRow` is `runs`, `job` where each run's attempt is, `handoff` and
`index` the artifact with its row, `published`, `manifest` and `pubRow` the file, its
manifest and `publish_status`.  Two runs of a date share file and manifest, attempts of
a run share all keys and rows.  Rollout stages are those of production (PHASE3 3c,
PHASE4 4c), where a failed commit fails the job.  An attempt
starts from the top (`StartAttempt`) or from a job the earlier one got to (`Resume`,
"re-run failed jobs"); a render job run again may come to another file.  A day may turn out closed, which is a success
with the reason `market_closed`, and a run may have been dispatched with `skip_publish`,
which is a success without a file; a run that published is recorded as failed when a job
beside the publication failed (`TerminalStatus`, its argument `others`).
`reconcile-manifest` reads and puts in two steps and at any time.  Left out: a re-run of
the job that resolves the date which comes to another open date, and that csv and xlsx
are committed one after the other, each with a row (they are one file here).
`PublishSafe` is the type, `ManifestIsBacked`, `FileIsAsRecorded` and
`SuccessIsPublished`; the exceptions they name are what the code does: the handler of a
lost answer withdraws a committed row whose manifest may stand.  Not claimed, because the
code does otherwise: that the file of a committed row is still at the key the runs of the
date share, and that a stale patch spares a success that came meanwhile.

`MetricSet`: `version`, `members`, `active` are the registry; `seeder`, `operator` and
`writer` are the programs between two calls.  The history starts with an active set;
`shadow` to `draft` or `retired` has no caller; the merging of definitions is left out.
`MetricSafe` is the type, `OneActive`, `PromotedIsWhole`, `WritesItsCatalog`,
`WritesByMode` and `ReplacesWhatWasSeen`.

`Grants`: `refRow` and `bucket` change under the mints (`RowChanges`, `ObjectChanges`),
`grants` and `denials` are `download_grants`, `mint` is where each mint is.  `GrantSafe`
is the type, `OneGrant`, `UrlIsRecorded` and `DigestIsSeen`.  Left out: the refresh of a
grant whose answer is lost after it was applied (only the expiry of the grant has then
moved), and the two denials that depend on the configuration and the key alone
(`prefix_rejected`, `public_bucket_forbidden`).

### The jobs

`WebAsof`: `enriched` and `activeSet` are what the jobs find, `webGen` and `bundles` the
generation store as `DerivedGeneration` has it, `work` the directory that stays between
the runs of the backfill, `asm` the assembly, `report` its last word.  Download and
extraction are steps of their own: a call that fails leaves what was brought by then, a
kill what was extracted by then and a file that is cut off (`torn`).  `WebSafe`:
`BundleIsOfItsDate`, `BundleIsWhole`, `ReportedIsServed`.  A directory of prices that is
there is taken for a whole one; what saves the bundles is that the indices are extracted
last and no date passes without them.  Over a directory that was whole this does not
help: a price file that a kill has cut there is passed over in silence, and its code
is missing from the bundles from then on, which is the exception `BundleIsWhole` makes.
An archive that is cut off can only raise, and a disk that is full is left out.  The pre-committed list of dates and
`--skip-download`/`--skip-freeze` are left out; the put file of an assembly without
`--put` counts as done, and the property says so.

`PriceStore`: `market` is what the provider has, `disk` the files of the run, `warm` the
copy the next one restores, `ensure` and `priceRun` the jobs, `csv` the result.
`PriceSafe`: `CsvIsOfItsDate`, `FewAreLeftOut`, `ContinuedIsComputable`, `WarmKeepsBars`.

`CoreSelection`: `snap` and `coreAt` are the releases and their CSVs, `patches` the daily
patches, `builder`, `patcher` and `daily` the programs, `delistedOn` the world.
`SelectSafe`: `NoHindsight`, `PatchedIsListed`, `CommittedCsvStays`.  `BuildDays` is the
number of days a build may last: its jobs time out after hours, and a build that lasted
longer than a month could release stocks the look-back of its patches no longer sees
(`PatchedIsListed` needs it to be at most a month).  The limit of three months on replays and the GitHub fall-back of the early rollout stages are left out.

`MonthlyUniverse`: `processed`, `sets`, `bars`, `manifest`, `split`, `staged`, `latest`
are the files of the workspace, `monthRun` the job under way.  `MonthSafe`:
`LatestIsAPartition`, `StagedIsDownloaded`, `CoreIsBacked`.  The split is one step although
it reads the bars file of one code after the other: the class of a code depends on its own
file only, so a change between two reads is one before or after the step.

`CronWatch`: time is in slots of a day, `runs` is GitHub's list, `ticks` what became of
each tick, `dog` the watchdog between its three reads.  `CronSafe`:
`LostTickIsNotCovered`, `NoCatchUpAfterTick`.  A tick comes up to `Skew` early by GitHub's
clock, or as late as it may on its day; the list is one page of the newest `ListLength`
runs, so the catch-up spares only a tick that stands on the page.  With
`MNC_DISPATCH_ENABLED` not true a poller that does not run is no miss; that arm is left
out.  A watchdog that starts after midnight judges the new day, as in the code.

`EventCause`: `moment` is the time, `causeRun` the run with what it read, `causeFiles` the
workspace by date, `stagedCsv` what an earlier attempt staged, `sheet` the result.
`CauseSafe`: `NewsIsOfItsDate`, `RowsAreOfThisRun`, `ReplayAgrees`.  The first scoring, the
default weights and the XBRL and update-history signals are left out.

`NameAliases`: `namePass` is the attempt, `checkpoints`, `nameState`, `proposal`, `delta`
and `summary` its files, `config` the operator's list.  Request counts, pauses and the
media anomaly are left out; a kill after the state is written and before the checkpoint is
cleared repeats reads; a silent site counts as done.  The state file may be cut off while it is written
(`TearState`) and then reads as an empty one; one cut inside a character, and a proposal cut
off while it is written, which the operator would copy, are left out.  `NamesSafe`: `ReadForItsDate`,
`NoReadCountedTwice`, `AddedIsVouchedFor`, `SummaryVouches`.

`CandleDescriptor` is operators: the labels and the text of the latest bar of a chart; a
text has, for each filled place of the sentence, the keys whose words fill it.
Rolling range and percentile are inputs.  `CandleSafe`: `TwinsAgree`, `EveryDayHasWords`.

## 3. Runs and bounds

| Run | Shows |
|---|---|
| `dg_scenes` | seeds of two requests, one retried under a new identity, or the Daily runs of two dates and a seed, race on one series: compare-and-set, the unique indexes and the guard on latest keep the catalog (`IInv`, the invariant of the proofs, is checked here) |
| `dw_seeds` | a Daily run and a seed of an older day, or the seeds of two requests, with the sweeper, each run twice: rows and objects match, seeds keep the days of each other, a done seed is served |
| `dw_days` | Daily runs of two days, bundles written twice, or Daily, backfill and reconcile of one day: catalog for the readers, a reconcile replaces what it looked up |
| `mr_month` | two releases, two requests, runs that fail and are run again: outbox, requests and links stay consistent |
| `mnc_workers` | poller, workers and seed job with two faults: dates count only when written, claims exclude, live requests are drained |
| `stores` | the six stores of `MCStores`: `ClientSafe`, `PublishSafe`, `GrantSafe`, `DoubleSafe`, `CacheSafe`, `MetricSafe` |
| `jobs` | the eight jobs of `MCJobs`: `WebSafe`, `CauseSafe`, `WordsSafe` (`CandleSafe` and `NamesSafe`), `PriceSafe`, `CronSafe`, `SelectSafe`, `MonthSafe` |
| `dw_lost`, `dw_rerun`, `mr_same_core`, `mr_new_core`, `mw_year` | the findings of section 4 |

The properties named `...Safe` are conjunctions of the named parts, one per module, so
that a run checks all that is claimed of it; `PROJECT.json` gives for every property of
every run a change of the code's definition that violates it.

Bounds.  `MCDerivedGeneration`: `WholeBatches` lets a writer register, mark, stage and
seal its objects in one call each (a commit is refused in every state this leaves out;
partial progress is what `DerivedWriters` explores), `MaxSwept` bounds the rows purged
or deleted, and the two scenes begin two or three generations on one code, the smallest
instances in which each pair of profiles competes.  The two attempts of one request are
symmetric.  `MCDerivedWriters`: one code, two or three runs, `MaxAttempts` starts of
each: a second start is needed for every hazard of a re-run, a third repeats the second.
`MCMncRequests`: two runs of each release, chunks 0 and 1, one date, tokens up to 2 and
`Budget` 1, enough for a claim to be taken over, to fail at its budget, and for a chunk
to follow another.  `MCMncWorkers`: one request of two dates in two chunks, two faults
(`MaxFaults`); `Budget` 6 is more attempts than two faults can use up, so in that run
drained means closed.

`MCStores`: the double with two generations begun of five, the calls of a batch made for
all codes of a kind at once, one of them failed while the other has no pending rows; three series and pages of one; chunks of two of three items
and two errors; the puts of one kind at a time with two faults; two runs of a date, the
first with two attempts (from the top or resumed, closed, skipping or publishing), and two
faults, one beside both attempts and the second run; two seeders of one set, two operators and a
writer; two mints of one request and two changes of rows or objects.  The module's scenes
(`Scenes`, a state constraint) say what they leave out, always something symmetric or a
combination of programs that do not meet.  `MCJobs` bounds its jobs in the same way, with
`Steps` (an action constraint) where the order of what the world does is cut: three days
and two codes of the price store, two dates of bundles with one fault, two Tokyo days with
one watchdog and pages of two runs, three days and two releases of the selection, two monthly builds from three
lists, two runs of the event causes and a second attempt, candles over eleven prices with
limits in and out of reach, three attempts of the names.

Deadlock is not checked: every run stops when its programs have ended or a bound is met.

Fairness is assumed in `MncWorkers` only, where liveness is claimed.  `LiveIsDrained`
says that a live request is in the end closed or its chunk has failed as often as it may.
It assumes weak fairness of the poller, which Cloudflare starts again and again, and of
each worker's own step, as GitHub starts the run that waits and a run that is not killed
goes on.  Faults are not fair and are bounded by `MaxFaults`; no fairness is assumed of
the monthly run or of the Daily.

## 4. Findings

The violation runs show where the code does not do what a document or a test of the
repository says (`PROJECT.json` quotes the lines):

- `dw_lost`: Daily-like commits neither compare the series they read nor meet a lease,
  so a day seeded between the listing and the commit is overwritten.
- `dw_rerun`: begin compares the sealed set digest with the absent one the writer
  passes, so a re-run of a committed run ends in an error instead of a no-op.
- `mr_same_core`: the request id of a second release with the same core is the one of
  the first; the new winner demotes, and thereby closes, the request it reuses.
- `mr_new_core`: the successor is referenced before it is inserted.
- `mw_year`: the worker keys its series state by code while a chunk may span two years.

Smaller divergences met while modelling, visible in the actions and given no run of
their own.  `MncRequests`: `CommitLoser` and `CommitWinner` keep the link to the request
of a former winner (`ON CONFLICT DO NOTHING`, ADR-005 1.2 says the link is to the current
one); a request created `blocked` stays so when a later release makes it runnable, yet
gets an outbox row nobody can claim; the answer of a commit may be lost and the run then
marks a committed snapshot an orphan; a chunk that failed at its last attempt leaves its
request `failed_retryable` although ADR-005 says `blocked`.  `CacheBus`: after a lost
commit answer the handler marks the committed row an orphan, and the weekly sweep may
delete an object a pointer still names, which is why `NewBytesStay` is about puts that
ended well; a failed delete in R2 still deletes the row
(`docs/operations/phase3_warm_cache_supabase_cutover.md:120` says otherwise).
`CronWatch`: a Cloudflare tick that comes after the catch-up starts the job twice.
`EventCause`: a re-run attempt whose enrichment fails renders the CSV an earlier attempt
staged.  `CandleDescriptor`: the previous close is shifted before it is tested, so
`ACTION_SUSPECT` and `GAP_DOMINANT` are never issued (`docs/OHLC_desripter_v1.3.md`
lists both); on a day that touches both limits the last check, the low side's, wins.

## 5. Proofs

Eight modules hold proofs; each `...Proofs` module extends the modules it is about, and
`PROJECT.json` lists its results.  Where a property is too weak to follow from itself, an
inductive invariant adds what the code relies on without saying so; those additions are
what a reader should look at.

`DerivedGenerationProofs`, for every set of generations, codes and digests: type
correctness, one committed object per coordinate, published coordinates stay served,
commits are whole, latest rows are newest, the audit trail is kept, and the tables
implement `DerivedCatalog`.  A commit promotes whatever rows of its generation are
pending, and could publish rows of slots that are not its own; `IInv` therefore has
`RowsFit`, which ties the status of a row to the status of its generation.
`CommitEffect` gives the effect of a commit as one formula, from which uniqueness,
service and the refinement follow.  TLC checks `IInv` in `dg_scenes`.

`DerivedWritersProofs`, for any runs, attempts, kills, lost answers and sweeps: every
served row has its object, seeds keep the days of each other, a seed that says it is done
is served, a commit drops no day it had read, and writers and sweeper implement the
catalog.  `DInv` says what a run knows at each of its places and why that lasts: rows
only move forward, a digest is written once, only the run itself ends its generation, the
sweeper deletes only what can never be served again, and a seed registers what it told
begin and commits only over that prior content.

`MncRequestsProofs`, for every number of releases, requests, chunks and dates, with
failing runs: type correctness, chunks in order (and so one open chunk per request, the
unique index of 011), held chunks belong to live requests, a live request keeps an open
chunk, a completed one has every date, one winner, and closed requests stay closed; and
while no run has failed the canonical release is the one linked.  `finish` and `mark` do
not look at the status of the request; what keeps a superseded request closed is that its
rows are closed in the same transaction, that a row has a token exactly when somebody has
claimed it (`TokensFit`), and that the place after an open chunk is empty.

`MncWorkersProofs`, for any pollers and workers that die, sleep and wake: a date counted
as seeded is committed, at most one worker can report on a chunk, no date is reported
past one that is not done, and the programs call the tables only as `MncRequests` allows
(`WorkersImplementRequests`), so that what is proved of the tables holds under them.
`WInv` has the months' invariant, that a worker which does not sleep holds its chunk
(`HandsFit`, `ClaimsApart`), and that its progress was committed before it is counted.

`ClaimsExact` bounds the attempts: a chunk is claimed at most `1 + 2 * faults + dailies`
times.  `AInv` adds the account.  A row has cost its attempts beyond the first, and one
more while it waits for the next or nobody is left who could finish it; and what all this
comes to, with the workers that may still publish without their claim (`Late`), is at most
`2 * faults + dailies` (`Accounted`).  So each fault pays twice: once for the claim it
ends, once for the claim that its late writer spoils.  That a claim waits in one place
(`Placed`) and that a done chunk is left by whoever finished it (`DoneIsLeft`) says that no
claim is dropped for nothing.  The theorem assumes `OneSeries`: the runnable decisions name
one request, and the dates are of one year.  It is needed.  Without the first part TLC
finds two live requests, of a snapshot and of its decision made again, whose workers write
the same series and spoil each other's reads without any fault; without the second, a chunk
over two years spoils itself (the finding of `mw_year`).  The instance of `mnc_workers`,
where TLC checks `ClaimsAreExact`, satisfies `OneSeries`.

`BusProofs`: `RunInv` with `RunFits` gives `PublishSafe`: what each attempt knows of its rows
and objects at each of its places and of the jobs it resumes after (`AttemptFits`: a run
that is still to store a file is recorded as no success, and one whose publication is
behind it has its committed row or skips it), and what the tools have read (`ToolsFit`: the
row reconcile-manifest has read still stands but for a withdrawal); `CacheInv` with `SeenFits`, `AloneFits` and
`ReaderFits`, where the content of a row and of a pointer can be and what a put has read,
gives `CacheSafe`.  `RegistryProofs`: `MInv` and `GInv` say what seeders, operators,
writers and mints know from their earlier calls, and that it lasts; `MetricSafe` and
`GrantSafe` follow.

`StoreProofs`.  The double, for any generations and codes: its indexes agree with its rows
but for those an unlocked fail took from a committed generation, and until there is one
the last checks of a commit never fail half-way and each commit is one step of the catalog
or none (`DoubleSafe`).  The adapter, for any number of series, keys per series,
page length, chunk length, lost answers and repeats (`ClientSafe`): `ListingFits` counts
what lies before the offset; the number of listed keys before a series never shrinks, as
keys are only added, so no series of the first moment is stepped over.  `BatchFits` says
that calls come in order and the next one begins where whole chunks end.

`JobsProofs`.  `WebSafe`, for any dates and any mix of backfills and assemblies in one
directory: an attempt starts with the download of its own date's CSV, a directory with
the indices holds every code, cut or not, and a put file says "ok" after a commit only.  `CronSafe`, for any days, hours and graces: the arithmetic of
days and slots (`DivIs`, `TimesMonotone`, `CoveringIs`) shows that the watchdog passes a
lost tick as covered only by a run that can be of that tick, and starts no job whose tick
stands on the page it has read.  `SelectSafe`, for any days, stocks, builds and look-back: stored CSVs fit the
list of their build's month (`FromBuild`), patched rows drop only what had left and keep of
those that had only what the page no longer lists (`RowFits`), both stay true as days pass
and stocks leave (`FromBuildStays`, `RowFitsStays`), and the tag of a put is pending
(`BuildFits`), so the CSV of a committed release is left alone.

`MonthSafe`, for any listings, codes and runs: a stage takes the newest file of its kind,
which is of this run because a job that fails ends the run (`FilesFit`), and the pointer
moves only to a directory the run has filled and the gate has passed (`DirectoryFits`,
`LaterAreEmpty`).  `CauseSafe`, for any days, stocks and news: whatever files earlier runs
left, those of the date are written by the run before it reads them, unless it picked no
stock (`ReadingFits`); after the cutoff, what a run keeps of pages read to their end is a
function of the date and the stocks, so two such runs agree (`CleanRunsFit`).

`PriceSafe`, for any codes, days, windows, passes and thresholds: once a job has let the
run go on, each file outside the exclusions is too short, has the bar of the date or one
after it, or has none up to the date (`Computable`, in `ContinuedFits`); pruning drops the
oldest bars only and keeps that (`ZipIs`).  While the core job of a run that is no replay
is under way, a file has every bar of the warm copy that is not due to be pruned, or none
at all (`DiskHasWarm`): a full fetch reaches as far back as the archive keeps, and up to
the last bar the warm copy can have.

`NamesSafe`, for any codes, words, answers, kills and edits: a checkpoint is of one date
and one list of codes and holds only what was read for them (`ReadsFit`); a count is of a
read and of the state before it, which earlier reads paid for (`CandidateIs`, `PaidFor`);
the files are written in their order, each from the same attempt (`WritesFit`), so the
summary, which is the last, vouches for the others.

`CandleSafe`, for any prices, charts, limit tables and ranks.  The labels fall apart by the
place of the sentence they belong to (`LabelsDivided`, `PartsFit`), so a text is computed
place by place (`TextIs`), and that a chart upside down has the opposite text is a lemma for
each place (`LimitsTurned`, `WickTurned`, `DirTurned`, `WindowTurned`, `ShapeTurned`).  The
code shifts the closes back before it uses them, so the latest bar has no gap, and the
labels `ACTION_SUSPECT` and `GAP_DOMINANT` never arise in a proof.  `WordsSafe` is
`CandleSafe` and `NamesSafe`.

Assumptions.  The constants have their types, as the named `ASSUME`s say
(`TablesAssumption`, `ClientAssumption`, `WebAssumption`, `CronAssumption`,
`SelectAssumption`, `MonthAssumption`, `CauseAssumption`, `PriceAssumption`,
`NamesAssumption`, `CandleAssumption` and so on; TLC evaluates each in a run).  Beyond types: the ranks of two
snapshots differ, `feature_start` is set (for `CanonicalStaysLinked` only), a page and a
chunk have a length, a build ends within a month, the core codes are finitely many and
none is a benchmark index, prices are integers, and the widths of the limits are natural.
`ClaimsExact` alone has a hypothesis on the constants, `OneSeries`, stated in the theorem.

Model-checked only.  `LiveIsDrained` is liveness under fairness, out of the prover's
reach.  Every other property of a passing run is stated by a listed theorem.

## 6. Not modelled

- `series_write_leases` (`daily_seed_lease.py`): polled, never written by any code of the
  repository, so the wait always ends at once.
- Entitlements and preferences (026): tables with row policies and no procedure.
- Canonicalisation and fingerprints of metrics: deterministic encodings, which the models
  keep as digests.
- The floating-point indicators themselves; which codes are computed is in `PriceStore`.
- Governance and rollout checks: they read documents and budgets in CI.  The rollout
  switches are taken at the stage production runs at (3c and 4c).
- Upload, render and clean-up scripts, and the web user interface with its own presigning:
  I/O against external services and presentation.

What is left out inside a modelled part is named with its module in section 2 and in the
notes of `PROJECT.json`.

## 7. Plan

Done: the control plane and its programs, the buses, the registry, the grants and the jobs,
each checked, and proofs about all of them.  Left:

1. `MonthlyUniverse` and `CoreSelection` meet in the release; a module that composes them
   would let a build of `MonthlyUniverse` be the one `CoreSelection` releases.
