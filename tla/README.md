# Octopus Energy Japan: a model of the integration

TLA+ modules, TLC configurations and TLAPS proofs for the Home Assistant
integration in `src/custom_components/octopus_energy_japan/`. Paths below are
relative to that directory unless they start with `src/`.

## 1. Inventory

| component | state it keeps | operations | correct when |
|---|---|---|---|
| Planner (`background_sync.py`) | none | month pair, floor, chunks, daily and initial generations | the windows of a generation cover its span, each fits one query |
| Checkpoint (`background_sync.py`, `sync_store.py`) | generations, completed and failed windows, coverage, daily barriers, walks, gap attempts; persisted | register, supersede, roll, mark durable, mark failed, clear, walk and gap records | it can be loaded again; it claims nothing the ledger lacks |
| Coordinator (`coordinator.py`, `sync.py`) | loaded supply points, queue, worker task, cadence marks, mutation lock, statistics marks | poll, schedule, worker, history button, start, shutdown, resume | every planned window is settled in the end; nothing is lost between poll, worker and restart |
| Retry controller (`sync_runtime.py`) | attempts and not-before instants per scope, one entry-wide barrier | take, fail, defer, resolve, prune | nothing ready is starved, nothing held is asked |
| Statistics (`statistics_runtime.py`, `statistics.py`, marks in `coordinator.py`) | marks, baselines, fingerprints | mark, project, reprice, reset | what is published is what a pass over the whole ledger would publish |
| Ledger (`ledger.py`, `ledger_store.py`) | versioned intervals in monthly partitions | reconcile, flush, quarantine | a newer answer is never overwritten by an older one |
| Tariff archive (`tariff_history.py`, `tariff_history_store.py`) | observed rates | observe, merge, flush | no write drops a window; a file found damaged is left alone |
| Costs (`aggregation.py`, `billing_period.py`, `tariff_cost.py`, `api/tou.py`) | none | pure functions | agree with their definition on every boundary |
| Transport (`api/client.py`, `api/auth.py`, `api/rate_limit.py`, `password_auth.py`, `oauth.py`, `api/device_auth.py`) | access token, renewal in flight | renew, retry once, classify errors | one renewal at a time; the user is asked only when what the session signs in with is refused |
| Readings (`api/readings.py`, `api/models.py`) | remembered route | query with fallback, page through | a page is neither skipped nor repeated |
| Commercial coordinator (`commercial_coordinator.py`) | last commercial snapshot | poll | one failing part does not discard the others |
| Entry setup (`__init__.py`) | runtime objects of an entry | set up, unload, migrate, reauthenticate | a half-done setup is undone |
| Config flow, presentation, probe | - | forms, entities, developer tools | - |

How they interact. Home Assistant calls the **poll** every half hour. Under
`_mutation_lock` the poll refreshes discovery when it is a day old and reads
the last 72 hours of each direction; it loads checkpoints outside the lock.
At its end it **schedules**: it rolls the month pair, plans, saves the
checkpoint and rebuilds the queue. The **worker** is one asyncio task: it pops
the best ready item, asks the provider *without* the lock, then takes the lock
to reconcile, flush the ledger, mark the checkpoint and save it. The two share
the queue, the checkpoint and the ledger, and meet only at the lock. The
**history button** starts a walk backwards; the daily **gap scan** asks again
for holes. Shutdown cancels the worker, a restart rebuilds everything from disk.

What is hard: the answer of a request is applied to a checkpoint that the poll
re-planned while it was in flight; flush and save are two writes with a crash
or an `OSError` between them; the same scope can be in flight and in the queue
at once; failures, backoffs and refusals have to leave work that somebody
resumes. `PROJECT.json` lists each such hazard at its line.

Requests travel down: both tasks ask the **reading router**, which asks one of
two GraphQL models page by page through the one **authenticated client**; what
an error means is decided once (`api/errors.py`) and read again by each layer
above. Answers travel up: from the router into the **ledger**, from the ledger
into the **statistics**, priced with what the **commercial coordinator** read
and the **tariff archive** remembers.

## 2. Modules

| module | models |
|---|---|
| `SyncPlan` | the calendar and the planner of `background_sync.py` |
| `SyncCheckpoint` | the `SyncCheckpoint` record and every method deriving the next one |
| `BackgroundSync` | poll, scheduler, worker, button and lifecycle of `coordinator.py` over that record |
| `DurableCoverage` | abstract specification: what the synchronization promises |
| `SyncPacing` | the error tables of `coordinator.py`, the exact retry controller, direction statuses, the completeness of calendar periods |
| `IntervalLedger` | the ledger of one direction over its stores: request, answer, reconcile, debounce, flush, crash, damage, load |
| `ApiErrors` | what a failed request is taken for |
| `ReadingRoute` | one request for readings: fallback, series, pagination |
| `LoginSession` | one login: requests, renewal, setup, reload, and the user's flow |
| `TariffQuery` | the choice of an agreement, its parsing, time-of-use bands |
| `TariffCost` | billing periods, adders, the price of every hour |
| `TariffArchive` | the commercial refresh and the archive of adders over them |
| `StatisticsProjector` | one pass of `statistics_runtime.py` over the ledger: what it reads, clears, publishes and remembers |
| `StatisticsMarks` | the marks of `coordinator.py` (`_statistics_pending`) and everything that sets, serves or loses one |
| `MCBackgroundSync`, `MCSyncPacing`, `MCIntervalLedger`, `MCReadingRoute`, `MCTariffArchive` | instances for TLC |
| `BackgroundSync_proofs` | what each checkpoint operation preserves, the synchronization's invariant, the refinement, and its plans, refills and walks, proved |
| `Sums_proofs` | lemmas about sums over finite sets, for the two modules below |
| `StatisticsMarks_proofs`, `TariffArchive_proofs` | the published rows and costs; the archive and what it prices, proved |
| `SyncPacing_proofs`, `IntervalLedger_proofs`, `ReadingRoute_proofs`, `LoginSession_proofs` | the invariants and action properties of these modules, proved |

How they compose. `SyncPlan` and `SyncCheckpoint` are extended by
`BackgroundSync`, `ApiErrors` by `ReadingRoute`, `TariffQuery` by `TariffCost`
by `TariffArchive`, `StatisticsProjector` by `StatisticsMarks`. The others meet
at the interface of a locked section, where each sees the rest as a choice:
`BackgroundSync` stores "the window's answer" whose reconciliation
`IntervalLedger` opens up; `IntervalLedger` receives an answer with the
authority that `ReadingRoute` gives it; `ReadingRoute` and `SyncPacing` receive
an error of a class `ApiErrors` assigned; `BackgroundSync` releases a held scope
at any later step, where `SyncPacing` counts the ticks. The composition of all
of them is far out of TLC's reach, and these interfaces are where the code
itself passes plain values.

### State and actions

Time is a count of ticks. `DayLength`, `MonthLength`, `QueryWindow` and
`PollOverlap` replace the day, the month, the seven-day query limit and the
72 hours. Coverage, a list of merged ranges in the code, is a set of ticks.
Months have one length here; nothing in this code compares two months' lengths.

| in `BackgroundSync` | in the code |
|---|---|
| `phase` | first refresh pending / done / `_background_started` / `_closing` |
| `auth` | `_reauth_pending`, and who met the refusal |
| `enabled`, `loaded`, `queryable` | discovery and options; `_supply_points`; directions not condemned by their status |
| `ckpt` | the checkpoint. Every action that changes it saves it in the same step, so memory and disk are one variable; a failed save is an action of its own that leaves it |
| `stored` | the ledger: ticks whose answer was reconciled and flushed |
| `queue` | `BackgroundSyncQueue`, one entry per scope and obligation |
| `held`, `rateHeld` | `BackgroundRetryController`: scope barriers and the rate-limit barrier |
| `poll`, `worker` | between which two awaits each task stands |
| `cadence` | `_schedule` and `_gaps_scanned_on` |

A step runs from one `await` to the next. `PollBegins`, `PollDiscovers`,
`PollLoads`, `PollReads`, `PollEnds` are one poll; `PollRefused`,
`PollInterrupted`, `PollAborts`, `PollScheduleFails` its ways to go wrong.
`WorkerTakes`, `WorkerReturns`/`WorkerStores`, `WorkerCommits` are one item;
`WorkerRetries`, `WorkerGivesUp`, `WorkerHearsLegacy`, `WorkerRefused`,
`WorkerDies` its ways to go wrong. While the worker is `"storing"` it holds the
mutation lock, every other locked section is a single step, and actions that
need the lock are guarded by `~LockHeld`.

Each fault, button press, restart or change of the listing spends one of
`MaxEvents`; normal operation is unbounded within the clock's range.

### The statistics

`StatisticsMarks` is a module beside `BackgroundSync`, not composed with it:
which window is asked next does not matter to a mark, so its answers arrive
for any window at any time, and the two models meet in the actions' names.
Time is a count of hours. The ledger is one reading per direction and hour;
an answer replaces what it covers in the partitions it has a reading for.
A price is one number, and the tariff one step: what a period consumes beyond
`StepSize` costs one unit more, so that an hour's cost depends on the period
before it and a pass that starts in the wrong place prices it wrongly.

| in `StatisticsMarks` | in the code |
|---|---|
| `ledger` | the readings stored, `PersistentIntervalLedger` |
| `rows` | what the recorder holds, published and cleared by the projector |
| `memory` | `_calendars`, `_fingerprints` and `_baselines` of the projector, lost with the process |
| `pending` | the supply point's `_StatisticsPending`, if it has one |
| `poll` | `corrections` of the poll in progress, which it marks at its end |
| `walks` | directions with a walk running; their windows are stored unmarked |
| `tariff` | the price last read and the calendar of the billing periods |
| `spent` | how much of each bound is used up |

Every publication runs under the mutation lock. (The docstring at
`coordinator.py:1169` says that the poll's does not; at `coordinator.py:710` it
does, so a mark cannot arrive while it is being served.) A publication is
therefore one step. Its failure may come before or after the projector has
touched its memory, and leaves the mark.

### Pacing

| in `SyncPacing` | in the code |
|---|---|
| `attempts`, `held`, `barrier` | `BackgroundRetryController`; instants are ticks left |
| `status` | `DirectionSyncStatus`, with the one stretch it remembers as read |
| `settled` | durable and failed windows of the checkpoint |
| `data` | what the last snapshot reports as complete |
| `answered`, `streak`, `rest`, `quiet` | history: what was read; what failures entail by the contract, counted apart from the controller |

`Poll` is `_async_update_data` down to its triage, as one step; `Takes` is
`available` and `pop`; `Answered`, `Refused` and `Requeues` are the three ways
the worker's table ends an item. The worker takes what is ready at once, so
time passes (`Tick`) only while nothing is ready or a request is in flight. The
time scale is compressed: a deferral of two ticks, a backoff of at most one,
three attempts for the code's six hours, an hour and five. Windows are planned
once: how plans change is in `BackgroundSync`. A scope in `Broken` times out
whenever it is asked, at no expense; every other error spends `MaxFaults`.

### The ledger

| in `IntervalLedger` | in the code |
|---|---|
| `requests` | per reader, its `ReadingBatch` to be: stamp, window, authority, readings |
| `memory` | records of the hot months held by `IntervalLedger` |
| `known`, `corrupt` | `_known_partitions`, `_corrupt_partitions` |
| `pending`, `index`, `delayed` | payloads in `LedgerStorage` not flushed, and the debounces to come |
| `flush` | the flush in progress, a write at a time |
| `file`, `indexFile` | the disk |
| `promised` | history: months a finished flush made durable |

`Reconcile` is `async_reconcile` as a whole: the quarantine of what it cannot
load, `expand_authoritative_series`, `reconcile_partition` over every month of
the window, eviction and both saves. The worker holds the lock until
`FlushEnds`; the poll releases it after its reconciliation. A poll and a worker
request may overlap in any way, and the stamp of each is from before it was
sent. Between answers the provider revises, withdraws, or answers by its other
model.

### Readings

One request: `Begins` decides from what discovery found, `PageArrives`,
`QueryFails`, `LegacyArrives` and `LegacyFails` are one query's outcome.
`since` records everything that was offered for a slot since the provider was
stamped, since an answer that takes several queries shows no single instant.
The provider may repeat a cursor, promise a page for ever or forget the cursor;
a cursor is assumed to name the last slot of its page.

### Sign-in

| in `LoginSession` | in the code |
|---|---|
| `provider` | the account: its password, live and renewable tokens |
| `entry`, `state`, `phase` | the config entry's data; what Home Assistant makes of it; how far setup is |
| `session` | method and password the loaded client was built with |
| `ops` | per task, its operation in `AuthenticatedGraphQLClient`; the gate lets one through |
| `reauth`, `flow`, `reloading` | the reauthentication asked for, the user's flow, the reload it schedules |

Three tasks send requests: `"loop"` (setup, then the polls), the commercial
coordinator and the worker. A request is strict (`execute`) or optional
(`execute_optional`, of the commercial coordinator and of discovery). The two
differ in `Answered`: a strict one whose token is rejected goes on to
`Refreshes`, an optional one does so only when the rejection is a GraphQL error.
The client raises an HTTP 401 itself (`api/client.py:125`), and
`execute_optional` (`api/auth.py:62`) does not catch it (`BareRefusal`): the
task's handler takes it for a refused sign-in although nothing was renewed.
After a renewal, a second GraphQL rejection of an optional request is returned in
its result, and the caller raises it or not.

A token is a number in order of issue. Each action is what the code does
between two awaits: `Begins`, `Answered`, `Refreshes`, `Renewed`, `SignedIn`
for a request; `Identifies` is `_async_create_or_update`. `HeaderEnds`,
`DiscoveryEnds`, `FirstRefreshEnds`, `PollEnds` and `WorkerEnds` are the
handlers around it, which map one error differently. Access tokens last an hour
and an operation seconds, so one expires only while no operation is under way
(`GateIsFree`) and not between its issue to the flow and the flow's end. A refresh
token that ends during an operation may as well have ended before it, since only
a renewal looks at it. The browser's method and the device's, which leave the
same data under two names, are one method here. A renewal goes out with the token read when it starts (`ops[task].used`),
whatever the entry holds by the time it is answered. `TokenIsGone` is an OAuth
session whose entry the flow has meanwhile turned into a password's: reading its
token is a `KeyError`, until the reload the flow scheduled. A user opens no
other flow before that reload is over.

### Tariffs and costs

`TariffQuery` and `TariffCost` are operators only, as the code is pure there.
Time is hours of months of given lengths; a reading is a whole number of units,
a price a positive number, the standing charge is counted `DayHours`-fold to
stay whole. `TariffArchive` has a refresh (`RefreshBegins`, `ReadsTariff`,
`Files`, `RefreshEnds`, `Repriced`), the archive's file and store per supply
point, and the debounced save, which outlives the store it was scheduled by
(`late`).

A load ends in one of three ways. It succeeds; it is an `OSError` or a payload
that does not parse, and the store is quarantined (`Files`); or it raises
anything else (`LoadFails`). `async_observe` has put the store into the archive
before it awaits the load, so after the third the refresh fails, the store stays
neither loaded nor quarantined (`Unread`), and the next refresh files into it
and saves over the file. `escaped` records the supply points this has happened
to, and those filed before in the same refresh, whose data is older than what
was filed; nothing is promised of them until their file is opened again.

A refresh and its save take seconds and are over before a month turns
or an agreement changes (`Settled`).

What is assumed of the inputs is what the repository's tests hold of theirs. An
hour resolves to one slot of a time-of-use schedule (`SchemesAssumption`,
`src/tests/test_tou.py`). The steps of a generation begin at zero and meet
(`IsLadder` in `OffersAssumption`, `src/tests/test_tariff.py`). The shipped table
has the windows the provider serves (`BaselineAssumption`): it was read off the
same provider. A consumption is a number of units at some of the hours
(`ProfilesAssumption`).

## 3. Runs

| run | bounds | shows |
|---|---|---|
| `sync_core` | 1 direction, a 2-tick day, a 4-tick month, clock 6..8, 1 event, fair | the inductive invariant, the checkpoint's loadability, current plans, the refinement of `DurableCoverage`; planned work settles after a death, refusal, lost queue or restart |
| `sync_two_directions` | 2 directions, clock 3..4, 1 event, symmetric | neither direction is vouched for by the other's readings |
| `history_walk` | month of 2, floor 4, 3 events, fair | the walk leaves no gap behind its cursor, and ends |
| `gap_refill` | hole older than any plan, clock 14..18 with one-tick days, fair | a silent refill overruns its limit at most once; the queue drains |
| `pacing` | 2 directions, 2 windows each, one of the four broken for ever, 2 faults of five classes, horizon 4, fair | deferral and rate limits hold across polls, prunes and other failures; an outage takes no sensor away; nobody waits for ever behind a broken window |
| `ledger` | a cold and a hot month of 2 slots, 2 readings models, 2 values, 2 instants, 1 revision, 1 fault, symmetric in the values | memory and disk are one ledger; flushed months survive; no month loses its last reading; answers are applied in the order they were asked |
| `readings` | 2 series, 2 slots, pages of 1, at most 3 pages, 66 sets of error details, 1 revision, fair | an authoritative answer is complete; only a gap of the current model changes the route; the request ends |
| `login` | 3 tasks, 3 tokens, 2 passwords, 1 fault, restart or removal, device deadline 2, fair | who is asked to sign in, which token is renewed, what an entry keeps; a login with its password recovers alone; the device grant ends |
| `tariffs` | 3 months of 2-hour days, nine sets of agreements, 1 change, 2 faults | the archive forgets nothing but what a failed load escaped with; filed rates price their hours; a tariff that passes parsing prices every hour, each unit once |
| `statistics_exact` | 1 direction, hours 0..4, periods of 2, partitions of 3, one price, 3 answers of 2 hours, 2 presses, prices, calendar moves or restarts | resumed passes publish the rows and the costs a whole-ledger pass would, whatever prices and calendars do in between |
| `statistics_repair` | hours 0..2, periods and partitions of 2, one price, 2 answers, 2 inputs (walk, price, calendar, restart), one each of: lost mark, failed pass, stopped walk | whatever was lost is repaired by the next rebuild, which a walk's end, a deletion or a restart asks for until it is made |
| `unread_month` | 1 direction, 3 windows, 2 faults | violation, see Divergences |

The clock of `sync_core` crosses a day and a month boundary, so a generation
is superseded, a month pair rolled and an answer comes in late. A month of
four ticks and a window of three give each generation two chunks, one short:
enough for a barrier to be half done. Two directions are enough for one to be
mistaken for another. The walk of `history_walk` takes three windows from the
floor it starts at to the supply start, and three events allow a press,
a fault and a second press. `gap_refill` scans on four days against a limit of
two silences.

Two windows in two directions are the least for which "ready first again and
again" could starve somebody, and two faults let a rate limit of one item meet
the deferral of another. The ledger's cold month is loaded from its file and
evicted, the hot one stays in memory: the two ways a month is kept. Two
instants and one revision let an answer asked before the revision arrive after
one asked behind it. The readings' two series of two pages are the least in
which a page, or a series, can be lost; the error details are every code, type
and place the client tells apart, alone and in pairs. Three tokens are the one
the entry starts with, one a task obtains and one the user obtains meanwhile.
The tariffs' months are of three, three, two and three days, so an anchor can
fall beyond the end of a month, and a time-of-use season wraps the year.

The clock of `statistics_exact` starts on a period boundary and crosses the next,
the two at which totals are remembered; three answers are one to insert, one to
correct behind a boundary and one to be published from it, and two inputs let a
price arrive and its periods move. One size of reading is enough, because a
changed hour is marked as a new one is. The two inputs of `statistics_repair`
are a walk that is stopped and the restart that then asks for everything, or a
walk and the price that its end is costed with. Two answers are one that is read and one that
takes it away.

Deadlock is checked in the runs of `BackgroundSync` and `StatisticsMarks`. The
others may stop: a request that has ended, an entry that was removed, a
provider that has used up its revisions.

`EnergyIsExact` and `CostIsExact` are checked without lost marks, failed passes
and stopped walks, and with one direction, the conditions under which they
hold. They speak of the moments when no walk is running and every mark is
served. `AnswersInOrder` speaks of hot months; a cold one is merged from its
file by the same operators. `RecoversAlone` ends where the provider issues no
more tokens, a bound of the model.

### Fairness

`Fairness` in `BackgroundSync` gives weak fairness to what the event loop or
Home Assistant runs by itself: a poll while the sign-in stands, each of its
steps, the worker's steps once it holds an item, the end of a backoff, the
cancellation during an unload and its outcome. `WorkerTakes` needs strong
fairness: the worker waits while a poll is pending, so every poll disables it,
but a poll lasts seconds of its half hour. Faults, presses, a renewed sign-in,
restarts and the clock get none. The liveness properties assume that from some
point the sign-in stands and the supply point stays listed.

`SyncPacing` has weak fairness of time, of the worker's wake-up and of the end
of a request (every one has a timeout). `ReadingRoute` has weak fairness of the
request's own steps, for the same reason. `LoginSession` has weak fairness of
the tasks' requests taken together (some task goes on, and nothing new is begun
while a sign-in is asked for), of Home Assistant's retry and reload and of the
device task. Which task gets the gate is left open. Faults, the provider's
changes and the user get none.

### Divergences

Code and documentation disagree in these places. The first has a run,
`unread_month`; the modules allow the others, or the property concerned names
the condition under which it holds.

| where | the code | says |
|---|---|---|
| `coordinator.py:2116`, `aggregation.py:195` | a direction remembers one stretch from the earliest to the latest read; with the newest window failed for good, what the poll and the window before it read joins over it and the month is reported complete | complete "only when authoritative coverage spans them" (`aggregation.py:195`) |
| `coordinator.py:1806` | an item whose generation the poll superseded in flight raises in `mark_failed`, inside the worker's handler; the worker ends and the item is lost until it is planned again | "resolve the scope and record the class `_triage` assigns" (`coordinator.py:305`) |
| `coordinator.py:1706` | a poll queues the walk's window in flight again; its silence counts twice, and a walk ends after two silent windows | "three consecutive empty windows" (`src/docs/ARCHITECTURE.md:283`) |
| `coordinator.py:711` | the poll marks at its end only: a refused sign-in or failed save first, or a failed flush of the worker, and the change is never marked | "a correction ... rewrites every later total" (`src/docs/ARCHITECTURE.md:406`) |
| `statistics_runtime.py:563` | a rebuild clears energy and official cost, never the tariff cost | fixed: "left its cost and energy rows behind" (`src/CHANGELOG.md:195`) |
| `statistics_runtime.py:449` | the fingerprint of the prices is stored before the pass has read the ledger | "republishes the whole cost series once" (`src/docs/ARCHITECTURE.md:238`) |
| `statistics_runtime.py:386` | a series silent in a resumed pass has no total at a new boundary, and sums from zero next | the docstring at `:374` |
| `password_auth.py:141`, `coordinator.py:720` | a rejected password raises an error no table lists: the poll logs it and retries, the worker dies | "a rejected sign-in is final and raises reauthentication" (`src/docs/ARCHITECTURE.md:63`) |
| `tariff_history_store.py:100`, `:165` | only `OSError` and `TariffHistoryError` quarantine; after any other exception of the load the store is kept unread, and the next observation saves over the file | "A file that failed to load is never written to" (`tariff_history_store.py:7`) |
| `api/tariff.py:639` | an agreement that has not begun counts as live, and wins by its later start | the docstring at `:607`; `api/commercial.py` does check the start |
| `ledger.py`, `ledger_store.py` | the debounced index may land before its month; a crash then leaves a listed month without a file, quarantined for ever (`async_replace_corrupt_partition` has no caller) | the ledger recovers (`src/docs/ARCHITECTURE.md:217`) |

Further behaviour the modules show, not against any statement:

- Synchronization: an item that a hole shares with a planned window is refused
  as a whole (`coordinator.py:1606`); a refill in flight is queued again, hence
  the one overrun of `RefillOverrunsOnce`; a walk ended by a legacy answer or a
  failure publishes nothing. A rate limit on the fifth attempt holds the whole
  entry for six hours, and the same item is first again afterwards.
- Ledger: a re-read that changes nothing keeps the old stamp, so an answer
  asked before the confirmation still replaces the record. A deletion leaves no
  trace to compare stamps with. A crash between a month and the index leaves the
  month unlisted until it changes again. An answer cut short inside a month
  deletes the rest of it (`MonthsAreNeverEmptied` is as far as protection goes). The
  window of a quarantined month is recorded as durable all the same.
- Readings: an authoritative answer deletes the stored reading of a slot whose
  only entry was malformed. An empty answer is stamped when it ends.
- Sign-in: an HTTP 401 on an optional request asks for a sign-in with no renewal
  tried (`api/auth.py:62`, `api/client.py:125`), because a token was stale.
  A renewal in flight while the flow stores another method leaves the
  old method's token in the entry. An unreadable answer to the optional device
  query blocks setup.
- Tariffs: when the load of one supply point fails, those filed before it in
  the refresh keep the data from before it, and a later API error files its
  older price over the newer one. A debounced save pending at removal brings
  the file back. A reload within the debounce of a
  filing made across a month boundary would lose the window
  (excluded by `Settled`). A refused sign-in during the refresh files nothing.

What makes up for some of it later is checked: `PlannedWorkSettles` and
`WalkLeavesNoGap` hold with dying workers and duplicated windows, and
`RebuildRepairs` says that the end of a walk, a reading taken away and a restart
ask for everything, in the step itself or until a pass succeeds, and that this
pass brings back the energy rows of every direction and, while a price is known,
the cost of every hour read. The cost rows of hours that were withdrawn stay, as
the table says, and without such an event nothing repairs a lost mark.

## 4. Proofs

Eight modules hold theorems. Every invariant and action property a passing run
checks is also proved, for every value of the constants, each from an inductive
invariant of its module; what is left to TLC is liveness.

**Synchronization.** `BackgroundSync_proofs` has a lemma per checkpoint
operation: that it maps checkpoints to checkpoints, keeps them accepted by the
constructor, adds only the given ticks to the coverage, and raises a barrier
only when every window of a daily generation is completed. The geometric lemma
is that the chunks of a span cover every tick of it. From these the module
proves `SyncInvHolds` (`Spec => []SyncInv`), from it `TypeIsCorrect`,
`CoverageHolds`, `BarrierHolds` and `CheckpointStaysLoadable`, and
`SyncKeepsPromise` (`Spec => KeepsPromise`), the refinement of
`DurableCoverage`.

Why the invariant has more parts than what it is for: a barrier is raised from
recorded completions, so a completion must itself be durable
(`ResolutionsAreDurable`), which holds because the worker marks only what it
has flushed (`AnswerInHandIsFlushed`). The windows of a daily generation cover
the barrier's stretch only because it starts at the floor of its own end
(`DailiesReachTheFloor`), and a barrier moves only forwards because there is
one (`LatestIsUnique`).

**Work.** The second half of the module stands on it and adds `WorkInv`, which
has three parts. `PlansMeet`: the initial generations registered are those of the
recorded month and meet at its start; this gives `PlansStayCurrent`.
`RefillsEnd`: a window whose silences have reached the limit is never queued and
in hand at once, and is neither once it has overrun its limit; without the first half a
second request could follow the overrun, so `RefillsOverrunOnce` is not
inductive by itself. `WalksInv`: every walk window queued or in hand ends where
coverage reaches down to, so completing even a stale duplicate moves the cursor
to a place above which everything is read (`WalksLeaveNoGap`). It needs `Fresh`
besides: an unreadable record is replaced by an empty one only while nothing
is queued.

**Retries.** `SyncPacing_proofs` proves `PacingInv`: only a queued or active
window has a count, the controller's count is the number of failures in a row,
and its hold and its barrier last at least as long as the failures entail.
The first is why a prune cannot make a window's deferral vanish while the
window is still wanted. `SpentWindowsRest` and `RateLimitsAreShared` follow
at the one action that takes a window; `SensorsOutliveOutages` goes over every
way a direction's status is written. The delay of a window is the larger of
two, so the proof asks for what the code's constants satisfy: the deferral (six
hours) is at least the longest backoff (an hour).

**Ledger.** `LedgerInv` says what is pending, indexed, delayed and in flight in
terms of the files: a load of a month finds its pending payload or else its
file, what a flush still has to write is what the disk lacks, and a month that
a finished flush promised is on disk and listed. From it `LedgerIsOne`,
`FlushIsDurable`, `MonthsKeepReadings` and `AnswersAreOrdered`.

**Readings.** `RouteInv` follows one request: up to its cursor, what was found
for a slot is something the provider offered for it since it was stamped, for
the series being read and for every series before it. `AnswersComplete` is the
case of a cursor past the last slot. `FallbacksAreForGaps` needs only the types
and what `ApiErrors` takes a set of details for.

**Sign-in.** `LoginInv` is the type of every variable, that an OAuth entry has
no password and that only a loaded entry has a worker. `PasswordGoes` is part
of it; `RenewalsAreSingle` follows from what is read behind the gate.
`OnlyRefusedAsk` needs `RequestsInv` besides. What it allows is a refused
password, a refused grant, and the first answer to an optional request
(`OptionalRefused`), which is the code's own exception. What it has to exclude
is the second refusal of a request: a repeated request must carry a token the
provider accepts. It does, because while a request is in flight the stored token is the
one it was sent with, or none, or one the provider accepts; the last survives
what the other tasks and the flow store meanwhile, since whoever replaces a
token stores one just issued (`FlowHolds` for the flow). That nobody else's token
dies meanwhile is what `AccessExpires` assumes; with tokens that may expire in
the middle of an operation the property is false, and the code asks for a
sign-in after two expiries in a row.

**Sums.** `Sums_proofs` proves of the community modules' fold what the next two
need: a sum of natural numbers is one, sums over disjoint sets add up, a sum of
parts is the part-wise sum, equal summands give equal sums. A fold is defined by
recursion over subsets, and induction over finite sets takes an operator as
parameter; instead, each fact is proved from the least subset for which it would
fail (`SmallestSubset`).

**Statistics.** `RebuildsRepair` and `MarksAreTyped` hold without conditions.
For the former, a mark for everything stays one whatever is marked after it
(`EverythingStaysMarked`), a walk's reset and a deletion make one of any mark
(`ClearingAsksForEverything`, with `DeletionsAreChanges` for a poll), and a pass
for it starts over from nothing (`FullPass`, `PassPublishesCost`).
`PublishedEnergyIsExact` and `PublishedCostIsExact` have the hypothesis
`Faultless`, which is the setting of `statistics_exact`: one direction, no mark
lost, no pass failed, no walk stopped. Without one of them the property is not
the code's (see Divergences and the hazards): a boundary can then be remembered
with a total that is wrong or missing, until a rebuild. Beyond that nothing is
bounded: any readings, prices, calendars, periods and partitions, any number of
answers, tariff changes, walks and restarts.

`MarksInv` says what a mark stands for. A row at hour `h`, and a total remembered
at a boundary behind `h`, is exact unless a pass is still owed from `h` on
(`Owed`): something is marked, a walk is running, or the poll in progress has
changed something at or before `h` and will mark it at its end. The poll's
change is why this is not a property of marks alone, and `TakenBackIsPublished`
why it is not inductive without more: the worker may take back the hours a poll
read before the poll marks them, and its pass must then already have left the
totals exact. A resumed pass is right because its totals at the boundary are,
because energy and cost add up over two spans that meet (`EnergySplits`,
`CostSplits`), and because a cost looks back no further than the start of the
period (`SameCost`).

**Tariffs.** `ArchiveInv` compares the copies of a supply point's history: file,
debounced save and store. Each is *under* the next newer one (it has a statement
for every window the older has, not older than it), and a newer copy adds only
windows in force now (`Adds`). A window restated later has a higher price in the
model, so that "not older" can be read off the prices.
`AnswersAreFiled` says that what a refresh read is fresh, and is in the store
before a price uses it. `WindowsAreKept` and `FiledRatesArePriced` follow. All of
it is about supply points that have not `escaped`: a store kept unread is under
nothing.
`HoursArePriced` is about parsing: what passes it resolves every hour to a
slot with a price. `UnitsAreCharged` is arithmetic: the period of an hour starts
at one boundary, and the same for every hour of it; the steps in force are a
ladder, so an hour's units cut at the steps' ends add up to the hour
(`CutsAddUp`), and the cost of a period is that of its units one by one.

The assumptions are the `ASSUME`s of the modules, checked by TLC in every run:
positive lengths of day, month, window, page and limit, a finite set of
directions, windows that are not empty, months that are natural numbers, the two
readings models disjoint, and those of the tariffs given in section 2. The
bounds of clocks, faults and events are numbers only: no proof depends on how
large they are.

Only model-checked is liveness (`PlannedWorkSettles`, `QueueDrains`,
`BrokenWindowsBlockNobody`, `RecoversAlone`, `RequestEnds`, `DeviceGrantEnds`):
fairness and `ENABLED` are outside what the prover handles.

## 5. Not modelled

- `BackgroundSync`: status fields no decision reads, the order of several
  supply points, a cancellation that hits after a walk's commit but before its
  next window is queued, a snapshot that cannot be built after a commit.
- `SyncPacing`: the poll between its awaits, several supply points, the point
  allowance (a number shown to the user).
- `IntervalLedger`: the two functions nothing calls, the count of corrections,
  the daily gap summary of a month.
- `StatisticsMarks`: a recorder that is not loaded, the ledger's last seconds
  that a crash loses, a poll that outlasts the hour it began in, the official
  cost series, readings that straddle hours.
- `ReadingRoute`, `TariffQuery`: GraphQL documents and field parsers, which are
  data conversion; a field that cannot be read is the failure "invalid".
- `TariffArchive`: the commercial snapshot, which only sensors read, the count
  of revised windows, the serialized form; time-of-use tables are data. A file
  that is not JSON at all is moved aside by Home Assistant itself.
- `LoginSession`: the reconfigure form, registration of OAuth clients, a second
  entry with the same account, removal of the shared secret.
- Sensors, buttons, diagnostics, repairs and entities read snapshots and keep
  no state another part decides on. The probe and the scripts are not part of
  the running integration.

The `aggregation.py` sums are plain sums of readings; `SyncPacing` has the one
decision in them, whether a period is complete.

## 6. Plan

The suite is kept to a dozen runs: modules share a run where their questions
are one, and a disagreement described under Divergences gave up its run where
another property came to need it.

Done: synchronization, statistics, retries, ledger, readings, sign-in with
setup and device grant, tariffs with their archive and costs; the proofs above.

What would add most next:

1. `SyncPacing` as the refinement of what `BackgroundSync` takes a hold to be
   (a scope released at some later step), which needs one clock for both.
2. Lemmas under the liveness properties that need no fairness: a measure that
   each step of the worker lowers, proved as an action property.
3. Several supply points in one entry: the order of their queues, the walk that
   stays with one of them, their shared point allowance.
4. The official cost series beside the tariff's, and readings that straddle
   hours, in `StatisticsProjector`.
5. `IntervalLedger` below `StatisticsMarks`, so that a crash that loses the
   ledger's last seconds meets the rows already published.
