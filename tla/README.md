# Advisory service: formal models

TLA+ models of the advisory service (`src/src/advisory_service`), TLC
configurations that check them on small instances, and TLAPS proofs of their
central properties for instances of every size. Paths below are relative to
`src/src/advisory_service` unless they start with `src/`.

The service answers one RPC, `GetRecommendations`. It looks for stocks that
suit an investor's profile, scores them, has a language model write a text for
the best ones, validates the result and stores it. Around that call run a
daily synchronisation of the stock catalogue and a warmer that computes market
metrics ahead of time. Everything is one asyncio process on one event loop, a
PostgreSQL database, Stock Service over gRPC, and OpenAI. There are no threads,
so a coroutine is interrupted only at an `await`; all concurrency is the
interleaving of coroutines at awaits, and transactions in the database.

## 1. Inventory

### Components

| Component | State it keeps | Operations | Status |
|---|---|---|---|
| gRPC servicer and use case (`transport/grpc/servicer.py`, `application/advisory/use_case.py`) | none between calls; the reply of each | validate, run the graph, save, map errors | modelled: `AdvisoryRequest`, `AdvisoryContract` |
| Advisory graph (`application/advisory/graph.py`, `nodes/`) | the state of one call: candidates, scored candidates, recommendations, retry count | five nodes and one loop back | modelled: `AdvisoryRequest`, `Ranking` |
| Recommendation store (`repositories/postgres_advisory_repository.py`) | `user_profiles`, `recommendations` | `save_many`, one transaction | modelled: `AdvisoryRequest` |
| Stock cache (`repositories/postgres_stock_cache.py`, `schema.sql`) | `stocks_cache`, `stock_narratives` | bulk read, upserts, update of market metrics, list of stale codes | modelled: `StockCache`, `MetricsReader`, `MetricsFreshness` |
| Stock metrics reader (`stock_catalog/grpc_stock_metrics_reader.py`) | a lock per stock | `get_metrics_many` | modelled: `MetricsReader` |
| Candle fetcher (`stock_catalog/grpc_market_metrics.py`) | a semaphore, a limiter | `fetch` | modelled: `MetricsReader`, `MarketMetricsWarmer` |
| Request rate limiter (`stock_catalog/grpc_stock_catalog.py:18`) | a lock, `_next_allowed` | `wait` | modelled: `RequestRateLimiter` |
| Market metrics warmer (`stock_catalog/market_metrics_warmer.py`) | none between runs | `warm_all`: passes, batches | modelled: `MarketMetricsWarmer`, `NightlyBatch` |
| Stock catalogue sync (`stock_catalog/grpc_stock_catalog.py:69`) | a semaphore | `sync_all`: pages, one gather per page | modelled: `CatalogSync`, `NightlyBatch` |
| Scheduler and life cycle (`main.py`, `bootstrap.py`, `transport/grpc/server.py`) | background tasks, the pool, the channels | start, daily loop, shutdown | modelled: `ServiceLifecycle`, `NightlyBatch`, `MetricsFreshness` |
| Hybrid search (`retrieval/hybrid_stock_search.py`) | none | two queries, rank fusion, cut | partly: `Ranking`, the fusion and the cut |
| Fit score (`domain/services/fit_score.py`) | none | a pure function | modelled: `FitScore`, `Ranking` |
| Volatility (`domain/services/volatility.py`) | none | a pure function | not modelled: its outcome only |
| Narrative generator (`llm/openai_narrative_generator.py`) | none | one completion | a call that answers or fails |
| Settings, pool, migrations (`config.py`, `persistence/session.py`, `persistence/migrations.py`) | settings, connections | apply an idempotent schema | partly: constants and switches of the models, steps of the start, a number of connections |

### How they interact

    client -> servicer -> use case -> graph: build_profile
                                             retrieve_candidates -> hybrid search -> pool, OpenAI
                                             score_candidates    -> metrics reader -> pool,
                                                                    semaphore -> limiter -> Stock Service
                                             generate_narrative  -> OpenAI       <-+
                                             validate_result ---------- retry -----+
                                   -> save_many -> pool

    daily loop    -> catalogue sync -> Stock Service, OpenAI, stocks_cache, stock_narratives
                  -> warmer         -> semaphore -> limiter -> Stock Service, stocks_cache
    start-up task -> warmer

- **Shared state** is the database: the reader, the warmer and the sync all
  write rows of `stocks_cache`, each in statements of its own and without a
  common lock. Requests of one user write the same row of `user_profiles`.
- **Shared resources** are the connection pool, the reader's locks per stock,
  the two semaphores of fetchers (the warmer's and the reader's are separate
  objects) and three limiters, each of which allows the full rate on its own.
- **Settings** that only make sense together are read in different places: the
  TTL by the reader, the stale limit by the warmer's query, the daily time by
  the loop in `main.py`.

### What is hard, and what correctness means, component by component

- **Rate limiter.** The lock is held across a sleep, and the sleeper is resumed
  late or cancelled. Correct: the long-run rate holds, and no slot is lost.
- **Metrics reader.** Requests miss on the same stock at the same time; the row
  changes between the look without the lock and the look with it; a gather
  raises the first error and leaves its other children running; a cancellation
  arrives at any await. Correct: locks and permits are always given back, a row
  is refreshed once per TTL, an answer is never made of missing values and
  agrees with what is stored, every call ends.
- **Request, graph and store.** The loop has to start afresh, the count has to
  tell the truth, and only a validated result may be stored. The client can be
  gone at any step, a connection can break around the commit, and transactions
  of one user queue for its row with connections in hand. Correct: the reply
  tells the truth about the store, transactions are all or nothing, nobody
  waits for ever.
- **Freshness of metrics.** Stale limit, TTL, daily time and the length of a run
  decide together whether requests meet an expired value, which they then have
  to fetch themselves within the deadline of the call. Correct: a value is
  renewed before it expires.
- **Warmer.** Passes are over whatever is stale when they begin; a fetch that
  fails is an outcome, a write that fails is an error that ends the run with
  siblings still going. Correct: every stock that was stale had its turn, and
  the count returned is the number of stocks written.
- **Catalogue sync.** The listing is cut into pages by position and changes
  between pages; a failing stock ends the run with its siblings still going; a
  row and its narrative are written in two statements. Correct: a run that ends
  well has copied every stock that was listed all along, unless one was delisted
  meanwhile; its count is true; what it inserts is warmed in the same night.
- **Scheduler and life cycle.** The next run is computed from the wall clock and
  slept to once; the local clock is changed twice a year; the start-up warming
  runs next to the loop; a signal, a failed start or the end of the grace period
  meets the tasks in any state. Correct: no run is slept through, no date has
  two, start-up runs do not overlap, the pool is closed after its users, a
  signal ends the process.
- **Rank fusion, fit score.** Ties, the cut at `top_k`, clamps, overlapping bands
  and two roundings. Correct: what both searches find comes first, the best hit
  of a search is not cut away, a stock that is on no axis worse does not come
  later, a low score is explained.

`PROJECT.json` lists these hazards one by one, with the line where each bites
and the properties that answer it.

## 2. The modules

| Module | Models | Used by |
|---|---|---|
| `RequestRateLimiter` | `RequestRateLimiter.wait` | `RequestRateLimiterProofs` |
| `MetricsReader` | `get_metrics_many`, the fetcher's semaphore, the rows and their other writers | `MCMetricsReader`, `MetricsReaderProofs` |
| `AdvisoryContract` | what `GetRecommendations` promises | `AdvisoryRequest` |
| `AdvisoryRequest` | servicer, graph, use case, `save_many` | `MCAdvisoryRequest`, `AdvisoryRequestProofs` |
| `MetricsFreshness` | the age of a value under the daily, start-up and on-miss refreshes | `MetricsFreshnessProofs` |
| `StockCache` | the rows as sync and warmer use them: upsert, update, the query for stale ones | `CatalogSync`, `MarketMetricsWarmer` |
| `CatalogSync` | `sync_all` and `_sync_stock` over a listing that moves | `NightlyBatch` |
| `MarketMetricsWarmer` | `warm_all` and `_warm_one` | `NightlyBatch` |
| `NightlyBatch` | one round of the daily loop: both of the above over the same rows | `MCNightlyBatch`, `NightlyBatchProofs`, `NightlyCountsProofs` |
| `ServiceLifecycle` | `main.py`: start, background tasks, daily loop and its clock, shutdown | `MCServiceLifecycle`, `ServiceLifecycleProofs` |
| `FitScore` | the score, its bands, clamps, roundings and tags | `Ranking` |
| `Ranking` | rank fusion, cut, scoring, sort and final cut | `MCRanking`, `RankingProofs` |

`MC...` modules give instances of constants to TLC. Each `...Proofs` module
holds theorems of one component. In every component module a few operators
under the comment *Wrong forms* stand just before the definition they distort:
each is a plausible error in that piece of code, and each makes one property
fail. They are not part of the specification.

### RequestRateLimiter

`Call` is reaching `async with self._lock`, `Measure` is getting the lock,
reading the clock and either returning at once or going to sleep with the lock,
`Wake` is the end of the sleep. `seen` is the local variable `now`, which is
*not* read again after the sleep. `Tick` advances the clock by itself, so a
sleeper can be resumed arbitrarily late. `CancelSleeper` and `CancelWaiter` are
the two awaits at which a caller can be cancelled. `starts` records the time
of each return. The clock starts anywhere, as `time.monotonic()` does.

### MetricsReader

A request (`call`) makes the bulk query and gathers one child per stock
(`pc`, `local`). `Start` is the test before the lock; `Recheck` takes the lock
and reads the row again; `Decide` repeats the test on what was read; `Fetch`
waits for a permit; `Reply` is the outcome of `GetCandles`; `Write` is
`update_market_metrics`; `Answer` returns what the child has in hand. `Raise`
is an exception: it ends the child and the gather and leaves the other children
alone. `Cancel` cancels a request with its children. `Warm` and `Upsert` are
the warmer and the catalogue sync as writers of the same rows.

- Time is what the TTL test can see: each write of market metrics has the next
  stamp, and `horizon` is the newest stamp that is older than the TTL. `Expire`
  moves it. A row without a volatility has stamp 0 and is always expired.
- `fin` stands for per, pbr and roe together. A row that does not exist is one
  without financials: both are answered with no metrics.
- A volatility is a number in the five decimals of the computation; the column,
  `NUMERIC(6,3)`, keeps three and cannot hold a value from `Limit` on.
- Taking a free lock and reading the row are one step, which hides no
  behaviour: the row may be written by another between the test and this step,
  and between this step and `Decide`. The limiter inside the fetch only delays.
- The locks are FIFO in asyncio; here any waiter may be next, which has more
  behaviours. No safety property depends on the order, and as each child waits
  once for each lock, weak fairness is enough for liveness.

### AdvisoryContract and AdvisoryRequest

`AdvisoryContract` is the promise of the RPC in two variables, what each client
got and whose result is stored: `passed` and `retried` mean it is, `failed` and
a rejected request mean it is not and will not be, any other error says
nothing. `AdvisoryRequest` is the whole path. Its actions are the nodes of the
graph (`Retrieve`, `Score`, `Narrate`, `Validate` with the route after it), the
statements of the transaction (`Acquire`, `UpsertProfile`, `InsertRows`,
`Commit`), the reply (`Respond`), and, at every await, a dependency that fails
(`Fail`), a client that goes away (`Abandon`), and the handler that learns of it
(`Cancel`). The specification implements the contract with `saved` mapped to
the requests that have rows.

- A request is mapped to the connection it holds in the transaction; the
  earlier steps that use the pool only need one to be free.
- The lock a transaction has on the row of `user_profiles` it upserted is
  PostgreSQL's. A second transaction of the same user waits for it, with its
  connection.
- A failure during the commit may come before or after it took effect: `Fail`
  at `commit` and at `committed`.
- Candidates are their prices; which are best is the subject of `Ranking`. A text is good or too short, which is all validation looks at.
- Each request is made once. `Receive` may also end with `UNAUTHENTICATED` or
  `INVALID_ARGUMENT`.

### MetricsFreshness

One stock, discrete time. `phase` is the time since the daily hour, `age` that
since the last write of market metrics. A run `List`s the stock if it is older
than the stale limit and `Warm`s it later; `Duration` bounds how long after the
daily hour the run is done with it. Runs `Fail`, the process is `Restart`ed and
warms at start-up, and a request that meets an expired value refreshes it.
`covered` records that the value has been written and that no daily run has
failed or been interrupted since: nothing can be promised about a value that
no run reaches.

### StockCache, CatalogSync, MarketMetricsWarmer and NightlyBatch

`NightlyBatch` is one round of the daily loop. It puts `CatalogSync` and
`MarketMetricsWarmer` side by side over the rows of `StockCache`: `SyncReturns`
hands over to the warming, also after a failed sync, and `WarmReturns` ends the
round.

- A row is `none`, `stale`, `old` or `fresh`. An `old` value may cross the stale
  limit during the night (`Age`); a `fresh` one is from tonight and cannot, as
  the limit is longer than a night. A new row has no market metrics and is
  stale; an update of a row that does not exist changes nothing.
- `SearchStocks` answers a page of the listing *as it then is*, cut by position,
  with the number of pages as it then is. `Move` lists or delists a stock
  between any two steps. A stock passes through the semaphore (`Begin`), then
  `CopyRow` and `CopyText`, each of which may fail (`SyncFails`).
- A pass `List`s the stale rows, gathers them batch by batch (`TakePermit`,
  `Reply`, `Write`) and is repeated while stocks failed and passes are left. The
  counts are those of a `WarmResult`. `WriteFails` is the write outside the
  `try`.
- A gather that raises cancels nothing: its other children, orphans from then
  on, go on through `Sync` and `Warm` whatever part of the night it is. `Cancel`
  is a shutdown: it cancels the children of a gather that is under way, and not
  the orphans. A child that is cancelled while it waits for a statement does not
  learn whether it took effect, so any subset of these writes may have.
- `told`, `born`, `written`, `joined` and `left` are histories, each with the
  stocks its comment names.

### ServiceLifecycle

`main` walks through `_amain`: `CreatePool`, `Build` (the schema and the
background tasks), `Start`, `Stop` with its grace period (`Drained`,
`CancelCalls`), `CancelLoop`, `CancelStartup`, `Close`. A start that fails leads
to the same `finally`. `Plan`, `Wake`, `SyncReturns` and `WarmReturns` are the
daily loop; `StartupWarmReturns` is the task beside it. The four settings that
switch background work are chosen at the start.

- `now` is UTC. `Local` and `Utc` are the local clock and its inverse as PEP 495
  defines it, with one change at `ShiftAt`. `_next_sync_at` compares wall-clock
  readings without their offset (`NextDate`); the difference it sleeps is taken
  in UTC (`WakeTime`). `Wake` may come arbitrarily late.
- A tick is shorter than any run of the sync, so a run ends at a later time than
  it began.
- Calls are open, cancelled or ended; an open one may hang for ever.
- Tasks that a failed gather left behind are `NightlyBatch`'s subject and are not
  repeated here: neither the code nor this model waits for them at shutdown.

### FitScore and Ranking

`FitScore` is the score in integers: a fit in 60ths, exact for metrics in whole
per cent and pbr in tenths, a rounded value in 100 000ths. Where a value lies
exactly between two roundings Python takes the even neighbour or what the binary
fraction makes of it, and the model the higher one; no property depends on the
last unit.

`Ranking` goes from two result lists to the recommended stocks: `Search`, `Fuse`,
`ReadMetrics`, `Rank`. PostgreSQL's ranking is any two lists without repetition
within the limit. RRF sums are exact fractions. Python's sort is stable and its
dict ordered by insertion, so ties are decided: after the fusion by the place in
the dict (`Entered`), after the scoring by the place among the candidates. With
ties decided, sorting is a matter of counting: `Sorted` puts an element after as
many others as precede it in the order. `RankingAssumption` asks that
`RRF_K + 2 > top_k`, which 60 and 20 satisfy with room to spare.

## 3. Runs

Deadlock is checked in the limiter, the reader and the freshness model. It is
not checked in `AdvisoryRequest`, `NightlyBatch`, `ServiceLifecycle` and
`Ranking`, which really stop: when all requests have ended, the night is over,
the process has ended, the stocks are ranked.

| Run | Instance | Shows |
|---|---|---|
| `rate_limiter` | 3 tasks, interval 2, clock to 6 | `RateBound`, `NoLostSlot`, `TypeOK` |
| `reader_row` | 2 requests, 1 stock, 3 volatilities, stamps to 3 | `ResourcesAccounted`, `RefreshOnlyAfterExpiry`, `MissingNeverScored`, `SameWriteSameRank` |
| `reader_locks` | 3 requests, 1 stock | `EveryChildEnds`, with three in the queue of a lock |
| `reader_permits` | 1 request, 3 stocks, 1 permit | `EveryCallEnds`, `NoChildOutlivesItsCall`, `TypeOK` |
| `request_graph` | 2 requests of one user, 2 candidates, `MAX_RETRY` 2 | `StoredIsOneValidRound`, `StatusTellsWork`, `ImplementsContract`, `TypeOK` |
| `request_saves` | 3 requests of 2 users, 2 connections | `ProfileHasRows`, `SavesAccounted`, `EveryHandlerEnds` |
| `freshness` | day 8, TTL 12, stale limit 3, run 1 | `RenewedInTime`, `TypeOK` |
| `night` | 4 stocks, 3 of them listed, pages and batches of 2, 2 passes, 1 permit, 2 outside events | `NoStockSkipped`, `CountIsTrue`, `RefreshedIsTrue`, `EveryTargetHadItsTurn`, `OnlyFailuresLeaveOrphans`, `NewStocksAreWarmed`, `NightEnds`, `TypeOK` |
| `lifecycle` | days of 4 ticks, all settings, 1 call, clock put back on the second day | `PoolOutlivesItsUsers`, `OneWarmingAtStartup`, `NoRunSleptThrough`, `NextRunIsLater`, `LoopGoesOn`, `SignalEndsService`, `TypeOK` |
| `ranking` | 4 stocks, lists up to 3, 2 recommended, 6 sample metrics | `BothBeatOne`, `BestHitsKept`, `NoWorseNoLater`, `LowScoresAreExplained`, `TypeOK` |

Two runs show a place where the code does not do what a text beside it says:

| Run | Property it violates | What happens |
|---|---|---|
| `freshness_defaults` | `RenewedInTime` | With the default settings (TTL 24 h, stale limit 12 h, a run every 24 h) a value expires before the daily run has reached it. |
| `night_one_failure` | `FailureSparesTheOthers` | A write that fails ends the whole warming: stocks of later batches are never tried. |

The quotations are in `PROJECT.json` under `findings`.

Some behaviour the models show is surprising without contradicting anything the
repository says, and no run checks it:

- A sleeper of the limiter that is resumed late starts late, but the next slot
  is counted from when it should have started, so two calls can start closer
  than an interval. `RateBound` says what does hold. The catalogue client and
  the two fetchers have a limiter each, so their rates add up: in a second, to at
  most three times one more than the setting (`WindowIsBounded`, for each).
- After a fetch that failed or found too few candles, each child that waited for
  it calls `GetCandles` again.
- The child that fetched answers with five decimals, those that read the row
  with three. They agree once rounded (`SameWriteSameRank`).
- No node sets `snapshot_at`: stored prices are undated.
- A daily time in an hour that the local clock repeats is run again and again
  until the hour is over; one in an hour that is skipped may be left out. With
  `SyncTime = 1` instead of 2 the instance of `lifecycle` violates
  `NextRunIsLater`. The default zone, Asia/Seoul, has none today.
- A delisting between two pages moves a listed stock to a page that has been
  read: it is skipped until the next night. A listing makes one come twice.

### The bounds, and why they are enough

- *Limiter.* Three tasks are one asleep and two in the queue, of which either
  may be cancelled. With an interval of 2 and a clock to 6 starts can be late by
  one and by several ticks and three slots go by. The proofs are for all values.
- *Reader, requests.* Two children suffice for a second look that finds what the
  first holder of the lock wrote; three are needed for a waiter to inherit the
  lock from one that failed. *Stocks.* Children of different stocks meet only at
  the semaphore: with one permit three of them queue for it.
- *Reader, volatilities.* With unit 10, 14 and 31 are stored as 10 and 30, and 96
  would be stored as 100, which the column cannot hold. `MaxWarm` bounds the
  stamps at which the *warmer* still writes; the children may write beyond it.
- *Request.* Two candidates let one text of two be too short. `MAX_RETRY` is the
  code's in `request_graph`; `request_saves` sets it to 1 because the loop has
  no part in what it checks. One shared user row and two connections let one
  transaction wait for the other with the last connection in hand.
- *Freshness.* Day, TTL and stale limit are in the relation the property needs,
  with a tick to spare (3 + 8 + 1 = 12); the proof is for all values.
- *Night.* Three listed stocks in pages of two are a full page and a short one; a
  stock that joins makes the second page full, one that leaves shifts the pages,
  and two outside events let both happen, or one of them and a row that ages
  between passes. One of the listed stocks is new, one stale, one still
  current, so that a batch can be full or not and a second pass can find others
  than the first. One permit makes tasks queue; two passes are the default.
  `MaxOutside` bounds moves, ageing and refreshes together.
- *Life cycle.* With days of four ticks and a horizon of two days the loop plans
  up to three runs, and the repeated hour lies between two of them. One call
  hangs or ends. `Horizon` bounds the clock and gives way to a grace period or
  a run that is under way, so that liveness does not depend on it.
- *Ranking.* Lists of three of four stocks have every kind of overlap, with and
  without a cut. The samples lie on and beside the edges of bands and clamps;
  one makes a loss. `RRFK` is the code's; the proofs are for all lists, limits
  and metrics.

### Fairness

Fairness is stated for three things and weak throughout: a coroutine that can
run is run (the event loop), a call that a coroutine waits for ends (`GetCandles`
is given a timeout, database and OpenAI calls are taken to answer or fail), and
a gather whose children have ended returns. In `NightlyBatch` these are the
steps of the two parts and their returns; in `ServiceLifecycle` time, the steps
of `_amain`, those of the loop, and the end of calls that were *cancelled*: a
call nobody cancels may hang, which is what the grace period is for. Nothing
else is forced: no
cancellation, no failure, no write of another, no expiry. The pool has no limit
on how long a statement may run, so an unresponsive database would hang a
handler; `EveryHandlerEnds` assumes it is not.

## 4. Proofs

All are for arbitrary constants that satisfy the assumptions named in the
component's module (`LimiterAssumption`, `ReaderAssumption`,
`RequestAssumption`, `SettingsAssumption`, `StocksAssumption`,
`CatalogAssumption`, `WarmerAssumption`, `NightAssumption`,
`LifecycleAssumption`, `RankingAssumption`), with no bound on requests, stocks
or time. TLC evaluates each assumption in the runs. Every invariant and every
action property of the runs that pass is a theorem here, and so is the
refinement of `AdvisoryContract`.

**`RequestRateLimiterProofs`**: `TypeCorrect`, `RateIsBounded`, `NoSlotIsLost`,
`WindowIsBounded`.
`RateBound` compares arbitrary pairs of past starts, which no step can be shown
to preserve on its own. The invariant relates each past start to
`_next_allowed`: the start at position i is at least as many intervals behind it
as there are starts from i on, less the one a late sleeper can lose. That is
inductive because every return adds one start and one interval. `NoSlotIsLost`
rests on the holder being the only one who moves `_next_allowed`, and on the
reservation being made after the sleep, which is why a cancelled sleeper leaves
nothing behind. `WindowIsBounded` is `RateBound` as Stock Service sees it: in any
n intervals one limiter starts at most n + 1 calls, as the starts in a window
lie within n of the first of them.

**`MetricsReaderProofs`**: `TypeCorrect`, `NothingLeaks`, `NothingMissingIsScored`,
`OnlyFailureOrphans`, `RefreshesAreSpaced`, `AnswersAgree`, `NoCircleOfWaits`,
`ChildrenOnlyGoOn`. The invariant has eight conjuncts.
`LocksAccounted` is inductive by itself; `PermitsAccounted` needs the cardinality
of the set of fetching children under each step, a cancellation included, which
gives back as many permits as the request's children had. `MissingNeverScored`
needs `Tested`: a child past the second look has values that passed it.
`OnlyFailureOrphans` needs that a request not yet made has no children.
`RefreshesAreSpaced` needs `RefreshSeen`: between the second look and the write
of a child, the last refresh of its row is one the child has seen to be
expired. No other child can have refreshed it meanwhile, because the lock is
exclusive; the warmer may have, and does not count.

`AnswersAgree` needs an invariant of its own, `Agreed`: whatever a child has read
or fetched carries a stamp no later than the last write, and copies with one
stamp, the row's own included, are alike once rounded. A write takes a stamp
nobody has, so only the writer can hold a copy of it, and rounding twice is
rounding once. No history of the values written is needed: a copy that the row
has since lost is only compared with other copies.

`NoCircleOfWaits` and `ChildrenOnlyGoOn` are what `EveryChildEnds` and
`EveryCallEnds` rest on besides fairness. Locks are taken before permits, and a
child with a permit waits for nothing another child has: of a child that is not
done, it, the holder of its lock or one that has a permit can go on. No step takes
a child back to an earlier place. `CanGoOn` is the guards of `Child(c)` written
out, as ENABLED is out of the prover's reach; TLC finds the two equal on the
instances of the runs. The same holds of the next module and of the night.

**`AdvisoryRequestProofs`**: `TypeCorrect`, `SavesAreAccounted`,
`TablesAgree`, `OnlyValidRoundsAreStored`, `StatusIsTrue`,
`RequestsKeepTheContract`, `NoCircleOfWaits`, `HandlersOnlyGoOn`. The invariant
says of each request by itself how far it has come and what it has written
(`Progress`), where in its life it can have rows (`Storage`), and what its reply
says of the store (`Truth`) and of the work (`Status`); then the pool, the users' rows and the two tables
over all requests. A step moves one request, so `OthersKeep` disposes of the rest
once and each action has a lemma about the request it moves. `Progress` is what
makes the others inductive: while a round is written,
`written = retries * Len(scored) + Len(recs)`, which a failed validation turns
into one more retry and an empty round; and from validation to commit the
recommendations do not change, so what is stored is what was validated. For the
contract, a commit is its `Save`, an end or a departure with a client still
waiting its `Reply`, every other step a stutter.

`NoCircleOfWaits` is why a pool full of transactions of one user empties itself:
who waits for the user's row has its connection already, and who has the row
waits for nothing. `HandlersOnlyGoOn` bounds the one loop of the graph: a step
takes a request to a later place, to its next text or to its next round, and
texts and rounds are bounded by the candidates and `MAX_RETRY`. Together they
leave to `EveryHandlerEnds` only that what can go on does.

**`MetricsFreshnessProofs`**: `TypeCorrect`, and `SettingsThatFitSuffice`: if the
stale limit, a day and the duration of a run together are at most the TTL, a
value is renewed before it expires. A covered value is at most as old as the
stale limit plus the time since a daily run last looked at it. The defaults fail
the condition by half a day and the length of a run.

**`NightlyBatchProofs`**: `TypeCorrect`, `OnlyFailureOrphans`,
`NewStocksGetWarm`, `NightNeverStalls`, `NightOnlyGoesOn`. Jobs that live belong to a sync that is gathering or has
failed, tasks that live to a warming that is or has: `BatchDone` and `PageDone`
are the only ways out of a gather that leave nothing alive, and a cancellation
ends the children of the one under way. For the new stocks: what the sync
inserted is `stale` or `fresh` until the first pass lists it, as nothing makes a
row `old` again.

The last two are to `NightEnds` what the ones above are to the end of requests.
`NightNeverStalls` needs `Whole`: the jobs of a gather that has not failed are
queued, at work or done, none has failed or was forgotten, so that when nobody is
at work either a queued one can start or the gather is over. `NightOnlyGoesOn`
orders the sync by page, place and jobs, and the warming by pass, place, batch
and tasks; every step of the one or the other goes up. The number of pages is
the one told last and may change with each page, but it never exceeds the number
of stocks (`FewSlices`), so that a listing that moves cannot keep `sync_all`
paging for ever.

**`NightlyCountsProofs`**: `RefreshedCountIsTrue`, `NoTargetIsLeftOut`,
`NoListedStockIsSkipped`, `SyncedCountIsTrue`. For the warmer, a stock written in
one pass is `fresh` and so in no later list; the tally of a pass is the number of
outcomes in the batches before `cut`, and the batches of a list partition it by
rank. For the sync, `Copied`, `Unread`, `Tallied` and `ReadOnce` say which stocks
the pages read so far have covered: while nobody is delisted the rank of a
listed stock never falls, so one that was not read is still on a page to come,
and while nobody joins ranks never rise, so none is read twice. That the pages
between them hold everyone needs that ranks fill an interval (`RankIsOnto`, by a
pigeonhole argument on cardinalities).

**`ServiceLifecycleProofs`**: `TypeCorrect`, `PoolIsClosedLast`,
`StartupsDoNotOverlap`, and, if the daily time is outside the hour that the
change of the clock repeats or skips (`SyncHourIsUnique`), `EveryRunIsPlanned`
and `NoDateRunsTwice`. `Stages` says which tasks and calls can be alive at each
stage of `_amain`, `Startups` that the start-up warming exists only where the
loop did not begin with a run, `Clock` what the planned date and the last one
are to the time at which the loop went to sleep. The two about dates need that
local and UTC time order the daily moments alike, which is what the assumption
gives. `SyncHourIsUnique` is an assumption of these two theorems, not of the
model; the instance of `lifecycle` satisfies it.

**`RankingProofs`**: `TypeCorrect`, `FoundByBothFirst`, `BestHitsSurvive`,
`NoWorseIsNoLater`, `LowScoresExplained`, for all result lists, limits and
metrics, where `ranking` has lists of three and six samples; and of the score by
itself `ScoreIsAFraction`, `NoWorseScoresNoLess`, `LowScoreHasATag`. They come in
four layers.

- *Sorting.* In a finite strict total order the numbers of predecessors are
  different for different elements and below the size of the set, so each place
  of `Sorted` is taken exactly once (`EveryPlaceIsTaken`: an injection between
  sets of one size is onto). No induction over sequences is needed.
- *Fusion.* RRF sums are compared by cross-multiplication. `BothAbove`, two terms
  exceed one term at whatever ranks, is where `RRF_K + 2 > top_k` is used.
  `FusionIsStrict`: with the place in the dict as tie-break the order is strict
  and total.
- *What the cut keeps.* Only stocks that both searches found precede the best by
  meaning; before the best by keyword there may be the best by meaning, too
  (`BeforeTheBest`). Counting them against `top_k` gives `BestHitsKept`, with its
  single exception.
- *Scoring.* Clamping, halving and rounding are each monotone; with the sort
  that gives the properties of the final list.

The inductive invariant adds `Placed` to the types: after the fusion the
candidates are the sorted, cut list, after the scoring the result is `Best`.

**Only model-checked**: the liveness properties `EveryChildEnds`,
`EveryCallEnds`, `EveryHandlerEnds`, `NightEnds`, `LoopGoesOn` and
`SignalEndsService`, which rest on fairness and are out of the prover's reach. Of
the first four the safety half is proved, that somebody can always go on and
nobody goes back; what stays with TLC is the step from there to the end.

## 5. Not modelled, and why

- SQL ranking, embeddings, prompts and texts: data of other systems.
- The volatility formula: logarithms and a standard deviation of real numbers.
- The DDL of the schema and the wiring of `bootstrap.py` beyond what succeeds or
  ends the process: they make no decisions at run time.
- Faults of the database beyond failed calls: isolation is taken to be what
  PostgreSQL gives single statements and the one transaction here.
- Several replicas of the service: locks and limiters are per process, and so are
  the models. The database rows would see other writers, as they do here.
- Clocks of the application and of the database are taken to agree; `age` and
  `horizon` do not tell them apart. A system clock that is set back is not
  modelled in `ServiceLifecycle`.
- Orphans of an earlier night: a night begins without any. They are bounded by
  the timeouts of their calls, which are far shorter than a day.

## 6. Plan

Done in this order, because each later part uses what the earlier establish:
limiter, reader with its rows, request with its contract, freshness, night,
life cycle, ranking. What is left:

1. Reader, sync and warmer over the same rows in one composition, in place of the
   reader's abstract writers `Warm` and `Upsert`, and the abstract specification
   of a cached row that it implements.
2. The three limiters together, with a bound on the sum of their starts.
