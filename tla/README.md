# TLA+ models of gosoline's producer daemon, currency package and metric writer

This directory holds TLA+ models of the repository's source. They are checked
with TLC. The centre of the project is `stream.ProducerDaemon`
(`src/unnamed/part_006`). It is the only component in the source with
concurrency, shared state, failures and a shutdown protocol. The other files are
smaller services. The currency package has an updater goroutine that writes a
shared store while conversions read it. The CloudWatch writer is a sequential
filter-and-chunk algorithm. Both are modelled as well (sections 4 and 5).

## 1. Inventory

### 1.1 ProducerDaemon (`src/unnamed/part_006`)

The daemon buffers messages from many callers, folds them into aggregates,
groups them into batches, and hands the batches to a pool of goroutines that
write them to an `Output` (the sink).

**State** (struct `ProducerDaemon`, lines 39-54):

- `aggregate`: raw messages not yet folded.
- `batch`: carriers not yet dispatched. A carrier is a raw message, or an
  aggregate when `AggregationSize > 1`.
- `lck`: the mutex guarding both buffers.
- `outCh`: the `OutputChannel`. It is bounded by `BufferSize` and can be closed.
- `ticker`: the periodic flush timer.
- `settings`: `BatchSize`, `AggregationSize`, `BufferSize`, `RunnerCount` and
  `Interval`.

The package also keeps a registry `producerDaemons`, guarded by
`producerDaemonLock` (lines 24-25).

**Operations and goroutines.**

| code | what it does |
|---|---|
| `Write` (153-174) | Under `d.lck`: `applyAggregation`, append to `d.batch`, and at `BatchSize` `ticker.Reset` and `flushBatch`. It returns a marshaller error. |
| `applyAggregation` / `flushAggregate` (197-233) | Append. At `AggregationSize`, cut that many messages from the front and fold them with the marshaller. On error the cut messages are gone. |
| `flushBatch` (235-250) | Cut up to `BatchSize` carriers from the front and `outCh.Write` them. This blocks while the channel is full, **with `d.lck` held**. |
| `tickerLoop` (176-195) | Each tick: `flushAll` under `d.lck`, and errors are only logged. On `ctx.Done`: `ticker.Stop` and return. |
| `flushAll` (252-264) | One `flushAggregate`, append its carrier, one `flushBatch`. |
| `outputLoop` (278-302), `RunnerCount` goroutines | `outCh.Read` until the channel is closed and drained, then `output.Write`. Errors (cancelled or other) are logged and the batch is lost. |
| `Run` (123-147) | Starts the output loops and the ticker loop in a coffin. It waits for `cfn.Dying()` or `kernelCtx.Done()`, then `close()`, then `cfn.Wait()`. If `close()` fails, it returns at once. |
| `close` (266-276) | `flushAll` under `d.lck`, then the deferred `outCh.Close()`. |
| `ProvideProducerDaemon` / `ResetProducerDaemons` (56-79) | Looks up or creates the daemon for a name in the global registry. |

**Interactions.** Writers, the ticker loop and `close` share the buffers through
`d.lck`. The output loops share only the channel with them. The coffin turns a
task's error or recovered panic into "dying", which cancels every task's
context. The `OutputChannel` and the coffin are not under `src/`. They are
modelled from the spec (§4.4, §9).

**What is hard.**

- Several goroutines interleave on one lock.
- A channel send blocks while the lock is held.
- A tick can race with cancellation.
- Marshaller and sink failures lose messages part way through an operation.
- Shutdown must drain the buffers.
- The sink sees batches in a different order when there are several workers.

**What makes it correct.**

- No message is lost or duplicated other than by a documented drop (fold
  error, sink error).
- Batches are formed in arrival order.
- Carriers and batches respect their sizes.
- The forced flush moves buffered messages out.
- Shutdown drains everything and `Run` returns.
- A `Write` after shutdown must not succeed (spec §3, §8).

### 1.2 Other components

| component | source | state / operations | properties worth checking |
|---|---|---|---|
| Daemon registry | part_006:56-79 | map name -> daemon, mutex | lookup returns the created daemon; a failed creation does not poison the name |
| CloudWatch metric writer `cwWriter` | pkg/mon/metric_writer_cw.go | stateless; filter by priority, timestamp window, dimension validity; chunk by 20 | every valid datum sent exactly once; chunks ≤ 20; order kept |
| Currency service | pkg/currency/service.go:1-104, part_001 | KV store lookups; `ToEur`, `ToUsd`, `ToCurrency`, AtDate variants | success implies a rate was found (no division by a missing rate) |
| Currency updater + `fillInGapDays` | pkg/currency/service.go:105-349 | refresh if older than 8h: put each rate and its historical key, then the date; 90-day import with gap filling | a refresh date is written only after all rates; gap filling covers every day in range with the previous known day |
| Currency module | part_000:84-145 | refresh at start and hourly until ctx done | (sequential loop) |
| Logger, HTTP logging middleware, lambda bootstrap, fixture writer, tests | part_005, part_000, part_004, part_003, part_002, pkg/test | formatting and I/O | not modelled |

## 2. Plan

In order of importance:

1. **`ProducerDaemon`**, the core (done in the first sitting). It covers
   writers, ticker, close and workers as one module, with the lock, the bounded
   channel, the coffin and the failures. `MCProducerDaemon` instantiates it.
2. **`ProducerDaemonQueue`**, an abstract specification (done). The daemon is
   a FIFO of messages that may drop but never duplicates or reorders before
   dispatch. `ProducerDaemon` is shown to implement it through
   `INSTANCE ... WITH`, with the mapping pending =
   `Ids2(outCh) \o Ids(ready) \o Ids(batch) \o aggregate`.
3. **`ProducerDaemonRegistry`** (done). It models `ProvideProducerDaemon` with
   concurrent callers and a construction that can fail. It shows the nil-entry
   bug at part_006:72.
4. **`CwMetricWriter`** (done). It models `buildMetricData` and `Write` as operators
   (filter, then chunk by 20), checked against a reference partition over small
   inputs. Failing `PutMetricData` calls are also covered.
5. **`Currency`** and **`CurrencyGapFill`** (done). It models the conversion service over a store with missing
   keys and errors, in both versions (`errors.WithMessage` in service.go,
   `fmt.Errorf` in part_001). It also models the updater with store failures
   between puts, and `fillInGapDays` as a RECURSIVE operator checked against a
   reference.
6. **The ECB publication schedule** (done). `Currency` models publication at
   16:00 with holidays, in place of an arbitrary daily file, so that which day
   a historical key holds can be checked (`currency_stale_history`).
   `MetricDatum.Id` and `DimensionKey` are modelled with Go's map iteration
   order as an input.
7. **The import's result** (done). `Currency` records the days a complete import covered, so that
   `ImportRepairsHistory` can check them in a run with a holiday to fill.
8. **Liveness of the currency module** (done). `RunStopsWhenCancelled` holds
   under fairness for the `Run` goroutine only. A claim that a refresh
   eventually succeeds is left out: nothing in the code makes the store or
   the ECB answer, so it would hold only under an environment assumption the
   code does not give.

## 3. The ProducerDaemon model

`ProducerDaemon.tla` represents messages as the numbers `1..MaxMsgs`, in the
order callers hand them over. A carrier is the sequence of messages it folds. A
batch is a sequence of carriers.

**Variables.**

- `aggregate`, `batch`, `outCh` are the same fields as in the code.
- `lck` is the lock holder.
- `ready` is the batch the lock holder is sending.
- `wpc`, `tpc`, `rpc`, `opc` are the program counters of the writers, the
  ticker loop, `Run` and the output loops.
- `cancelled` and `dying` are the kernel context and the coffin.
- `inflight` is each worker's batch.
- `sunk` and `lost` are where messages end up.

**Actions.**

- `Write` has one disjunct per exit of the code: `WriteFailed`, `WriteBuffered`,
  `WriteFlush`. `WritePush` completes the blocked send.
- `Tick` / `TickPush` / `TickerStop` model the ticker loop.
- `RunClose` / `ClosePush` / `RunWait` model `Run` and `close`.
- `Read`, `SinkWrite` and `WorkerPanic` model `outputLoop`.
- `Cancel` is the environment.

The shared helpers `FlushAggregate`, `ApplyAggregation`, `ReadyBatch` /
`RestBatch`, `FlushAll` and `OutChWrite` are written once. They are used by
every action that calls the corresponding Go function.

**Abstractions.**

- Time is not modelled. A tick can happen whenever the ticker loop is free, so
  `ticker.Reset` has no effect on the state.
- Metrics and logging are left out. The metric writes are fire-and-forget
  counts and averages that no other part of the daemon reads.
- A cancelled sink error and any other sink error have the same effect (the
  batch is lost). They differ only in log severity.

**Bounds.**

- `MaxMsgs` bounds the total number of messages.
- `MaxWrite` bounds the messages per call. Calls of size 0 are included: they
  flush a surplus.
- `MaxPanics` bounds worker panics.

The runs use `BatchSize = AggregationSize = 2` and `MaxWrite = 3`, so a single
`Write` crosses a threshold and leaves a surplus. `BufferSize = 1`, so the
channel fills and senders block. Two writers and two workers give the
interleavings.

**Fairness** (`FairSpec`).

- Callers and cancellation are not fair.
- A goroutine blocked in a send or a read proceeds once it can. This is weak
  fairness for `WritePush`, `TickPush`, `ClosePush`, `Read`, `SinkWrite` and
  `RunWait`.
- `Tick` and `RunClose` need `d.lck`, and `TickerStop` competes with the tick
  in a `select`. These are only intermittently enabled. Strong fairness is
  justified by `sync.Mutex`'s starvation mode and by `select`'s uniform random
  choice.

### Runs

| run | cfg | expect | what it shows |
|---|---|---|---|
| daemon_safety | daemon_safety.cfg | pass | `Conservation`: every message is in exactly one place (buffer, channel, worker, sink, dropped). `FormationOrder`: channel, sending batch, `d.batch` and `d.aggregate` are in arrival order. `WellFormedDispatch`: carriers are 1..A consecutive messages and batches hold 1..B carriers. `QueueRefinement`: the daemon implements `ProducerDaemonQueue`; messages join at the back, leave only from the front to a worker, and disappear only into `lost`. It uses 2 writers, 2 workers (one may panic) and marshaller errors. |
| daemon_liveness | daemon_liveness.cfg | pass | `SinkOrder`: with one worker, the sink receives messages in the order `Write` took them, across 2 writers, ticks and close. `Dispatched`: while not shutting down, buffered messages leave the buffers. `RunReturns`: after cancellation, `Run` returns. No worker panics in this run (`MaxPanics = 0`); the panic path is checked by daemon_safety and panic_deadlock. |
| close_drain | close_drain.cfg | violation | `DrainedOnClose` (spec §4.6, §8): `close()` flushes one batch and then closes the channel, so a message stays in `d.batch` forever. |
| panic_deadlock | panic_deadlock.cfg | violation | `RunReturns`: the only worker panics while a writer is blocked on the full channel holding `d.lck`. `close()` never gets the lock. |

### The registry model

`ProducerDaemonRegistry.tla` splits `ProvideProducerDaemon` into three steps:

1. `Provide`: take the lock.
2. `Lookup`: a hit returns the entry.
3. `Construct`: `NewProducerDaemon` succeeds, or fails and stores nil.

`Reset` models `ResetProducerDaemons`. Daemons are the numbers
`1..MaxDaemons`. `0` means no entry and `-1` a nil entry. The history variable
`issued` records the daemons handed out per name since the last reset.

| run | cfg | expect | what it shows |
|---|---|---|---|
| registry_safety | registry_safety.cfg | pass | `OneDaemonPerName`: 3 callers, 2 names, failing constructions and resets never hand out two daemons for one name between resets. |
| registry_nil_entry | registry_nil_entry.cfg | violation | `NilErrorMeansDaemon`: after a failed construction, the next call returns `(nil, nil)`. |

### Findings

- **Write leaves a surplus** (not a run). `Write` cuts one aggregate and one
  batch per call, so a large `Write` leaves a surplus. The spec's example (25
  messages, batch 10: two batches at once) does not hold: the code sends one
  batch. `BuffersBelowThreshold` states the spec's invariant; with
  `MaxWrite = 4` and `A = 2` TLC finds it violated by a single `Write`.
- **Shutdown strands messages.** Shutdown flushes only one aggregate and one
  batch. Everything else still buffered is lost silently (part_006:271).
- **Write accepts messages after close** (not a run). `Write` after close
  returns nil (part_006:153); `NoWriteAfterClose` states the spec's rule and
  TLC finds it violated. `Conservation` shows such messages are still
  accounted for, in a buffer or among the dropped ones.
- **A worker panic can deadlock shutdown.** When the output loops have all
  panicked, a send blocked under `d.lck` deadlocks shutdown (part_006:249).
- **A failed construction poisons the registry.** `ProvideProducerDaemon`
  stores the nil daemon of a failed construction. Later calls for that name
  return `(nil, nil)` (part_006:72).

## 4. The currency models

### The module `Currency.tla`

`Currency.tla` models three parts:

- the conversion service: `src/pkg/currency/service.go` lines 1-104, and the
  later version in `src/unnamed/part_001` with the `AtDate` variants;
- the updater: service.go lines 105-300;
- the background `Module.Run` loop: `src/unnamed/part_000` lines 84-145.

The constant `Version` selects which service file is run. The updater's
goroutine and the readers share one key-value store:

- `rate`: currency -> rate, or `Absent`;
- `hist`: `<<day, currency>>` -> rate, or `Absent`;
- `refreshDate`: `ExchangeRateDateKey`.

**Data abstraction.**

- A current rate is the hour it was fetched.
- A historical rate is the ECB day it was published for.
- The refresh date holds the hour it was written. It also holds, as a history
  field, the hour of the fetch it closes.
- Amounts are left out. A conversion's outcome is whether it erred, whether the
  store failed, and whether it went on past a rate the store did not have.

**Updater actions.** Each store or HTTP call is one action, and each may fail
when `Failures` is TRUE:

- `CheckRefresh` is `needsRefresh`.
- `Fetch` is `getCurrencyRates`. The daily file holds the ECB's latest
  publication: the ECB publishes each working day's rates at 16:00
  (`ECBPublishHour`), and publishes nothing on the days in `Holidays`.
  `PublishedDays(h)` is the environment; `RatesOfDay(d)` is the day whose
  rates are in force on day `d`.
- `PutRate` and `PutHist` are the two Puts per rate. An error returns at once.
- `PutDate` stores the refresh date last.
- `Import` is `ImportHistoricalExchangeRates`: the fetch, `fillInGapDays`,
  `keyValues`, then a `PutBatch` that on failure may have written any part of
  the batch. The 90-day file lists every published day. The history variable
  `importedDays` collects the span (oldest to newest published day) of every
  import whose `PutBatch` succeeded; no action reads it.
- `OnTick` and `OnDone` are `Run`'s `select`. `Clock` advances the hour and
  fills the one-slot ticker channel, dropping ticks as `time.Ticker` does.
  With `SlowCalls` TRUE a refresh may take any number of hours. With
  `SlowCalls` FALSE the calls finish within the hour: the clock moves only
  while `Run` waits in its `select` with the last tick taken.
- `Cancel` is the kernel cancelling the context.
- `Crash` kills the process between any two store or HTTP calls. `Restart`
  starts the application again after a crash or a shutdown: a new `Run` with
  its first refresh and then the import. The key-value store keeps its
  contents. Both are bounded by `MaxRestarts`.

**Reader actions.**

- `Call` covers the early returns of every operation: EUR in `HasCurrency`,
  `from == to`, and EUR/USD in `ToEur`/`ToUsd`. `HasCurrency` is a single
  `Contains`.
- `GetTo` and `GetFrom` are the two `getExchangeRate` reads of `ToCurrency`
  and `ToEur`. They are separate steps, so the updater can write between them.

### The module `CurrencyGapFill.tla`

This module holds `fillInGapDays` (service.go lines 306-349). `FillStart` is
the first loop's result (startDate, lastDay, counter 0), `FillStep` one
iteration of the `for` loop on a loop-state record, and `FillLoop` the
`RECURSIVE` loop that `Currency`'s import uses. Days are naturals.
`Unparsable` stands for a date `GetTime` rejects.

`MCCurrencyGapFill` runs the loop one `FillStep` per TLC step (a 180-deep
recursion would exhaust the Java stack) and compares the result with a
closed-form reference: the
input, followed by one entry per missing day, copied from the latest earlier
day. It checks every response of up to 3 entries, with dates drawn from
{0, 2, 3, 180, 181}, so spans of 180 and 181 days are reached at the loop's
`counter > 180` bound.

### Bounds and fairness

- **Updater run.** The clock runs from 20:00 of day 0 to 05:00 of day 1. The
  first refresh may cross midnight between the fetch and the Puts, and a second
  refresh becomes due at 05:00. One crash or shutdown with a restart may
  happen at any point. ECB lists 2 currencies, and there are 3
  currencies in all.
- **Reader run.** One reader is checked against the first refresh and the
  import, with every operation and both `AtDate` forms. Day 1 is a holiday
  and `Run` starts at 16:00 of day 2, so the 90-day file lists days 0 and 2
  and the import has a gap to fill. The ECB lists one currency (USD) and GBP
  is never stored, which keeps the partial `PutBatch` subsets small. No
  refresh comes after the import in this run. The updater run does not
  check `ImportRepairsHistory`; its `VIEW NoHistoryView` leaves
  `importedDays` out of the state.
- **Stale-history run.** There are no failures and no slow calls, and `Run`
  starts at 15:00 of day 1, an hour before that day's publication. The clock
  runs to midnight, the first hour at which day 1 is over.

**Fairness** (`FairSpec`, used by the reader run). Only the `Run` goroutine
is fair. Every store and HTTP call returns, with or without an error, so
each step of a refresh and of the import (`UpdaterStep`) is weakly fair. The
fairness says nothing about the outcome: a failure is a step of its own
(back to the `select`), so fairness never forces a call to succeed. In the
`select`, `ctx.Done` competes with `ticker.C`, and Go picks among ready
cases at random, so `OnDone` is strongly fair. Readers, the clock,
cancellation, crashes and restarts are the environment and are not fair.
Nothing in the code makes a store or HTTP call eventually succeed, so no
liveness claim depends on success.

One limit follows from this. A retry loop inside a single call that changes
no modelled state would be a stutter step, and weak fairness would force its
succeeding branch. The mutant for `RunStopsWhenCancelled` is therefore a
retry that passes through visible states: `Run` repeats its refresh and
import until the batch is stored.

### Runs

| run | cfg | expect | what it shows |
|---|---|---|---|
| currency_updater | currency_updater.cfg | pass | `RefreshDateVouchesRates`: while the refresh date is set, every listed currency has a rate from that fetch or a later one, plus a historical rate for that fetch's day. This holds however Puts fail, however later refreshes and the import interleave, and across a crash and restart with the store kept. `needsRefresh` relies on it. |
| currency_reader | currency_reader.cfg | pass | `RunStopsWhenCancelled`: under `FairSpec`, once the context is cancelled `Run` gets back to its `select` and returns, however the calls fail. The reader's calls have no property of their own here (the reads are checked by the violation runs below); they run so that updater writes interleave with `GetTo` and `GetFrom`. `ImportRepairsHistory`: after an import whose `PutBatch` stored the whole batch, every day of the span, the holiday included, holds the rates in force on it. This is what the code's comment ("fill in the missing values using values from previously available days") promises. A gap copy that kept the Time of the day it came from would leave the holiday unset. |
| currency_nil_error | currency_nil_error.cfg | violation | `ErrorWhenRateMissing` (service.go): `ToUsd(EUR)` before the first refresh returns 0 with a nil error. |
| currency_to_eur | currency_to_eur.cfg | violation | `SupportedPairConverts`: `ToCurrency(EUR, v, USD)` fails although the store has the USD rate and the store does not fail. `GetTo` errs on the EUR lookup before it reads USD, so `foundFrom` records whether the store holds USD when the call returns. |
| currency_stale_history | currency_stale_history.cfg | violation | `HistoryHoldsRatesOfDay`: once a day is over, its historical key holds the rates in force on that day. The claim applies while the module runs and its import is done. The refresh at 15:00 stores day 0's rates under day 1. The 23:00 tick finds the refresh not yet due, so at midnight day 1 keeps day 0's rates. |

### Findings

- **A missing rate reports success (service.go).** `errors.WithMessage(nil, ...)`
  is nil, so `getExchangeRate` reports a missing key with rate 0 and no error
  (service.go:100). `ToCurrency` then returns 0, and `ToEur` divides by zero,
  both with a nil error. The doc comments say they return an error.
  part_001's `fmt.Errorf` fixes this.
- **Converting into EUR always fails.** `ToCurrency` always reads a rate for
  `to`. ECB rates are quoted against EUR, and the updater never stores an EUR
  key. So `ToCurrency("EUR", ...)` fails in part_001 (part_001:83). In
  service.go it returns 0 with a nil error.
- **A day's historical rate can stay stale.** `EnsureRecentExchangeRates`
  keys the daily file by the hour the refresh ran (service.go:182). Before
  16:00 that file still holds the previous day's rates. `needsRefresh`
  compares strictly against now - 8h, and the ticker is hourly, so refreshes
  come 9 hours apart. That stride can step over the 8 hours between
  publication and midnight: a refresh at 15:00 is followed by none until
  midnight. The day's key then keeps the previous day's rates.
  part_001's `AtDate` conversions, documented as converting "at the given
  time", use those rates. Only a restart's import rewrites the day.

## 5. The CloudWatch writer model

`CwMetricWriter.tla` models `cwWriter.Write` and `buildMetricData`
(`src/pkg/mon/metric_writer_cw.go` lines 111-213) as operators:

- `Kept` is the per-datum filter: priority, the timestamp window after a zero
  timestamp is set to now, empty dimensions, and the SDK's empty-name check.
- `ChunkLoop` is the `for` loop over chunks of `chunkSizeCloudWatch`. It takes
  the set of PutMetricData calls that fail.

`buildMetricData` never returns an error, so `Write`'s error branch is dead.
The model states this.

`MetricDatum.Id` and `DimensionKey` (lines 43-59) are operators too. A string
is a sequence of byte values. `order` lists the dimension names in the order
Go's randomised map iteration visits them. `StrLess` is `sort.Strings`' byte
order, and `Join` is `strings.Join` with "-". The inputs are every pair of
data with names "a" or "b", up to three dimensions named "a", "b" or "ab",
values "", "a" or "ba", and every iteration order.

`MCCwMetricWriter` tries these inputs:

- batches of 0, 1, 19, 20, 21, 40 and 41 data;
- at most one unusual datum (low or zero priority, each side of each window
  edge, a bad dimension, no name) first, at a chunk boundary, or last;
- any of the first 3 calls failing;
- the writer enabled or disabled.

### The reference-checks run

`MCReferenceChecks` holds the three pure-function checks in one model. An
initial state picks the gap-fill computation with one input, the writer with
one input, or a pair of data whose `Id`s are compared. The other
computations' variables keep a fixed value, so the state space is the sum of
theirs, not their product.

| run | cfg | expect | what it shows |
|---|---|---|---|
| reference_checks | reference_checks.cfg | pass | `FillMatchesReference`: every missing day is filled once, from the latest earlier day. An unparsable date fails the call. The 180-iteration bound cuts nothing off for spans up to 180 days, and the 90-day import stays inside it. `WriteMatchesReference`: each eligible datum is sent exactly once, in order, in ceil(n/20) calls of at most 20, never an empty call. A failed call loses only its own data. `IdIdentifies`: two data have the same `Id` exactly when they have the same name and dimensions, whatever the iteration order. This is checked for names and values without separators. With separators, `Id` is ambiguous: name a with b = "c-d:e" and name a with b = "c", d = "e" give the same `Id`. No caller here compares `Id`s, so no claim covers that case. |

## 6. Not modelled

- The logger, the HTTP middleware, the lambda bootstrap, the fixture writer and
  the test files are formatting and I/O, with no concurrent or persistent state.
- The daemon's four metric writes (MessageCount, AggregateSize, BatchSize,
  IdleDuration) are fire-and-forget, and their values depend on nothing else
  in the state. The idle duration,
  clamped to the flush interval, is a wall-clock reading, and time is not
  modelled.
- `MetricDatum.IsValid` checks three fields and has no caller in this
  repository. The constructors `NewMetricCwWriter*`, `New`, `NewUpdater*` and
  `NewCurrencyModule` only wire dependencies together.
- The logger (part_005) serialises output under one mutex and copies itself
  on every `With*`. Its `Option`s, hooks and formatters live outside this
  repository, so there is no state to model beyond a lock around one write.
- The currency constructors (`New`, `NewUpdater`, `NewCurrencyModule`) only
  wire dependencies.
- The store's `PutBatch` and the HTTP client are not under `src/`. They are
  modelled as calls that may fail, and a failed `PutBatch` may have written any
  part of its batch.
