# Verification of the price feed infrastructure

TLA+ models of the collectors of market data, of the control plane that lets several
replicas of them share one exchange's rate limit, of the workers behind the queues and
of the algorithms that read what was stored; configurations that model-check them with
TLC; and proofs for TLAPS. Paths are relative to the repository; `DC` stands for
`src/lib/domain-collectors`.

## 1. The system

Collector processes poll exchanges and queue what they get; writers store it and
queue it for the WebSocket API; aggregators work on stored candles; the REST API
reads. Seeders write the configured markets to the database. The collectors form
replica sets: every process runs, per exchange of its bin, one `MarketsAMQPManager`
with a `ReplicaDiscoveryPolicy` that finds its peers, a `BackoffPolicy` that hears of
rate limit failures, and a `MarketsManager` whose schedulers must each use only their
share of the exchange's limit.

| Component | State it keeps | Operations | Interacts through | Modules |
|---|---|---|---|---|
| `TimeoutMutex` | lock of async-mutex, `currentRelease`, `timeoutHandle` | acquire, its closure, the timer and what extends it | discovery (phase lock), `MarketsManager` | `TimeoutMutex` |
| `ReplicaStateManager`, reducers | last lists of members | aggregate, share, sanitize, update, close, normalize | called by discovery | `ReplicaState` |
| `ReplicaDiscoveryPolicy`, `BackoffPolicy` | buffers, phase lock, `hasStarted` | HELLO, STATUS, SHARE, CLOSE, backoff, periodic rounds | fanout exchanges | `ReplicaDiscovery` |
| `BaseAMQPNetwork` | channel, private queue, retry queue | start, setup, consumer, retries, stop | RabbitMQ | `PolicyNetwork` |
| `MarketsAMQPManager`, `MarketEventsManager` | policies, listeners | start and stop in order, events | collectors, policies | `MarketEvents` |
| Process: runner, provider | managers that have started | start, signals, shutdown, exit | several managers | `CollectorsProcess` |
| `MarketsManager`, `CollectorsManager` | markets, internal scheduler, two locks | start, stop, reloadActive | schedulers, database | `MarketsManager` |
| Schedulers | dynamic configuration, cron task, timers, cycles | start, stop, reload, runOperations | timers, collectors | `RateSlots`, `RealtimeScheduler`, `Collection` |
| Candle collector | none | fetch, filter, publish | exchange, queue | `Collection` |
| Seeders | rows of exchanges and markets | reset, find, create, update | database, exchange | `Seeding` |
| `BaseAMQPWorker`, writers, price emitter | retry count in the message | process, handleRetry, findOrCreate | durable queues, database | `QueueWorkers` |
| Aggregation tasks | task rows and their status | create, process, save results | queue, database | `QueueWorkers` |
| Discrete aggregation, aggregation, gap check | open timeframe, carried record | walks over rows page by page | database | `Candles`, `CandleReads` |
| `RedisLRUCache` | sorted set and keys in Redis | add, get, remove, clear | Redis commands of several processes | `RedisLRU` |
| `ProcessAllocator` | bins | fill the bins | runner | `ProcessAllocator` |

What is hard here: every handler of the control plane is interleaved with timers,
messages and other handlers at each `await`; the phase lock is released by code
that does not hold it; rounds of several replicas overlap; shares, departures and
backoffs are debounced and cross each other; a replica may end at any point, with
or without telling; an error in a timer callback ends the process; messages are
delivered again when a worker dies or loses its connection, and a worker that lost it
goes on; reads and writes that belong together are several statements. `PROJECT.json`
lists the hazards with their lines and the properties about them.

What makes each component correct:

* lock: exclusion between holders in time, no lost wake-up, a hung holder is relieved;
* discovery: at rest, an exact and disjoint split of the exchange among the live
  replicas; nobody is terminated by what peers do; every round ends;
* backoff: nobody runs with a lower multiplier than it has heard of, all agree at rest;
* markets: one cron task per market, with the announced configuration, none after a stop;
* schedulers: disjoint slots and windows; every minute of a range collected, no gap and
  no unfinished candle in real time;
* network and process: messages are handled or given up after their retries, a
  reconnected policy consumes again, peers are told before the process goes;
* seeders: what is selected is what is configured, whoever fails;
* workers: a sent record is stored, or has failed too often, or its handler died after a
  stale tag had acknowledged it; it is announced once, but for what nobody confirmed; a
  task comes to an end its user sees; what is read in steps equals what is read at once,
  as far as pages allow that; the cache outgrows its limit by disturbed calls only.

## 2. Modules

### TimeoutMutex

One action per operation of `DC/utils/TimeoutMutex.js`, over the base Mutex of
async-mutex (external: a FIFO lock whose acquisitions each yield a releaser that
works once). `Acquire` is `acquire()` up to its `await`, `Enter` the rest, `Release`
the closure, which calls whatever releaser `current` (the field `currentRelease`)
holds by then, `Timeout` the timer. A client whose lock was taken away does not know
and calls its closure later.

### ReplicaState

Pure operators, one per method of `ReplicaStateManager` and its reducers: folding
STATUS messages into a state, SHARE messages into a state to adopt, CLOSE messages
into shorter lists, and a state into what a scheduler is given. A replica is
named by a number in the order of its queue address. The interval a replica reports is
`(baseRateLimit + margin) * multiplier * queueSize * operations`; the factor all
replicas of an exchange share is dropped, so that intervals are counted in multipliers.

### ReplicaDiscovery

The protocol, composed with `ReplicaState`. One action per handler between two
`await`s: `Greet`, `ShareDue`, `CloseDue`, `Resync` (acquire the phase lock),
`SayHello`, `Deliver` (the consumer and `process`), `StatusDue` and `MarketsStarted`
(`handleStatusMessage` with `handleTargetStart`), `HandleShare`, `HandleClose`,
`Reloaded` (the end of `reloadActive`), `PhaseTimeout`, `BackoffStart`,
`RateLimitExceeded`, `HandleRateLimit`, and the life of a process: `Boot`, `Stop`,
`Crash`. `Tick` is time.

* `phase` is the phase lock. The policy never uses the closure `acquire()` returns; it
  calls `release()` of the base Mutex, which frees the lock whoever holds it. `entered`
  tells whether the code after `acquire()` has run. The timer of a lock released this
  way is not cleared in the code, but finds the lock free or has been re-armed by the
  next holder; the model switches it off.
* `members`, `known` are the lists of the reducers and which of them are not null.
* `internal`, `running` are the dynamic configurations of the internal scheduler and of
  the collectors' schedulers. All markets of a replica are told the same, so one
  configuration stands for them.
* `reloads` is the queue of `reloadActive` calls at `reloadMutex`.
* `missed` is a history variable, used by properties only.

Order of messages: a queue keeps the order of each sender; messages of different
senders are interleaved freely. Time is in ticks: timers that are due and
continuations run before the next tick, and messages are delivered within a tick
unless the trial (`Trials`) lets their type be late. This is the code's own assumption:
the delays of the schema are debounces meant to outlast the delivery of a broadcast.
`SlowStart` lets the first start of the markets last longer than a tick.

A replica that fails (`life = "failing"`) is one whose process shuts down after an
unhandled error (`src/lib/BaseProvider.js:134-150`). It does nothing any more but stop.

### RateSlots and RealtimeScheduler

`RateSlots` has pure operators, one per method that computes a time:
`ScheduleUnitContext.getContext`, `closestDivisor`, `getIntervalContext`,
`setupInterval`, `setupIntraIntervalDistance` and the three delays. Every interval of a
cluster is cut into a window per identity, a window into a batch per market, a batch
into a slot per replica and operation.

`RealtimeScheduler` has the schedulers of all replicas that collect from one exchange.
`Start` and `Stop` are `start()` and `stop()` (a `reload()` is one after the other, its
sleep in between); `CronFires`, `ClusterTimer`, `BatchTimer`, `OperationTimer` are the
callbacks of the cron task and of the three kinds of timers, in any order when due at the
same time; `Tick` lets time pass until the next of them. `conf` is the dynamic
configuration that can differ between schedulers; `Next` starts them with what they had,
with what a backoff sets (the multiplier alone) or with what replicas agree on after it
(`SharedConf`). `timers` keeps of each timer whether the scheduler's descriptor still
`held` it: a descriptor is overwritten by the next timer of its kind, and `Stop` clears
only what is held. `last` is a history variable. Positions, queue sizes and replica
counts are constant (`layout`): how they come about is the matter of `ReplicaDiscovery`.

### Collection

Which minutes the scheduler of one market collects: the cycles and bounds of
`RestrictedHistoricalScheduler`, the interval bounds of the realtime scheduler, and what
`CandleStickCollector` makes of them (timeframe, limit, the filter that is inclusive at
both ends) over an exchange that answers the first `limit` candles since a time.
`CronRuns`, `RunOperations`, `Operate` are the steps of a batch, `Publish`,
`FetchFails`, `RateLimitExceeded` the answers, `Stop` and `Start` the two halves of a
reload. A reload for a backoff sleeps and keeps the interval (`BackoffPolicy` sets the
multiplier alone); one for a share or a departure (`sharing`) does not sleep and may set
any of `Intervals`, longer or shorter. Bounds are read when an operation runs, not when it
is scheduled. `repeat`, `windows`, `lost` are history variables; `lost` has the windows
that failed or that a stop dropped, and, of each reload, the time `Between` the last run
before it and the last multiple of the new interval before it has started, which no window
is about even though nothing fails: from 2 seconds to 3, the run at 4 has the window that
ends at 4, and the first one afterwards may be at 9 with the window that begins at 6.

### MarketsManager

One replica's `start`, `stop` and `reloadActive`, each a call that moves from `await` to
`await` (`StartBegins`, `CountMarkets`, `ListMarkets`, `StartMarket`, `StartEnds`;
`ReloadBegins`, `ReloadMarket`, `ReloadEnds`; `StopAll`) under `startStopMutex` and
`reloadMutex`, which are queues of calls; a `CollectorsManager` per market with the cron
task of its scheduler (`managers`) and the tasks no scheduler refers to any more
(`leaked`). Around it: the life of `MarketsAMQPManager` (`InitManagers` ... `Exit`), a
termination at any time, and a seeder that resets and sets up the markets meanwhile.

### MarketEvents

The events between collectors and policies of one replica, at every phase of its start
and stop: which listeners exist, which policies are built, whether their connections are
not there yet, open or closed, and what becomes of a rate limit failure or of the
request for a round that a backoff makes (`Fate`: published, kept, rejected).

### PolicyNetwork

The network of one policy: the setup that is run again after every reconnect, step by
step (`AssertQueue`, `BindQueue`, `AssertAndBindRetryQueue`, `SetupConsumer`), the
consumer with its acknowledgements and retries, `start()` of the policy that begins to
consume before `initPolicy()`, and the teardown that cancels the consumer, says CLOSE and
closes. A message is acknowledged on the channel of the moment, which after a reconnect
is not the one that delivered it: the broker then closes that channel (`deaf`), or takes
another delivery for acknowledged.

### CollectorsProcess

The process around the exchanges of a bin, realtime or historical: `start()` of all of
them, their schedules' promises, `shutdown()` by the end of those, by a signal or by an
unhandled rejection, each of which stops the managers listed at that moment, and the exit.

### Seeding

Several seeders at once, a query per step: finding or creating the exchange, resetting
its flags, loading its markets, then for every symbol looking up, writing or creating the
row, with the catches of the two loops and of `BaseEntity.save`. `UPDATE` writes only the
columns that changed; a lost race for the unique index is logged.

### QueueWorkers and RecordDelivery

The durable queues: `BaseAMQPWorker` with the market record writers and the task
aggregator. A message is a copy with its retry count, its place, the worker it was
delivered to and the number of that worker's channel (`of`); `Held` says whether the broker
still waits for it. The handler's saves, what it publishes and its acknowledgement are
steps of their own. `Disconnect` loses a worker's connection: what it `Held` is queued
again (`QueuedAgain`) while the process goes on with its handlers; `Die` ends a process,
with everything it has in hand. `Connect` comes back with a new channel.

The worker acknowledges on the channel of the moment (`getChannel()`, lines 47 and 75).
`Acknowledge` is that of a delivery of this channel, or of none if there is no channel.
`AcknowledgeStale` is that of a delivery of an earlier one: the broker does not know the tag
and closes the channel, so that the worker is `deaf` until it loses its connection and
connects again; or it takes the tag for that of another delivery, whose copy is then
`acked` while its handler is at work. Such a handler is `Irreplaceable`, as is one of a
task that another worker has finished meanwhile: if its process dies nobody takes the task
up again (`abandoned`). What is published without a channel is kept in memory
(`KeptPlaces`), and lost if the process dies; what was published and not confirmed when the
channel went is published again (`Unconfirmed`). The emitter emits and then acknowledges:
`EmitPrice`, or `EmitUnacknowledged` if the acknowledgement does not arrive.
`FindOrCreate`, `Announce`, `EmitPrice` are the writer and the emitter of the WebSocket
API; `Initiate`, `SaveResults`, `Associate`, `Complete`, `TaskFails` the aggregator.

`RecordDelivery` is the abstract specification: a record that was sent is stored for
good, or given up after failing more often than the retry limit, or after the process that
had it died when the broker did not wait for it any more. `QueueWorkers` implements it
under `DeliveryStatus`, which computes a record's status from the table and the copies; run
`services` checks that (`RecordsDelivered`) and `QueueWorkers_proofs` proves it.

### Candles, CandleReads

`Candles` has what the aggregations compute: aggregates of a market's charts, medians,
merging. `CandleReads` has the three readers that page through a table with limit and
offset, one page per step, while collectors append: `DiscreteBatch` (with
`ProcessBatch`, `Unfinished`, `NextTimeframe`), `AggregateStep`, `GapStep`. `Pages` has all
the answers a query may get: records of one `Place` in its order come in any order, anew in
each query, and fill a page as they like. `read` is a history variable, all that a reader
was answered with.

### RedisLRU, ProcessAllocator

`RedisLRU` has the calls of `getCachedResult` by several clients, command by command, with
use cases that fail (`Fail`), commands that fail and processes that die between two
(`BreakOff`), and the expiry of values. `disturbed` counts the calls that overlapped
another and the keys of those that broke off. `ProcessAllocator` fills the bins one exchange per step.

### MC modules

`MCReplicaDiscovery`, `MCRealtimeScheduler` and `MCCandleReads` (with `MCCandleInputs`)
instantiate one module each. `MCServices`, `MCCollectors` and `MCControl` check parts that
share nothing side by side: a behaviour is one of one part while the others do nothing. They
extend `QueueWorkers`, `TimeoutMutex` and `CollectorsProcess`; the other parts are
instances. `MCServices` breaks symmetry by hand, since TLC's would not be sound with
liveness: of workers, records, clients and keys that cannot be told apart in a state, the
first one is used first (`FirstOnesFirst`, `LeastOnesFirst`).

### Abstractions to know of

Discovery: lock timeouts that a long reload extends (`addTimeout`) never fire for the
holders SHARE and CLOSE, so a reload takes any time. A termination is one step: the CLOSE
is sent, the queues go. Periodic rounds come at any time, `discoveryInterval` having no
lower bound in the schema. Reconnects, which would change a replica's address, are
in `PolicyNetwork` only.

Schedulers: the unit of time makes divisions come out even, so rounding of timers to
milliseconds is not seen; clocks of replicas agree; timers fire on time; a request takes
no time; the margin is part of `baseRateLimit`. A minute is six seconds, an hour two
minutes, so that all units occur in small intervals. In `Collection` a minute has six units;
a fetch, with the backoff it may lead to, takes less than the cycles a backoff repeats
(`InTime`). It follows the scheduler of the first slot, whose operation begins in the
interval of its run under every multiplier; those of later slots may, after a backoff, begin
when the next run has come, which is finding `stops`.

Queues: a message that is published on a standing channel arrives, and is confirmed in the
same step unless the connection goes while its handler's acknowledgement is outstanding
(`Unconfirmed`); a failed reload of a policy is a failed message (`ReloadBegins`), which is
retried.

Markets: the locks of `MarketsManager` do not time out (their holders are watched in
`ReplicaDiscovery`); a start that fails on a database error ends the process and is left
out; `reload()`, which nothing calls, too. `CollectorsProcess` takes a manager's start and
stop as single steps. `PolicyNetwork` does not reconnect once `stop()` has begun.

Readers: historical records that are inserted between two pages are not modelled.

## 3. Runs

| Run | Properties | Instance | States |
|---|---|---|---|
| `collectors` | `SharedReleaserFits`, `TimerCoversLock`, `MutualExclusion`, `WaiterServed`; `Fair`; `RangeCollected`, `GaplessAndFinal`, `EventuallyResolved` | see below | 246k |
| `joins` | `ClusterExact`, `JoiningIsSafe` | 3 replicas, 2 identities | 298k |
| `leaves` | `TypeOK`, `SlotsSplit`, `LockCoversReload`, `HasPlace`, `RoundsEndInTime`, `EventuallyAtRest` | 2 replicas, both may stop, one may crash, 1 periodic round | 65k |
| `backoff` | `MultiplierAgrees`, `LockWillBeFreed`, `MultiplierNeverFalls`, `StartedSurvivesClose` | 2 replicas, one may stop; 1 failure, or STATUS late for any time | 780k |
| `spaced` | `Spaced` | 13 layouts, up to 4 schedulers; one stop, of two slots two and multiplier up to 2 | 632k |
| `services` | `NoTaskForgotten`, `CompleteTasksHaveResults`, `AnnouncedOnce`, `RecordsDelivered`, `EventuallyHandled`; `AnswersExact`; `CacheKept` | see below | 426k |
| `control` | `RunAsAnnounced`, `OwnPositions`, `StoppedForGood`, `EventuallySettled`; `SelectedAsConfigured`; `MessagesHandled`, `NeverDeaf`, `EventuallyConsuming`, `GoodbyeIsLast`; `ExitsWithWorkDone`, `GoodbyeBeforeExit`; `EventsTold` | see below | 346k |
| `survives` | `OthersOperate`: violated | 2 replicas, one stops | |
| `coexists` | `JoinersStart`: violated | 2 replicas, 1 rate limit failure | |
| `stops` | `NothingWhileStopped`: violated | 3 schedulers, multiplier up to 2 | |
| `hours` | `StartSchedules`: violated | 1 scheduler, multiplier up to 2 | |
| `batches` | `VolumeKept`: violated | tables of up to 4 records, pages of 2 | |

### Bounds

Discovery and lock. Three lock clients give a holder, a successor and a waiter, the most
the hand-over distinguishes; six grants let each of them hold the lock twice. Two replicas
give every pair of overlapping rounds, shares and departures; the third of
`joins` has another identity, so that it shares the cluster but not the slots. Ticks:
the delays are the smallest that satisfy the schema's inequalities
(`DelaysAssumption`), with `CloseDelay` equal to `InitDelay` so that both orders
occur. One failure and two multipliers suffice for a backoff that crosses a round,
a join or a departure. Replicas are ordered by address, so symmetry is not used.

Schedulers. The layouts of `spaced` have up to two markets, operations and replicas, which
gives every pair of neighbouring slots (same batch, next batch, next replica, next window,
next interval), with windows that fill their interval and that do not, and intervals of
seconds and of a minute; a stop and a start at every moment shift one scheduler by an
interval. Only layouts of two slots back off: from three on, the finding `stops` applies.

`services`. Queues: two workers with a prefetch of one, two messages of one record or one
task, one retry, and two faults (`MaxFaults`) of any kinds: connections lost, processes that
die, handlers that fail, an acknowledgement of the emitter that does not arrive. Two faults
let a message be redelivered while its first handler goes on, that one acknowledge by a
stale tag after a reconnect, and a process die that has what the broker does not wait for.
Readers: requests with pages of 1 to 3 records and of more than the table, of one market or
all, all tables of up to four of nine records of two markets, two of which have one place,
two records of the present. Cache: two clients, four keys, size two, four calls, one
disturbed: the bound of three keys is less than there are, and is reached.

`collectors`. Lock: three clients, who hang or outlive the timer, and six grants. Processes:
1-4 CPUs, 0-3 exchanges per process, nine exchanges. Collection: ranges of 3 and 4 minutes,
cycles of 1 and 2 minutes, a backoff of two cycles; intervals of two, three and six units,
that divide each other or do not, below and of a minute, on exchanges with and without
timeframes of a second; two fetches under way, two faults, twelve units of time.

`control`. Markets: three rows of which the seeder withdraws one and adds one, two starts
(a late STATUS), two reloads. Seeders: two of one kind or two, configured alike or not, an
empty table or one with a market to withdraw, one fault. Network: two messages, one retry,
one lost connection, two failing handlers, a policy with prefetch 1 and one that needs
`initPolicy()`. Process: two exchanges. Events: one replica.

`CHECK_DEADLOCK FALSE`: in all of these the system really stops, when replicas are at rest
or gone, budgets are used up or a computation has ended.

### What the properties do not claim

`SlotsSplit` and its kin speak of states at rest (`Quiet`). Limits of the protocol and of
the code that were found while stating properties, and that their premises name:

* A replica that leaves can take a multiplier with it that it has told only some of, so
  `MultiplierAgrees` claims equal multipliers while nobody has left. With three replicas:
  q backs off while p is starting and r is not there yet, so p's `BackoffPolicy` has no
  queue for the message and p has been told multiplier 1 by q's STATUS; q shares 2 at the
  end of its round and leaves. r asks p, which answers 1, as the SHARE is in its buffer, and
  takes 2 from it later: r keeps 1 until the next periodic round.
* Discovery: a share computed before a CLOSE can be applied after it and bring the leaver
  back until the next round (`missed`); a replica terminated during its start says no CLOSE
  (`missed`); shares of before and after a backoff in one debounce window leave a window of
  the old size, since the oldest self-report wins, so `ClusterExact` is checked without
  backoffs; with `SlowStart` a replica whose markets start slowly sends its share after that
  of a later round and its stale list wins, so `SlotsSplit` is checked without.
  `EventuallyAtRest` says that every replica starts which does not stop or die itself, with
  peers that die without a word; a peer that says CLOSE may take a starting replica with it
  (finding `survives`).
* Markets: a late STATUS during a slow start starts the markets a second time, and every
  scheduler then has a second cron task (`used.starts`); a reload that is under way during,
  or comes after, `stop()` starts the schedulers again (`seen.outlived`); a seeder between
  the two queries of `loadMarkets` breaks the positions (`seen.seeded`), and one that runs
  during the start leaves a part of the list for good, since nothing calls `reload()`.
* Events: a rate limit failure after the markets have started and before `BackoffPolicy` has
  a connection ends the replica; after that policy has stopped, failures are kept for a
  channel that never comes; `close()` removes no listener; a reload that fails is retried,
  and the retry finds nothing to do.
* Network: a handler that outlives its connection acknowledges with a stale tag, and the
  policy is deaf until the next reconnect (`deaf`); a policy stopped while disconnected
  says no CLOSE.
* Process: when one exchange fails to start, the process exits at once with the others
  running; a replica still starting is not found by `stop()`; an unhandled rejection
  followed by a good shutdown exits with code 0.
* Seeding: an exchange whose markets cannot be loaded is left with none selected (an error
  is logged); the loser of a race for the unique index leaves its symbol without its flag
  (logged too).
* Collection: a rate limit failure in the last cycles resolves the promise at once, and the
  process of a single exchange may be gone before the repeated fetch; a stop loses a
  scheduled realtime operation with its interval; on exchanges without timeframes of a
  second, intervals of less than a minute record the candle at the boundary twice.
* Collection, too: at a reload that changes the interval, and at any sleep, what lies between
  the last run before and the last multiple of the interval before the start is in no window
  (`Between`), and is never collected.
* Workers: the price of a stored record is not announced if the handler that stored it fails
  or its process dies with the event (`silent`); it is sent twice if its confirmation, and
  emitted twice if the emitter's acknowledgement, does not come (`repeated`). The results of a
  task may be saved twice. A handler that outlived its connection acknowledges with a stale
  tag: the worker is then deaf until it connects again, with what it has kept in memory
  (`Stuck`), or another message is acknowledged in its place, and forgotten if its process
  dies (`abandoned`); a task can so be `PROCESSING` for ever, which takes two losses.
* Cache: calls that overlap or break off may let the index outgrow its limit for good, by one
  key each, or by the keys that broke off; values of calls that broke off may be unlisted.
* Readers: those that need more than one page of a discrete aggregation lose volume (finding
  `batches`), so `AnswersExact` claims it of one page. Where a page ends among records of one
  `Place`, line 41 of `SearchMarketRecordsScope.js` leaves open which come before, so the next
  page may repeat one and leave out another: `AnswersExact` claims that what was read is what
  one query would have answered if pages `CutsCleanly`. Gaps of all markets are counted
  exactly if nothing is appended meanwhile: a record of one market moves the rows of those
  after it, and the carried record, read again, counts as a gap. Of one market they are
  counted exactly while its records are appended.

### Fairness

`TimeoutMutex`: continuations run (`Enter`) and armed timers fire; `Release`
is not fair, a holder may hang. `ReplicaDiscovery`: weak fairness of `SystemStep`, the
disjunction of everything the event loop, the clock and the broker do by themselves.
Nothing is assumed of joins, departures, crashes, periodic rounds or rate limit failures.
`MCServices`: deliveries, reconnects and the promises of workers are kept going; nothing is
assumed of who sends, of failures and losses. `MCCollectors`: the lock as above; timers,
answers of the exchange and reloads of a collection take place. `MCControl`: promises of a
replica's calls are kept going, and the first STATUS round comes (a replica answers its own
HELLO); the client of a policy reconnects and its set-up goes on. `RealtimeScheduler` has
safety properties only; that timers fire on time is `Tick`'s guard.

### Findings

* `survives`: `aggregateCloseState` filters lists that are null before the first
  statuses have been aggregated
  (`.../reducers/ReplicaMembersStateManagerReducer.js:87`). With the default delays
  a departure while a peer waits to greet terminates that peer as well.
* `coexists`: shares that do not name a replica are dropped except for their
  multiplier (`.../state-manager/ReplicaStateManager.js:69-79`); if it is higher,
  `normalizeState` reduces an undefined list
  (`.../reducers/ClusterMembersStateManagerReducer.js:114`). A replica added to a set
  that has backed off, or is about to, is terminated before it starts.
* `stops`: `destroyScheduler` clears the timer its `batchTimeoutDescriptor` knows
  (`DC/infrastructure/schedulers/RestrictedRealtimeScheduler.js:39`). After a backoff only
  the multiplier has changed, the interval comes from the old windows, and with three
  slots the batch of one interval is still pending when that of the next overwrites it.
* `hours`: the pattern of an interval of an hour or more has four fields, which Cron does
  not accept (`DC/utils/ScheduleUnitContext.js:25`): such a cluster does not start, or
  stops for a reload and does not start again.
* `batches`: `handleUnfinishedTimeframe` merges the transition with `unfinishedTimeframe`,
  which is null at that call always
  (`src/lib/use-cases/market-records/candle-sticks/DiscreteAggregation.js:328`): a
  timeframe that a batch leaves open is dropped, and an older transition is merged into
  every timeframe that closes later.

## 4. Proofs

`TimeoutMutex_proofs` proves `SharedReleaserFits`, `TimerCoversLock` and
`MutualExclusion` for any set of clients and any number of grants. Its invariant `IInv`
adds to them the bookkeeping they rest on: only the last ticket can be live
(`LiveTicket`); a client the lock was just handed to holds it and `current` has not
caught up (`HandOver`); between two hand-overs `current` is the live ticket and is timed
(`Settled`); the queue holds waiting clients, each once (`Queue`); without timeouts the
client inside owns the live ticket and is alone (`Exclusive`). `MutualExclusion` alone
is not inductive: a stale `current` would release somebody else's lock.

`ReplicaDiscovery_proofs` proves, for any number of replicas and identities, any
delays, any lateness and any number of joins, departures, crashes and failures, that
nobody waits for the phase lock in vain (`LockWillBeFreed`), that a replica which
starts its markets has both lists (`StartedKnowsMembers`) and that it therefore
survives every CLOSE (`StartedSurvivesClose`). The invariant `IInv` has two halves.
`LockInv` says of each replica that its lock, the timer of the lock and the pending
reloads are `Sound` together. It strengthens `LockWillBeFreed` by what the steps need:
a free lock has not been entered (else the next holder would seem to be inside without
a timer), and `reloads` is a sequence, of which a step appends one call or removes the
first. What makes it inductive although the wrong caller may release: every release
hands the lock to somebody who has not entered, and only the end of a backoff's reload,
which is not the one a handler counts on, does not release. `ListInv` says that lists
are forgotten only by a crash or a stop, which forgets the start as well. One lemma
per group of actions shows that it keeps both halves.

The rest of the module is about time, and holds as long as no message is late
(`budget.late = {}`): with a late STATUS of its own a replica would start with no place in
the list, and the lock of its round would time out first. `RoundsEndInTime` and
`LockCoversReload` follow from `RoundInv`, which takes a round by its stages (`OnTime`):
HELLO has been said in this very tick (`Asked`); answers have come, and the timer of the
lock is ahead of that of the answers by more than the difference of the delays can use up;
the markets are being started, in one call. A message counts as an answer that is still to
come wherever it is: in the queue of a peer, on its way back, or debounced. That a round
has time left is then the inequality of the delays that the schema demands
(`DelaysAssumption`). A reload for a SHARE or a CLOSE goes with a lock that its handler
holds, and is the only one of its kind (`Covered`). The two belong together: if a round
could time out, a handler's reload could release the lock of another's round.

`HasPlace` needs to know what a replica has made of what it heard, which `PlaceInv` adds:
every message, wherever it is, is complete and mentions whom it should (`MailInv`); a
replica in a round has its own answer, or will (`Answered`); and every list it
remembers, starts its markets with or is about to reload has the replica in it
(`Remembers`, `Prepared`, `Scheduled`). The replicas that say CLOSE are gone, and
nobody who is gone comes back, so that no step removes a replica from its own list. The
reducers of `ReplicaState` are folds over windows of messages; what the proof needs of them
(`FlattenSeq` and the least multiplier, place or counterexample) comes from the well-founded
order of the natural numbers, since no induction over data is at hand.

Next come the multipliers, under the same hypothesis. `RateInv` says that all the
multipliers in the system, in messages, buffers, lists and schedulers, are of a set `M`.
With `M = {1}` and nobody leaving (`JoinInv`) it gives `JoiningIsSafe`: shares that agree on
the multiplier name everybody they should, and nothing reduces an undefined list. The
hypotheses are those of the property, that no replica is asked to terminate and no rate
limit is exceeded, and each is needed: findings `survives` and `coexists` show why.

The last part of the module is `TypeOK`, again for any lateness, departures and failures.
Most of it is bookkeeping; three facts are not. The lists that shares agree on and that a
CLOSE leaves are still lists of replicas and of members, by the lemmas about the reducers.
The tables of intervals have numbers in them: they are folds, whose results are numbers by
the least number of elements for which one would not be, but no bound holds of them, as a
round that answers reach late can count a replica twice. And the multiplier of a round is
positive because no round is aggregated without answers: the timer of the answers runs only
while the buffer has some (`Gathering`), which is what makes `TypeOK` inductive.

`Multipliers_proofs` goes on from there. With all the positive numbers as `M` and `RiseInv`
it gives `MultiplierNeverFalls`: there are at most two reloads of a replica at once and one
of them, at most, is for a backoff; the end of a backoff waits for the lock once; every
queued reload keeps or raises the multiplier of the schedulers; and a replica that has not
started has reported the multiplier it has.

Its second half proves `MultiplierAgrees`, for any number of failures at any time, also
while others join, start or back off themselves, as long as no message is late. Schedulers
follow the internal one by `RestInv`: it is ahead of theirs by the first queued reload and
no more (`InStep`), and a replica that has not started has yet to ask, or holds the shares
it will start from. That they all have one multiplier is a claim about rest again, and the
invariant `SpreadInv` says where the news is. Take any `m` that a running replica has, or is
backing off to (`Held`). Either somebody is still to tell everybody of it (`Announces`):
the one that backs off, a round that has heard of it or will, since a HELLO is on its way to
one that has it; or everybody else has been told (`Reached`): runs with it, has a reload
for it, has the SHARE buffered or on its way, or has yet to say HELLO and will ask. A round
that ends turns the first into the second in one step, as it shares with all that are up;
somebody who boots meanwhile will ask. `SourceInv` is the converse: no message or reload
brings a multiplier that nobody holds. Both need that nobody has left (`Intact`), and so
does the property: section 3 says what a departure can do.

`RateLimits_proofs`, which rests on `ReplicaDiscovery_proofs` too, is about slots.
Its largest part shows `SlotsSplit` and `ClusterExact`, the purpose of discovery, for any
number of replicas of any identities that join at any times: however their rounds, answers,
shares and reloads interleave, the cluster comes to rest only with the slots of every
identity split exactly and every live replica counted everywhere. That is a claim about
rest; the invariant, `GatherInv`, says at every step where the news that a list still lacks
will come from:

- `AnswerInv`: a replica in a round will know every live one. Each of them still has its
  HELLO to answer, has its answer under way, is counted already (`Expected`; exactly one of
  these, `OnceAsked`, so that no answer comes twice), or booted so late that its own HELLO
  comes after this round.
- `ShareInv`: what a round has found names live replicas only (`Current`), and all of them
  but those that have yet to greet (`Fresh`). What a started replica runs with is a list `A`
  (`PlacedWith`): its slot and the windows are those of `A`, and `A` has every started
  replica of the scope in it, or a SHARE is on its way to the replica, or waits in its buffer
  (`Placed`, `Heard`, `News`).
- `LaunchInv` and `AppliedInv`: a replica that has greeted and not started wants the phase
  lock, a buffered SHARE has a timer or a waiting handler, a reload that is under way brings
  what the lists say, and what `members` says is what `internal` and then `running` say.

At rest (`AtRest`) nothing is on its way, everybody has started, and each `A` is the set of
the live replicas of its scope. A position is then the number of members before the replica
(`PlaceInList`), the size of the window the sum of the intervals, each of which is 1
(`OnesCounted`). None of the hypotheses can go without another
account: a late message lets a round miss a replica; after a crash or a departure the
properties except whom somebody `missed`, and the run `leaves` checks `SlotsSplit`; a start of
the markets that outlasts a peer's share (`SlowStart`) announces a stale list, one of the two
hazards without a property; and around a backoff, shares of two multipliers meet in one
window and name nobody for both (finding `coexists`).

The other part of the module is about `RateSlots`, for any number of markets, replicas and
operations and any rate limit: two requests of one identity in one interval are a rate
limit apart (`SlotsApart`), and the last ends before the next window begins (`SlotsFit`). A
delay is the rate limit times the place of the slot, a number whose digits are market,
replica and operation, and the stretch shared among the slots is no more than the gap. That
the windows themselves follow each other is a sum over the members, and model-checked
(`Spaced`).

`CollectorsProcess_proofs` proves `ExitsWithWorkDone` and `GoodbyeBeforeExit` for a
process of any number of exchanges. `IInv` adds to the types (`Types`) what ties the
callers of `shutdown()` to the list of managers: what a caller found was listed
(`FoundListed`); what it has stopped has said CLOSE (`StoppedSaidGoodbye`); the main
program shuts down only with its work done (`WorkDone`); and an exit in good order is one
of a caller whose stops have all returned (`ExitAwaited`). That of several callers one
found the fewest managers follows from the list only growing. The module also proves `Fair`
of `ProcessAllocator`, for any machine and any number of exchanges. That no process gets
more than it tolerates needs one with room at any time (`HasRoom` in `AllocInv`): a
new one is opened as soon as the last place is taken, and the search for the next best bin
then ends at one with room, the one used last or the first with less.

`QueueWorkers_proofs` proves, for any workers, loads, prefetch, retry limit and budgets,
`NoTaskForgotten` and that `QueueWorkers` implements `RecordDelivery`
(`RecordsDelivered`). `IInv` has two halves. `Types` says of each copy that it is a copy of
something sent (`CopyOf`), at a place that fits its owner (`WellPlaced`), of a channel that
its owner has had (`Delivered`), with a count that its subject's failures cover (`Counted`:
a copy with count n is there only after n - 1 failures). `Kept` says that a sent subject is
settled, has failed too often, is abandoned, or has a copy that is `Waiting`: that it is in
some worker's hand, which is all the properties speak of, would not be inductive, as the
worker may be about to acknowledge it. A copy that waits is in a queue, or will be if its
handler dies since the broker still waits for it (`Held`), or its handler is
`Irreplaceable`, whose death is counted. One that goes leaves its subject settled, or has
failed and either left a copy or exceeded the limit, which with `Counted` means more
failures than the limit. The refinement follows the actions: a step about one record
maps to a step of `RecordDelivery` for its key, a death that gives up several to one `GiveUp`
(`Losses`), any other to a stutter. The assumption is `Reasonable`: the limits are natural
numbers, no worker is called nobody, and keys of records are not tasks.

The same module adds to that invariant, for the same instances, what the users see:
`AnnouncedOnce` and `CompleteTasksHaveResults`. `OneCreator` says that the event of a record
is with the one copy that created it, as long as it has not been published, and that the
record has been announced once it is not, unless the creator is `silent`. `LinkedOne` counts
the copies of a task that have saved results and not associated them yet: associated sets
and these together are no more than the saved ones, although two workers may handle the
task at once.

The last parts of the module are about `Collection`. `RangeCollected` is proved for ranges
and cycles of any length, any backoff and any number of failures. `History` says it by the cycle:
each that the counter has passed is scheduled, or is answered (`Answered`) by a recorded
window, a lost one, an operation that fetches it or a mark in `repeat`. It is inductive
because of three facts that the property does not mention: one operation at most has not
begun to fetch, and the bounds are those of its cycle (`OpOK`), although they are read only
when it begins; every operation whose answer may be a backoff, and every cycle to be repeated,
is so near the counter that going back reaches it (`NotFar`, from `InTime` of the model);
and once the last operation has begun the counter has passed all cycles (`Whole`). That the
windows of the cycles are the range, the last and shorter one included, and that what the
exchange answers for a window are its minutes, is arithmetic of quotients
(`CycleCount`, `CycleBounds`, `CycleCharts`).

`GaplessAndFinal` is proved for any intervals, whatever they change to, and with or without
timeframes of a second. Windows of different intervals overlap, so they are no partition;
`Tiled` says instead that there is an edge up to which every moment since the first window is
in a window that was fetched, is being fetched or was lost. The edge is the last complete
minute, unless an operation is about to fetch: then the window it will read begins at the
edge or before, because a run of the cron task comes at a multiple of the interval, and every
step that disposes of the operation (it fetches, or is stopped and lost) moves the edge on
(`EdgeMoves`). What a reload leaves between two intervals (`Between`) is a lost window too. That an
exchange which is asked for a window answers with all candles that begin in it
(`ChartsBegin`), and with none behind it if the timeframe divides it (`ChartsEnd`), is about
rounding at both ends.

The last part of `CollectorsProcess_proofs` is about `PolicyNetwork` and proves
`MessagesHandled`, `NeverDeaf` and `GoodbyeIsLast` for any messages, lost connections, failures and retry limit. What is pending on a channel that
stands is the rest of the set-up, followed by the teardown once the policy stops, and it
fits what the broker has by then (`Planned`): hence a policy with nothing pending consumes.
After the goodbye nothing is pending or consumed (`Gone`); no message counts more tries
than the limit allows, and one is given up at the limit only (`Counted`); while no
connection has been lost every delivery is one of the only channel (`Undisturbed`), so that
an acknowledgement finds its message, a failed message finds the retry queue, and prefetch
1 lets one be handled at a time.

`MarketsManager_proofs` proves `StoppedForGood`, `OwnPositions` and `RunAsAnnounced` for
any markets, any seeder and any number of starts and reloads. Until the markets are stopped, every call that
starts them has its number in the queue for the mutex, at its head once it has begun, and
nothing is behind `stop()` (`InOrder`): when `stop()` is served, no start is left. After
that only a reload can set schedulers going, and one that does has been noted (`Quiet`).
Positions come from a list in which no market is twice; that they are below the size needs
`Positioned`: a start between its two queries has counted the rows it is about to read,
unless the seeder has come between.

`RunAsAnnounced` is about a replica with nothing under way, so its invariant `Steady` says
what every call under way will leave behind. Until the replica is told to go, a scheduler
that does not run is about to be started by some call (`AllStarting`), and the managers have
been started once by whoever has got any further (`Begun`). With a single start (`OneStart`)
all calls before its end are that one, and no scheduler is without a cron task after it; a
call that is at work has the configuration of the internal scheduler, and so has every
scheduler that it is not about to start; reloads follow each other as they queued for the
mutex (`InTurn`). None of this survives a second start, which a late STATUS brings about: it
finds schedulers that run and gives them a second cron task, which the property excludes by
`used.starts`.

The second part of the module is about `Seeding` and proves `SelectedAsConfigured` for
any seeders, tables, failures, crashes and repetitions. `SeedInv` says of every configured
market of a seeder that was started that it is selected, passed over because the exchange
does not list it, or that a seeder of the same flag answers for it (`Answered`): one that
has reported it, has another configuration, has crashed on the way, or still has it to do
(`Left`). It is inductive because whoever resets an exchange has all of its markets left to
do from then on, and whoever goes on to the next symbol has selected this one, reported it
or found it selected; a row that was read as selected, and that another seeder has reset
meanwhile, is left to that one. `Cleaned` is the other half: what is selected is configured,
unless the reset is still to come (`Coming`) or the exchange was reported. The hypothesis
`Configuration` says that tables hold rows, that no configuration has an exchange twice
(the second entry would reset the markets of the first), and that an exchange is CCXT's to
all seeders or to none (else the one that passes an unlisted market over would reset it
silently).

`RedisLRU_proofs` proves `CacheKept` for any number of processes, keys and calls: at rest
the index is within its limit and one key more for each call that overlapped another and
each key of one that broke off; without either every value is listed, and those are kept that
were used last. The claim is about rest, the invariant counts what is under way. `OrphanInv`:
the clients that are about to store a value, and the values that nothing lists and nobody
will delete, are no more than what is `disturbed`, and one more at most while a first call has
not come to remove keys. `SizeInv`: the keys in use and the clients about to add one exceed
the limit by what is disturbed at most, or by one more while somebody is still to find that
out (`Owing`). `Recent`: undisturbed, one client is at work at a time and the times of the
index are those of the last use, but for the key of the call under way.

Assumptions: the named ASSUMEs of the modules, which TLC evaluates in the runs; and,
stated with the theorems, that the retry limit of `PolicyNetwork` is a natural number;
of `MarketsManager` that there are finitely many markets and that not all of them are
configured when the seeder runs (the model takes a full set for a seeder that has not run);
the bounds of `ReplicaDiscovery` are numbers (`BoundsAssumption`), any numbers;
`Configuration` above; of `Collection` that the minutes, the limit of a cycle, the cycles
to go back and the interval are positive, as the schemas demand; of `RedisLRU` finitely many
clients and keys and a natural limit; of
`ProcessAllocator` that a machine has a processor and its counts are natural numbers. A
theorem about a part that `MCServices`, `MCCollectors` or `MCControl` runs beside others is of the part's
own specification.

Model-checked only: liveness, which the prover does not handle; of discovery, `SlotsSplit`
and `ClusterExact` once replicas leave or exceed a rate limit; `Spaced`; `CandleReads` (folds over data); and `EventsTold`
of `MarketEvents`, whose instance is finite.

## 5. What could follow

All components with behaviour of their own are modelled. In order of what it would add:

1. an abstract lock that `TimeoutMutex` implements when holders are in time, and
   `MarketsManager` over two of them that may time out;
2. `PolicyNetwork` composed with `ReplicaDiscovery`: a replica that reconnects changes its
   address, which its peers take for a join without a departure;
3. `SlotsSplit` with departures as a theorem: who is in a list and gone is in `missed`, or
   a CLOSE is on its way;
4. historical inserts between two pages of a reader.

## 6. Not modelled

The REST API (stateless handlers over the use cases), the sockets and subscriptions of the
WebSocket API, the use cases that validate and make one query, the drivers of single
exchanges (one request each and the mapping of its answer) and the collectors other than
that of candles, which differ from it in what they map; migrations and declarations of
tables; configuration, logging and command line parsing: input, output and wiring without
behaviour of their own that a model checker would add to. `PROJECT.json` says of every
component what is modelled and what is not.
