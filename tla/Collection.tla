----------------------------- MODULE Collection -----------------------------
(***************************************************************************)
(* Which minutes of a market are collected: the cycles of                  *)
(* RestrictedHistoricalScheduler.js, the interval bounds of                *)
(* RestrictedRealtimeScheduler.js and what CandleStickCollector.js makes   *)
(* of them, for the scheduler of one market, the first of its replica set: *)
(* whatever the multiplier, its operation begins within the interval.      *)
(*                                                                         *)
(* A cron task begins a batch in every interval, the batch schedules the   *)
(* operation, the operation fetches.  A reload stops the scheduler         *)
(* between any two of these and starts it again: a backoff after a sleep   *)
(* and with a higher multiplier only, a share or a departure at once and   *)
(* with whatever interval the members of the cluster add up to.            *)
(***************************************************************************)
EXTENDS Integers, FiniteSets, FiniteSetsExt

CONSTANTS
  Jobs,        \* what is collected:
               \* "historical": minutes, operationLimit, reloadCyclesBackoff
               \* "realtime": interval, and whether the exchange has timeframes of a second
  Minute,      \* units of time in a minute; a unit stands for a second
  Intervals,   \* what the interval of a cluster may become
  Horizon,     \* bound: time
  MaxFetches,  \* bound: fetches under way
  MaxFaults    \* bound: failures of a fetch, and reloads that others ask for

VARIABLES
  job,
  now,
  interval,    \* preciseNormalizedInterval
  cron,        \* the cron task: its latest run, or Never; Off if it has been stopped
  cycle,       \* cycleCounter
  bounds,      \* intervalStart and intervalEnd of the historical scheduler, in minutes
  ops,         \* operations that are about to run or to be answered
  asked,       \* has the rate limit been exceeded since the last backoff?
  reload,      \* "none", "sleeping" in a backoff, "sharing" what the cluster has agreed on
  repeat,      \* history: cycles that a backoff is to repeat
  windows,     \* history: what has been fetched
  lost,        \* history: windows that failed or were dropped, and those between
               \* the last run before a reload and the first one after it
  resolved,    \* schedulePromise
  faults

vars == <<job, now, interval, cron, cycle, bounds, ops, asked, reload, repeat, windows, lost, resolved, faults>>

Historical == job.kind = "historical"
Never == -1
Off == -2
Nothing == [start |-> Never, end |-> Never]

Ceil(n, d) == (n + d - 1) \div d
MinOf(a, b) == IF a < b THEN a ELSE b

Init ==
  /\ job \in Jobs /\ now = 0
  /\ interval = IF Historical THEN 1 ELSE job.interval
  /\ cron = Never /\ cycle = 0 /\ bounds = Nothing /\ ops = {} /\ repeat = {} /\ asked = FALSE /\ reload = "none"
  /\ windows = {} /\ lost = {} /\ resolved = FALSE /\ faults = MaxFaults

-----------------------------------------------------------------------------
(* CandleStickCollector: windows in units, candles by the time they begin. *)

\* Mutated form of FormatInterval: as the historical collector has it.
FormatNothing(w) == w

\* formatAggregationInterval(); the historical collector leaves it as it is.
FormatInterval(w) ==
  IF Historical THEN w ELSE [start |-> w.start - Minute, end |-> w.end - Minute]

Timeframe(w) ==
  IF ~Historical /\ w.end - w.start < Minute /\ job.seconds THEN 1 ELSE Minute

Limit(w) == Ceil(w.end - w.start, Timeframe(w))

\* What an exchange answers: the first candles that begin at `since' or later.
FetchOHLCV(timeframe, since, limit) ==
  {timeframe * (Ceil(since, timeframe) + i) : i \in 0..(limit - 1)}

\* fetchData() and the filter of saveData(), inclusive at both ends.
Charts(w) == {t \in FetchOHLCV(Timeframe(w), w.start, Limit(w)) : t >= w.start /\ t <= w.end}

-----------------------------------------------------------------------------
(* The cycles of the historical scheduler. *)

TotalCycles == Ceil(job.minutes, job.operationLimit)

LastCycleLimit ==
  IF job.minutes % job.operationLimit = 0 THEN job.operationLimit
  ELSE job.minutes % job.operationLimit

IsFinalCycle == cycle >= TotalCycles - 1

\* updateIntervalBounds(); beyond the last cycle it leaves them as they are.
UpdateIntervalBounds ==
  IF cycle >= TotalCycles THEN UNCHANGED <<cycle, bounds>>
  ELSE LET first == cycle * job.operationLimit
       IN  /\ bounds' = [start |-> first,
                         end |-> first + IF IsFinalCycle THEN LastCycleLimit ELSE job.operationLimit]
           /\ cycle' = cycle + 1

\* Mutated form of BackoffCycles: the counter keeps its value.
BackoffNothing == cycle

\* backoffCycles()
BackoffCycles == cycle - MinOf(cycle, job.reloadCyclesBackoff)

\* A fetch and the backoff it leads to take less than the cycles to repeat.
InTime ==
  /\ \A op \in ops : cycle < op.cycle + job.reloadCyclesBackoff
  /\ \A c \in repeat : cycle < c + job.reloadCyclesBackoff

-----------------------------------------------------------------------------
(* The scheduler. *)

Scheduled == {op \in ops : op.at = "scheduled"}

\* The cron task runs at the multiples of the interval.
LastRun == interval * (now \div interval)
NextRun == LastRun + interval

\* A run of the cron task, with the delays of cluster and batch before it.  That
\* of the cluster is shorter than the interval and the first scheduler has no
\* other, so the operation of the last run has begun.
CronRuns ==
  /\ cron # Off /\ Scheduled = {} /\ \A op \in ops : op.at # "batch"
  /\ ~Historical => now < Horizon
  /\ Historical => InTime
  /\ now' = IF Historical THEN now ELSE NextRun
  /\ cron' = IF Historical THEN cron ELSE now'
  /\ ops' = ops \cup {[at |-> "batch", cycle |-> cycle, last |-> FALSE, window |-> Nothing]}
  /\ UNCHANGED <<job, interval, cycle, bounds, asked, reload, repeat, windows, lost, resolved, faults>>

\* runOperations()
RunOperations ==
  \E op \in ops :
    /\ op.at = "batch"
    /\ ops' = (ops \ {op}) \cup
         {[op EXCEPT !.at = "scheduled", !.cycle = cycle, !.last = Historical /\ IsFinalCycle]}
    /\ IF Historical THEN UpdateIntervalBounds ELSE UNCHANGED <<cycle, bounds>>
    /\ cron' = IF Historical /\ IsFinalCycle THEN Off ELSE cron
    /\ UNCHANGED <<job, now, interval, asked, reload, repeat, windows, lost, resolved, faults>>

\* getIntervalBounds(), read when the operation begins.
IntervalBounds ==
  IF Historical THEN [start |-> bounds.start * Minute, end |-> bounds.end * Minute]
  ELSE [start |-> cron - interval, end |-> cron]

\* startCollector() up to the answer of the exchange.
Operate ==
  \E op \in Scheduled :
    /\ Cardinality(ops) <= MaxFetches
    /\ ops' = (ops \ {op}) \cup {[op EXCEPT !.at = "fetching", !.window = FormatInterval(IntervalBounds)]}
    /\ UNCHANGED <<job, now, interval, cron, cycle, bounds, asked, reload, repeat, windows, lost, resolved, faults>>

\* The operation ends; the last one resolves the promise, however it ended.
Ended(op) ==
  /\ op \in ops /\ op.at = "fetching"
  /\ ops' = ops \ {op}
  /\ resolved' = (resolved \/ op.last)

\* publish()
Publish(op) ==
  /\ Ended(op)
  /\ windows' = windows \cup {op.window}
  /\ repeat' = repeat \ {op.cycle}
  /\ UNCHANGED <<job, now, interval, cron, cycle, bounds, asked, reload, lost, faults>>

\* Mutated form of FetchFails: the error ends the batch before its promise resolves.
FetchFailsUncaught(op) ==
  /\ op \in ops /\ op.at = "fetching" /\ faults > 0
  /\ ops' = ops \ {op} /\ faults' = faults - 1
  /\ lost' = lost \cup {op.window}
  /\ UNCHANGED <<job, now, interval, cron, cycle, bounds, asked, reload, repeat, windows, resolved>>

\* The exchange fails; nobody asks again.
FetchFails(op) ==
  /\ faults > 0 /\ faults' = faults - 1
  /\ Ended(op)
  /\ lost' = lost \cup {op.window}
  /\ repeat' = repeat \ {op.cycle}
  /\ UNCHANGED <<job, now, interval, cron, cycle, bounds, asked, reload, windows>>

\* The exchange is asked too often; a backoff will reload all schedulers.
RateLimitExceeded(op) ==
  /\ faults > 0 /\ faults' = faults - 1
  /\ Ended(op)
  /\ asked' = TRUE
  /\ lost' = IF Historical THEN lost ELSE lost \cup {op.window}
  /\ repeat' = IF Historical THEN repeat \cup {op.cycle} ELSE repeat
  /\ UNCHANGED <<job, now, interval, cron, cycle, bounds, reload, windows>>

\* reload() up to its sleep, at some time before the next run: stop() clears the
\* timers of the operation that has not begun, backoffCycles() goes back.
Stop ==
  /\ reload = "none"
  /\ \/ asked /\ asked' = FALSE /\ faults' = faults /\ reload' = "sleeping"
     \/ faults > 0 /\ faults' = faults - 1 /\ asked' = asked /\ reload' \in {"sleeping", "sharing"}
  /\ now' \in IF Historical THEN {now} ELSE now..(NextRun - 1)
  /\ cron' = Off
  /\ ops' = {op \in ops : op.at = "fetching"}
  /\ cycle' = IF Historical THEN BackoffCycles ELSE cycle
  /\ lost' = IF Historical \/ ops' = ops THEN lost ELSE lost \cup {FormatInterval(IntervalBounds)}
  /\ UNCHANGED <<job, interval, bounds, repeat, windows, resolved>>

\* The time that no run is about: between the last of a reload and the first after.
Between == FormatInterval([start |-> LastRun, end |-> LastRun'])

\* The rest of reload(), which waits for its sleep and for the other schedulers.
Start ==
  /\ reload # "none" /\ reload' = "none"
  /\ cron' = Never
  /\ IF Historical THEN UNCHANGED <<now, interval, lost>>
     ELSE /\ now' \in {now} \cup now..Horizon
          /\ interval' \in IF reload = "sharing" THEN Intervals ELSE {interval}
          /\ lost' = lost \cup {w \in {Between} : w.start < w.end}
  /\ UNCHANGED <<job, cycle, bounds, ops, asked, repeat, windows, resolved, faults>>

Next ==
  \/ CronRuns \/ RunOperations \/ Operate \/ Stop \/ Start
  \/ \E op \in ops : Publish(op) \/ FetchFails(op) \/ RateLimitExceeded(op)

Spec == Init /\ [][Next]_vars

\* Timers fire, requests end, reloads are carried out.
Progress ==
  CronRuns \/ RunOperations \/ Operate \/ Start \/ (\E op \in ops : Publish(op)) \/ (asked /\ Stop)

-----------------------------------------------------------------------------
(* Properties. *)

Recorded == UNION {Charts(w) : w \in windows}
Fetching == UNION {Charts(op.window) : op \in {o \in ops : o.at = "fetching"}}
InCycle(c) == {m * Minute : m \in (c * job.operationLimit)..(MinOf((c + 1) * job.operationLimit, job.minutes) - 1)}
Begins(first, end) == {t \in first..(end - 1) : t % Minute = 0}
Lost == UNION {Begins(w.start, w.end) : w \in lost}
Accounted(c) == InCycle(c) \subseteq Recorded \cup Fetching \cup Lost \/ c \in repeat

\* Every cycle that the counter has passed is recorded, on its way, lost to an
\* error, or about to be repeated; no candle outside of the range is; and when
\* the promise is resolved nothing is left but what a backoff may repeat.
RangeCollected ==
  Historical =>
    /\ \A c \in 0..(cycle - 1) : Accounted(c) \/ \E op \in Scheduled : op.cycle = c
    /\ \A c \in repeat : asked \/ cycle <= c \/ \E op \in ops : op.cycle = c
    /\ Recorded \subseteq {m * Minute : m \in 0..(job.minutes - 1)}
    /\ resolved => \A c \in 0..(TotalCycles - 1) : Accounted(c)

\* What is collected in real time has no gaps but what was lost: what failed,
\* what a stop dropped, and at a reload what lies between the last run of the old
\* interval and the last multiple of the new one before it started.  No candle
\* is recorded before it is complete; and none is recorded twice if its timeframe
\* is not longer than the interval.
GaplessAndFinal ==
  ~Historical /\ windows # {} =>
    LET from == Min({w.start : w \in windows})
        to == Max({w.end : w \in windows})
        Missing == Begins(from, to) \ Recorded
    IN  /\ Missing \subseteq Fetching \cup Lost
        /\ \A t \in Recorded : t + Minute <= now
        /\ \A v, w \in windows :
             v.end <= w.start /\ (Timeframe(v) = 1 \/ (v.end - v.start) % Minute = 0) =>
               Charts(v) \cap Charts(w) = {}

\* A historical collection comes to its end, whatever fails and reloads.
EventuallyResolved == <>(Historical => resolved)

=============================================================================
