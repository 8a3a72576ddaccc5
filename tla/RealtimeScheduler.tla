------------------------- MODULE RealtimeScheduler -------------------------
(***************************************************************************)
(* The schedulers of all replicas that collect from one exchange:          *)
(* RestrictedRealtimeScheduler.js with its cron task, its three kinds of   *)
(* timers and the descriptors by which stop() finds them.  A scheduler is  *)
(* named <<identity, instancePosition, queuePosition>>.                    *)
(*                                                                         *)
(* A descriptor keeps only the last timer it was given: timers it has lost *)
(* are still pending, but no longer held.                                  *)
(***************************************************************************)
EXTENDS RateSlots, SequencesExt

CONSTANTS
  Layouts,        \* the clusters to look at: of each identity, its
                  \* baseRateLimit, queueSize, operations and replicaSize
  MaxStops(_),       \* bound: stops, all schedulers of a layout together
  MaxMultiplier(_)   \* bound: rate limit multipliers, by layout

VARIABLES
  layout,   \* the cluster at hand
  conf,     \* rateLimitMultiplier and clusterMembers of a scheduler
  cron,     \* time until its cron task fires, Off when there is none
  timers,   \* its pending timers, of the kinds "cluster", "batch", "operation"
  clock,    \* wall clock, within a day
  last,     \* history: the latest operation, of which identity and how long ago;
            \* has everybody agreed since?
  stops     \* what is left of MaxStops

vars == <<layout, conf, cron, timers, clock, last, stops>>

Off == -1

SchedulersOf(l) ==
  UNION {{<<i, p, q>> : p \in 0..(l[i].replicaSize - 1), q \in 0..(l[i].queueSize - 1)} : i \in DOMAIN l}
Schedulers == SchedulersOf(layout)

\* What the replicas have agreed on when all of them run with multiplier m:
\* the interval of an identity is the sum of what its replicas report.
SharedConf(l, m) ==
  [rateLimitMultiplier |-> m,
   clusterMembers |-> [i \in DOMAIN l |->
      l[i].baseRateLimit * m * l[i].queueSize * l[i].operations * l[i].replicaSize]]

Fields(s, c) ==
  [baseRateLimit |-> layout[s[1]].baseRateLimit, queueSize |-> layout[s[1]].queueSize,
   operations |-> layout[s[1]].operations, replicaSize |-> layout[s[1]].replicaSize,
   instancePosition |-> s[2], queuePosition |-> s[3], self |-> s[1],
   rateLimitMultiplier |-> c.rateLimitMultiplier, clusterMembers |-> c.clusterMembers]
This(s) == Fields(s, conf[s])

\* All schedulers at work have been told the same, as replica discovery does.
Agreed ==
  \E m \in 1..MaxMultiplier(layout) : \A s \in Schedulers :
    cron[s] # Off \/ timers[s] # <<>> => conf[s] = SharedConf(layout, m)

\* Longer than any rate limit.
LongAgo == Day

Init ==
  /\ layout \in Layouts /\ conf = [s \in Schedulers |-> SharedConf(layout, 1)]
  /\ cron = [s \in Schedulers |-> Off] /\ timers = [s \in Schedulers |-> <<>>] /\ clock = 0
  /\ last = [identity |-> 1, ago |-> LongAgo, agreed |-> FALSE] /\ stops = MaxStops(layout)

-----------------------------------------------------------------------------

Timer(kind, operation, left) == [kind |-> kind, operation |-> operation, left |-> left, held |-> TRUE]

\* A descriptor is overwritten.
Lose(ts, kind) ==
  [i \in DOMAIN ts |-> IF ts[i].kind = kind THEN [ts[i] EXCEPT !.held = FALSE] ELSE ts[i]]

\* Nothing is due at this moment.
Idle == \A s \in Schedulers : cron[s] # 0 /\ \A i \in DOMAIN timers[s] : timers[s][i].left # 0

TimeToMultiple(interval) == interval - (clock % interval)

\* start(dynamicConfig): the cron task first fires at the next multiple of its
\* interval.  Without a schedule it throws, when the configuration has been set.
Start(s, c) ==
  /\ cron[s] = Off
  /\ conf' = [conf EXCEPT ![s] = c]
  /\ cron' = [cron EXCEPT ![s] =
       IF Schedulable(Fields(s, c)) THEN TimeToMultiple(PreciseInterval(Fields(s, c))) ELSE Off]
  /\ last' = [last EXCEPT !.agreed = @ /\ c = conf[s]]
  /\ UNCHANGED <<layout, timers, clock, stops>>

\* stop(): the cron task and whatever timers the descriptors know.
Stop(s) ==
  /\ cron[s] # Off /\ stops > 0
  /\ stops' = stops - 1
  /\ cron' = [cron EXCEPT ![s] = Off]
  /\ timers' = [timers EXCEPT ![s] = SelectSeq(@, LAMBDA t : ~t.held)]
  /\ UNCHANGED <<layout, conf, clock, last>>

\* initializeClusterDelay().
CronFires(s) ==
  /\ cron[s] = 0
  /\ cron' = [cron EXCEPT ![s] = PreciseInterval(This(s))]
  /\ timers' = [timers EXCEPT ![s] =
       Append(Lose(@, "cluster"), Timer("cluster", 0, ClusterDelay(This(s))))]
  /\ UNCHANGED <<layout, conf, clock, last, stops>>

Due(s, i, kind) ==
  /\ i \in DOMAIN timers[s] /\ timers[s][i].kind = kind /\ timers[s][i].left = 0

Others(s, i) == RemoveAt(timers[s], i)

\* initializeBatch().
ClusterTimer(s, i) ==
  /\ Due(s, i, "cluster")
  /\ timers' = [timers EXCEPT ![s] =
       Append(Lose(Others(s, i), "batch"), Timer("batch", 0, BatchDelay(This(s))))]
  /\ UNCHANGED <<layout, conf, cron, clock, last, stops>>

\* runOperations(): the list of descriptors starts anew.
BatchTimer(s, i) ==
  /\ Due(s, i, "batch")
  /\ timers' = [timers EXCEPT ![s] =
       Lose(Others(s, i), "operation")
         \o [o \in 1..This(s).operations |-> Timer("operation", o - 1, OperationDelay(This(s), o - 1))]]
  /\ UNCHANGED <<layout, conf, cron, clock, last, stops>>

\* A collector asks the exchange.
OperationTimer(s, i) ==
  /\ Due(s, i, "operation")
  /\ timers' = [timers EXCEPT ![s] = Others(s, i)]
  /\ last' = [identity |-> s[1], ago |-> 0, agreed |-> Agreed]
  /\ UNCHANGED <<layout, conf, cron, clock, stops>>

\* Time passes until something is due.
Tick ==
  LET left == UNION {{timers[s][i].left : i \in DOMAIN timers[s]} \cup ({cron[s]} \ {Off}) : s \in Schedulers}
      d == Min(left)
  IN  /\ left # {}
      /\ Idle
      /\ timers' = [s \in Schedulers |-> [i \in DOMAIN timers[s] |-> [timers[s][i] EXCEPT !.left = @ - d]]]
      /\ cron' = [s \in Schedulers |-> IF cron[s] = Off THEN Off ELSE cron[s] - d]
      /\ clock' = (clock + d) % Day
      /\ last' = [last EXCEPT !.ago = Min({LongAgo, @ + d})]
      /\ UNCHANGED <<layout, conf, stops>>

Fires(s) ==
  \/ CronFires(s)
  \/ \E i \in DOMAIN timers[s] : ClusterTimer(s, i) \/ BatchTimer(s, i) \/ OperationTimer(s, i)

\* A backoff tells its own replica only the multiplier; the windows follow with
\* the shares of the round it asks for.
BackoffConf(s) == [conf[s] EXCEPT !.rateLimitMultiplier = @ + 1]

Starts(s) ==
  \/ Start(s, conf[s])
  \/ conf[s].rateLimitMultiplier < MaxMultiplier(layout) /\ Start(s, BackoffConf(s))
  \/ Start(s, SharedConf(layout, conf[s].rateLimitMultiplier))

Next ==
  \/ \E s \in Schedulers : Fires(s) \/ Stop(s) \/ Starts(s)
  \/ Tick

Spec == Init /\ [][Next]_vars

-----------------------------------------------------------------------------
(* Properties. *)

\* What the slots are for: an exchange is never asked earlier than its rate limit
\* after the request before, be it by another market, replica or identity, and
\* be it in the next interval.  Schedulers may stop and start at any time; the
\* rate limit is guaranteed as long as they have been told the same.
Spaced ==
  [][\A s \in Schedulers : \A i \in DOMAIN timers[s] :
       OperationTimer(s, i) /\ last.agreed /\ Agreed =>
         last.ago >= layout[last.identity].baseRateLimit * conf[s].rateLimitMultiplier]_vars

\* stop() leaves nothing behind that would ask the exchange: no descriptor has
\* been overwritten while its timer was pending.
NothingWhileStopped == \A s \in Schedulers : cron[s] = Off => timers[s] = <<>>

\* Whatever the length of the cluster's interval, up to a day, a scheduler that
\* starts has a cron task: there is a unit for each.
StartSchedules ==
  [][\A s \in Schedulers :
       Starts(s) /\ ClusterInterval(Fields(s, conf'[s])) <= Day => cron'[s] # Off]_vars

=============================================================================
