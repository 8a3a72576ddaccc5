--------------------------- MODULE MarketsManager ---------------------------
(***************************************************************************)
(* The markets of one replica of the collectors of an exchange:            *)
(* MarketsManager.js with its CollectorsManagers and their schedulers, the *)
(* life MarketsAMQPManager.js and the CLI give it, and the seeder that     *)
(* rewrites the table of markets meanwhile (CCXTSeeder.js).                *)
(*                                                                         *)
(* start(), stop() and reloadActive() are calls that others may interleave *)
(* with at every await.  The mutexes serve in order; that they do not time *)
(* out before a call ends is what LockCoversReload of ReplicaDiscovery is  *)
(* about.  The exchange of messages that leads to the calls is left to     *)
(* ReplicaDiscovery.                                                       *)
(***************************************************************************)
EXTENDS Integers, FiniteSets, SequencesExt

CONSTANTS
  Markets,      \* the rows of the table, active or not
  ActiveFirst,  \* which rows may be active when the replica starts
  Symbols,      \* which ones may be configured when the seeder runs
  MaxStarts,    \* bound: STATUS rounds handled before the replica has started
  MaxReloads    \* bound: reloads

VARIABLES
  active,       \* rows with active = true
  seeding,      \* what the seeder has still to set up; Unseeded before it runs
  internal,     \* internalScheduler: queueSize and number of its configuration
  managers,     \* collectorsManagersMap, with the scheduler of each
  leaked,       \* cron tasks that run and that no scheduler refers to
  calls,        \* calls under way
  startStop,    \* startStopMutex: calls in order, the first one holds it
  reloading,    \* reloadMutex
  life,         \* of MarketsAMQPManager
  hasStarted,
  used,         \* starts and reloads so far
  seen          \* history: did the table change between two queries, did a
                \* reload outlive a stop

vars == <<active, seeding, internal, managers, leaked, calls, startStop, reloading, life, hasStarted, used, seen>>
tableVars == <<active, seeding>>
schedulerVars == <<internal, managers, leaked>>
lockVars == <<startStop, reloading>>
lifeVars == <<life, hasStarted>>

Unseeded == Markets
Alive == life # "ended"
Known == {m \in Markets : managers[m].cron # "unknown"}
Unknown == [position |-> 0, size |-> 0, config |-> 0, cron |-> "unknown"]

Init ==
  /\ active \in ActiveFirst /\ seeding = Unseeded /\ internal = [size |-> 0, config |-> 0]
  /\ managers = [m \in Markets |-> Unknown] /\ leaked = [m \in Markets |-> 0] /\ calls = {}
  /\ startStop = <<>> /\ reloading = <<>> /\ life = "init" /\ hasStarted = FALSE
  /\ used = [starts |-> 0, reloads |-> 0] /\ seen = [seeded |-> FALSE, outlived |-> FALSE]

-----------------------------------------------------------------------------
(* The seeder. *)

\* resetMarketStatuses(), of an exchange with some of the symbols configured.
ResetMarketStatuses ==
  /\ seeding = Unseeded
  /\ seeding' \in Symbols
  /\ active' = {}
  /\ seen' = [seen EXCEPT !.seeded = \E c \in calls : c.step = "list"]
  /\ UNCHANGED <<schedulerVars, calls, lockVars, lifeVars, used>>

\* setupMarket(); a symbol that fails is left out.
SetupMarket ==
  /\ seeding # Unseeded
  /\ \E m \in seeding :
       /\ seeding' = seeding \ {m}
       /\ active' \in {active, active \cup {m}}
  /\ seen' = [seen EXCEPT !.seeded = @ \/ \E c \in calls : c.step = "list"]
  /\ UNCHANGED <<schedulerVars, calls, lockVars, lifeVars, used>>

-----------------------------------------------------------------------------
(* Schedulers: cron is "none" before a start, then "live" or "stopped". *)

Stopped(m) == [managers[m] EXCEPT !.cron = IF @ = "live" THEN "stopped" ELSE @]

\* start() of a scheduler: a cron task it has not stopped is forgotten, and so
\* is the scheduler of a market that has been cleared.
SchedulerStarts(m, config) ==
  IF m \in Known
  THEN /\ managers' = [managers EXCEPT ![m].config = config, ![m].cron = "live"]
       /\ leaked' = [leaked EXCEPT ![m] = IF managers[m].cron = "live" THEN @ + 1 ELSE @]
  ELSE leaked' = [leaked EXCEPT ![m] = @ + 1] /\ UNCHANGED managers

-----------------------------------------------------------------------------
(* Calls. *)

Call(kind, config) ==
  [id |-> used.starts + used.reloads + 1, kind |-> kind, config |-> config, step |-> "wait", pending |-> {}, size |-> 0]

Becomes(c, d) == calls' = (calls \ {c}) \cup {d}
Holds(c, mutex) == mutex # <<>> /\ Head(mutex) = c.id

\* start() up to its first query.
StartBegins(c) ==
  /\ c.kind = "start" /\ c.step = "wait" /\ Holds(c, startStop)
  /\ internal' = [internal EXCEPT !.config = c.config]
  /\ Becomes(c, [c EXCEPT !.step = "count"])
  /\ UNCHANGED <<tableVars, managers, leaked, lockVars, lifeVars, used, seen>>

CountMarkets(c) ==
  /\ c.step = "count" /\ Becomes(c, [c EXCEPT !.step = "list", !.size = Cardinality(active)])
  /\ UNCHANGED <<tableVars, schedulerVars, lockVars, lifeVars, used, seen>>

\* Mutated form of Resolved: disabled markets stay.
ResolvedKeeping(ids, size, m) ==
  IF ~Contains(ids, m) THEN managers[m]
  ELSE [position |-> CHOOSE i \in 0..(Len(ids) - 1) : ids[i + 1] = m,
        size |-> size, config |-> internal.config,
        cron |-> IF m \in Known THEN managers[m].cron ELSE "none"]

\* resolveMarkets() and clearDisabledMarkets().
Resolved(ids, size, m) ==
  IF ~Contains(ids, m) THEN Unknown
  ELSE [position |-> CHOOSE i \in 0..(Len(ids) - 1) : ids[i + 1] = m,
        size |-> size, config |-> internal.config,
        cron |-> IF m \in Known THEN managers[m].cron ELSE "none"]

\* The rest of loadMarkets(); the query gives the markets no order.  The
\* collectors of all markets begin to connect.
ListMarkets(c) ==
  /\ c.step = "list"
  /\ internal' = [internal EXCEPT !.size = c.size]
  /\ \E ids \in SetToSeqs(active) : managers' = [m \in Markets |-> Resolved(ids, c.size, m)]
  /\ leaked' = [m \in Markets |-> IF m \notin active /\ managers[m].cron = "live" THEN leaked[m] + 1 ELSE leaked[m]]
  /\ Becomes(c, [c EXCEPT !.step = "markets", !.pending = active])
  /\ UNCHANGED <<tableVars, lockVars, lifeVars, used, seen>>

\* A market has its context and its connection.
StartMarket(c) ==
  /\ c.kind = "start" /\ c.step = "markets"
  /\ \E m \in c.pending :
       /\ SchedulerStarts(m, c.config) /\ Becomes(c, [c EXCEPT !.pending = @ \ {m}])
  /\ UNCHANGED <<tableVars, internal, lockVars, lifeVars, used, seen>>

\* Mutated form of StartEnds: it releases nothing.
StartEndsHolding(c) ==
  /\ c.kind = "start" /\ c.step = "markets" /\ c.pending = {}
  /\ calls' = calls \ {c}
  /\ hasStarted' = TRUE
  /\ UNCHANGED <<tableVars, schedulerVars, lockVars, life, used, seen>>

StartEnds(c) ==
  /\ c.kind = "start" /\ c.step = "markets" /\ c.pending = {}
  /\ calls' = calls \ {c}
  /\ startStop' = Tail(startStop)
  /\ hasStarted' = TRUE
  /\ UNCHANGED <<tableVars, schedulerVars, reloading, life, used, seen>>

\* Mutated form of MayReload: no mutex.
MayReloadAnytime(c) == TRUE

MayReload(c) == Holds(c, reloading)

\* terminationHandler(), for a signal or an error that nobody catches.  What
\* has not started yet is not stopped, the process just ends.
Terminated ==
  life' = CASE life = "running" -> "closing"
            [] life \in {"init", "discovering"} -> "ended"
            [] OTHER -> life

\* reloadActive() up to the sleeps of the markets.  Where a scheduler has no
\* cron task yet it fails: the mutex is free, and the error ends the process
\* unless it is the handler of a BACKOFF that asked, whose message is retried.
ReloadBegins(c) ==
  LET unborn == {m \in Known : managers[m].cron = "none"}
  IN  /\ c.kind = "reload" /\ c.step = "wait" /\ MayReload(c)
      /\ internal' = [internal EXCEPT !.config = c.config]
      /\ managers' = [m \in Markets |-> Stopped(m)]
      /\ Becomes(c, [c EXCEPT !.step = IF unborn = {} THEN "markets" ELSE "failed", !.pending = Known \ unborn])
      /\ reloading' = IF unborn = {} THEN reloading ELSE Tail(reloading)
      /\ life' = life \/ (unborn # {} /\ Terminated)
      /\ UNCHANGED <<tableVars, leaked, startStop, hasStarted, used, seen>>

ReloadMarket(c) ==
  /\ c.kind = "reload" /\ c.step \in {"markets", "failed"}
  /\ \E m \in c.pending :
       /\ SchedulerStarts(m, c.config) /\ Becomes(c, [c EXCEPT !.pending = @ \ {m}])
  /\ UNCHANGED <<tableVars, internal, lockVars, lifeVars, used, seen>>

ReloadEnds(c) ==
  /\ c.kind = "reload" /\ c.step \in {"markets", "failed"} /\ c.pending = {}
  /\ calls' = calls \ {c}
  /\ reloading' = IF c.step = "failed" THEN reloading ELSE Tail(reloading)
  /\ UNCHANGED <<tableVars, schedulerVars, startStop, lifeVars, used, seen>>

\* Mutated form of MayStop: no mutex.
MayStopAnytime(c) == TRUE

MayStop(c) == Holds(c, startStop)

\* stop()
StopAll(c) ==
  /\ c.kind = "stop" /\ MayStop(c)
  /\ managers' = [m \in Markets |-> Stopped(m)]
  /\ calls' = calls \ {c}
  /\ startStop' = Tail(startStop)
  /\ life' = "stopped"
  /\ seen' = [seen EXCEPT !.outlived = \E d \in calls : d.kind = "reload"]
  /\ UNCHANGED <<tableVars, internal, leaked, reloading, hasStarted, used>>

-----------------------------------------------------------------------------
(* The life of the replica. *)

\* init() of MarketsAMQPManager, and its lifecycle policy starts.
InitManagers ==
  /\ life = "init"
  /\ life' = "discovering"
  /\ internal' = [internal EXCEPT !.size = Cardinality(active)]
  /\ UNCHANGED <<tableVars, managers, leaked, calls, lockVars, hasStarted, used, seen>>

\* handleTargetStart(), for every STATUS round before the first start has ended.
TargetStart ==
  /\ life = "discovering" /\ ~hasStarted /\ used.starts < MaxStarts
  /\ LET c == Call("start", used.starts + used.reloads + 1)
     IN  calls' = calls \cup {c} /\ startStop' = Append(startStop, c.id)
  /\ used' = [used EXCEPT !.starts = @ + 1]
  /\ UNCHANGED <<tableVars, schedulerVars, reloading, lifeVars, seen>>

\* The start promise is resolved: the inner policies start, the runner keeps
\* the manager.
PoliciesStarted ==
  /\ life = "discovering" /\ hasStarted
  /\ life' = "running"
  /\ UNCHANGED <<tableVars, schedulerVars, calls, lockVars, hasStarted, used, seen>>

\* A SHARE or CLOSE round, or a backoff; buffers and consumers may deliver one
\* after the policies have stopped.
AskReload ==
  /\ hasStarted /\ used.reloads < MaxReloads
  /\ LET c == Call("reload", used.starts + used.reloads + 1)
     IN  calls' = calls \cup {c} /\ reloading' = Append(reloading, c.id)
  /\ used' = [used EXCEPT !.reloads = @ + 1]
  /\ seen' = [seen EXCEPT !.outlived = @ \/ life = "stopped"]
  /\ UNCHANGED <<tableVars, schedulerVars, startStop, lifeVars>>

\* A signal.
Terminate ==
  /\ life \in {"init", "discovering", "running"} /\ Terminated
  /\ UNCHANGED <<tableVars, schedulerVars, calls, lockVars, hasStarted, used, seen>>

\* stopPolicies(), up to the call of stop().
StopPolicies ==
  /\ life = "closing"
  /\ life' = "stopping"
  /\ LET c == [Call("stop", 0) EXCEPT !.id = 0]
     IN  calls' = calls \cup {c} /\ startStop' = Append(startStop, c.id)
  /\ UNCHANGED <<tableVars, schedulerVars, reloading, hasStarted, used, seen>>

\* cleanup(), and the process exits; sooner if terminationTimeout ends.
Exit ==
  /\ life = "stopped"
  /\ life' = "ended"
  /\ UNCHANGED <<tableVars, schedulerVars, calls, lockVars, hasStarted, used, seen>>

ForceTermination ==
  /\ life \in {"closing", "stopping"}
  /\ life' = "ended"
  /\ UNCHANGED <<tableVars, schedulerVars, calls, lockVars, hasStarted, used, seen>>

-----------------------------------------------------------------------------

Proceed(c) ==
  \/ StartBegins(c) \/ CountMarkets(c) \/ ListMarkets(c) \/ StartMarket(c) \/ StartEnds(c)
  \/ ReloadBegins(c) \/ ReloadMarket(c) \/ ReloadEnds(c) \/ StopAll(c)

Progress ==
  /\ Alive
  /\ \/ InitManagers \/ PoliciesStarted \/ StopPolicies \/ Exit
     \/ TargetStart /\ used.starts = 0
     \/ \E c \in calls : Proceed(c)

Next ==
  \/ Progress
  \/ Alive /\ (TargetStart \/ AskReload \/ Terminate \/ ForceTermination \/ ResetMarketStatuses \/ SetupMarket)

\* Promises are kept going, and some STATUS round comes: the replica answers
\* its own HELLO.
Spec == Init /\ [][Next]_vars /\ WF_vars(Progress)

-----------------------------------------------------------------------------
(* Properties. *)

\* When all calls have ended, all schedulers run, with the configuration the
\* internal scheduler (which the peers are told about) has; and at no time is
\* a market collected twice, however many reloads wait, sleep and restart the
\* schedulers, unless a late STATUS starts the markets a second time.
RunAsAnnounced ==
  /\ used.starts <= 1 => \A m \in Markets : leaked[m] = 0
  /\ life = "running" /\ calls = {} =>
    \A m \in Known : managers[m].cron = "live" /\ (used.starts = 1 => managers[m].config = internal.config)

\* Every market has a position of its own in the queue, also those of an
\* earlier start; and one in the queue, unless the seeder came between the two
\* queries.
OwnPositions ==
  \A m \in Known :
    /\ \A n \in Known \ {m} : managers[m].position # managers[n].position
    /\ ~seen.seeded => managers[m].position < managers[m].size

\* What has been stopped stays so, however long a start took before; unless a
\* reload was under way or comes later.
StoppedForGood == life = "stopped" /\ ~seen.outlived => \A m \in Known : managers[m].cron # "live"

\* Nobody waits for ever: the replica comes to rest, running or ended.
EventuallySettled == <>[](life = "ended" \/ (life = "running" /\ calls = {}))

=============================================================================
