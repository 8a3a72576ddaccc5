-------------------------- MODULE CollectorsProcess --------------------------
(***************************************************************************)
(* One process of collectors, from its entry point to its exit: the        *)
(* exchanges of its bin are started side by side, a process of historical  *)
(* collectors waits for their schedules and shuts itself down, and a       *)
(* signal or an unhandled rejection shuts down at any moment               *)
(* (AppCLIProvider.js, AppFiniteCLIProvider.js, BaseProvider.js,           *)
(* BaseCollectorsRunner.js, CCXTCollectorsRunner.js,                       *)
(* CCXTHistoricalCollectorsRunner.js, the historical managers).            *)
(*                                                                         *)
(* A MarketsAMQPManager is one step of its start or its stop: what happens *)
(* within is the matter of MarketsManager, ReplicaDiscovery and            *)
(* PolicyNetwork, what a schedule does that of Collection.                 *)
(***************************************************************************)
CONSTANT Exchanges   \* the exchanges of the bin

VARIABLES
  finite,      \* is it a process of historical collectors?
  main,        \* start(): "connecting", "processing", "working", "shutting down", "returned"
  manager,     \* of each exchange: "none", "loading", "starting", "running", "stopped"
  listed,      \* marketsAMQPManagers: pushed once they have started
  resolved,    \* the exchanges whose schedule promise is resolved
  shutdowns,   \* for each call of shutdown(), the one set of managers its stop()
               \* found; nothing before the call
  stops,       \* <<caller, exchange>>: stop() of a manager has returned to the caller
  goodbyes,    \* the exchanges whose replica has told its peers that it leaves
  exit         \* "no", "success" or "failure"

vars == <<finite, main, manager, listed, resolved, shutdowns, stops, goodbyes, exit>>

Callers == {"main", "signal", "rejection"}
Called(c) == shutdowns[c] # {}
Found(c) == UNION shutdowns[c]

Init ==
  /\ finite \in BOOLEAN /\ main = "connecting" /\ manager = [e \in Exchanges |-> "none"]
  /\ listed = {} /\ resolved = {} /\ shutdowns = [c \in Callers |-> {}] /\ stops = {} /\ goodbyes = {}
  /\ exit = "no"

Alive == exit = "no"

-----------------------------------------------------------------------------
(* start(). *)

\* BaseProvider.start(); then process() begins with every exchange at once.
Connect ==
  /\ Alive /\ main = "connecting"
  /\ main' = "processing"
  /\ manager' = [e \in Exchanges |-> "loading"]
  /\ UNCHANGED <<finite, listed, resolved, shutdowns, stops, goodbyes, exit>>

\* The exchange's API has loaded its markets.
InitExchangeAPI(e) ==
  /\ Alive /\ manager[e] = "loading"
  /\ manager' = [manager EXCEPT ![e] = "starting"]
  /\ UNCHANGED <<finite, main, listed, resolved, shutdowns, stops, goodbyes, exit>>

\* The manager has started, and is listed from now on: a stop() in the
\* meantime has not found it.
InitMarketsAMQPManager(e) ==
  /\ Alive /\ manager[e] = "starting"
  /\ manager' = [manager EXCEPT ![e] = "running"]
  /\ listed' = listed \cup {e}
  /\ UNCHANGED <<finite, main, resolved, shutdowns, stops, goodbyes, exit>>

\* start() rejects: the entry point exits at once, whatever the rest does.
StartFails ==
  /\ Alive /\ (main = "connecting" \/ \E e \in Exchanges : manager[e] \in {"loading", "starting"})
  /\ exit' = "failure"
  /\ UNCHANGED <<finite, main, manager, listed, resolved, shutdowns, stops, goodbyes>>

\* process() has started them all.  Only historical collectors are waited for.
Process ==
  /\ Alive /\ main = "processing" /\ listed = Exchanges
  /\ main' = IF finite THEN "working" ELSE "returned"
  /\ UNCHANGED <<finite, manager, listed, resolved, shutdowns, stops, goodbyes, exit>>

\* A schedule comes to its end.  Stopped before that, it never does.
ScheduleEnds(e) ==
  /\ Alive /\ finite /\ manager[e] = "running"
  /\ resolved' = resolved \cup {e}
  /\ UNCHANGED <<finite, main, manager, listed, shutdowns, stops, goodbyes, exit>>

-----------------------------------------------------------------------------
(* shutdown(). *)

\* The runner's stop() goes through the managers listed at that moment.
Shutdown(c) == shutdowns' = [shutdowns EXCEPT ![c] = {listed}]

\* Mutated form of FiniteStart: the first schedule is enough.
FiniteStartEarly ==
  /\ Alive /\ main = "working" /\ resolved # {}
  /\ main' = "shutting down" /\ Shutdown("main")
  /\ UNCHANGED <<finite, manager, listed, resolved, stops, goodbyes, exit>>

\* The finite provider shuts down when all the schedules are over.
FiniteStart ==
  /\ Alive /\ main = "working" /\ listed \subseteq resolved
  /\ main' = "shutting down" /\ Shutdown("main")
  /\ UNCHANGED <<finite, manager, listed, resolved, stops, goodbyes, exit>>

\* terminationHandler(), for a signal or an unhandled rejection, whatever
\* start() is doing.
TerminationHandler(c) ==
  /\ Alive /\ c # "main" /\ ~Called(c) /\ Shutdown(c)
  /\ UNCHANGED <<finite, main, manager, listed, resolved, stops, goodbyes, exit>>

\* MarketsAMQPManager.stop() for one of the callers.
StopManager(c, e) ==
  /\ Alive /\ Called(c) /\ e \in Found(c) /\ <<c, e>> \notin stops
  /\ manager' = [manager EXCEPT ![e] = "stopped"]
  /\ goodbyes' = goodbyes \cup {e}
  /\ stops' = stops \cup {<<c, e>>}
  /\ UNCHANGED <<finite, main, listed, resolved, shutdowns, exit>>

\* Mutated form of StopsAwaited: shutdown() does not wait for stop().
NothingAwaited(c) == Called(c)

StopsAwaited(c) == Called(c) /\ \A e \in Found(c) : <<c, e>> \in stops

\* The connections are closed and the process exits.
CloseAndExit(c) ==
  /\ Alive /\ StopsAwaited(c)
  /\ exit' = "success"
  /\ UNCHANGED <<finite, main, manager, listed, resolved, shutdowns, stops, goodbyes>>

\* shutdown() rejects, by a manager's stop() or by a connection that another
\* call has closed before; or the time of terminationHandler() is over.
ForceTerminationHandler ==
  /\ Alive /\ \E c \in Callers : Called(c)
  /\ exit' = "failure"
  /\ UNCHANGED <<finite, main, manager, listed, resolved, shutdowns, stops, goodbyes>>

Next ==
  \/ Connect \/ StartFails \/ Process \/ FiniteStart \/ ForceTerminationHandler
  \/ \E e \in Exchanges : InitExchangeAPI(e) \/ InitMarketsAMQPManager(e) \/ ScheduleEnds(e)
  \/ \E c \in Callers : TerminationHandler(c) \/ CloseAndExit(c) \/ \E e \in Exchanges : StopManager(c, e)

Spec == Init /\ [][Next]_vars

-----------------------------------------------------------------------------

\* A process that exits in good order has done its work or was told to go:
\* of its own accord only a process of historical collectors does, with every
\* exchange of its bin started and its schedule resolved
\* (CCXTHistoricalCollectorsRunner.process, AppFiniteCLIProvider.start).
ExitsWithWorkDone ==
  exit = "success" /\ ~Called("signal") /\ ~Called("rejection") => finite /\ resolved = Exchanges

\* Managers are listed and never unlisted: who found the fewest was the first.
First(c) == Called(c) /\ \A d \in Callers : Called(d) => Found(c) \subseteq Found(d)

\* Nobody leaves without a word: when the process exits in good order, every
\* replica that had started before the first shutdown() began has told its
\* peers.  One that was still starting is not found by stop(), and its peers
\* learn of it as they learn of a crash (BaseCollectorsRunner.stop,
\* initMarketsAMQPManager).
GoodbyeBeforeExit ==
  exit = "success" =>
    \E first \in Callers : First(first) /\ Found(first) \subseteq goodbyes

=============================================================================
