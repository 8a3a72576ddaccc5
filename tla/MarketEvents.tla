---------------------------- MODULE MarketEvents ----------------------------
(***************************************************************************)
(* How the parts of a replica tell each other of a rate limit failure: a   *)
(* collector raises RATE_LIMIT_EXCEEDED, whose handler has BackoffPolicy   *)
(* broadcast it; a backoff raises RELOAD_CLUSTER, whose handler has        *)
(* ReplicaDiscoveryPolicy say HELLO.  Emitter, handlers, policies and      *)
(* their connections are built, started, stopped and closed one after      *)
(* another while collectors and consumers run (MarketsAMQPManager.js,      *)
(* MarketEventsManager.js, the event handlers, wrapAMQPNetwork.js).        *)
(*                                                                         *)
(* What the messages lead to is the matter of ReplicaDiscovery, what       *)
(* becomes of a connection that is lost that of PolicyNetwork.             *)
(***************************************************************************)
EXTENDS Integers, Sequences

VARIABLES
  phase,       \* of the replica; see Phases
  listeners,   \* _events: the names somebody listens to
  built,       \* the policies that getPolicy() can find
  connection,  \* of each policy: "none", "open", "closed"
  collecting,  \* the schedulers run
  fetching,    \* a collector waits for its exchange
  backingOff,  \* process() of BackoffPolicy waits for its reload
  raised       \* history: what became of which event, by the phase it was raised in

vars == <<phase, listeners, built, connection, collecting, fetching, backingOff, raised>>

\* init(), startPolicies(), stopPolicies() and cleanup(), one await after another.
Phases == <<"new", "connected", "listening", "managing", "built", "discovering", "backoff starts",
            "running", "backoff stopped", "discovery stopped", "markets stopped", "ended">>

RateLimitExceeded == "RATE_LIMIT_EXCEEDED"
ReloadCluster == "RELOAD_CLUSTER"
Policies == {"BackoffPolicy", "ReplicaDiscoveryPolicy"}

Init ==
  /\ phase = "new" /\ listeners = {} /\ built = {} /\ connection = [p \in Policies |-> "none"]
  /\ collecting = FALSE /\ fetching = FALSE /\ backingOff = FALSE /\ raised = {}

Alive == phase # "ended"
Phase(from, to) == phase = from /\ phase' = to

-----------------------------------------------------------------------------
(* Events. *)

\* A policy publishes on its own connection: not before it has one; once that
\* is closed the message is kept for a channel that never comes.
Broadcast(p) ==
  CASE p \notin built \/ connection[p] = "none" -> "rejected"
    [] p \in built /\ connection[p] = "open" -> "published"
    [] OTHER -> "kept"

\* The policy each handler goes to.
Target(event) == IF event = RateLimitExceeded THEN "BackoffPolicy" ELSE "ReplicaDiscoveryPolicy"

Fate(event) == IF event \in listeners THEN Broadcast(Target(event)) ELSE "unheard"

Raise(event) == raised' = raised \cup {[event |-> event, phase |-> phase, fate |-> Fate(event)]}

\* emit() awaits nobody: the rejection of a handler is unhandled, and the
\* process is terminated.  A replica that is still starting is not stopped.
EmitRateLimitExceeded ==
  /\ Raise(RateLimitExceeded)
  /\ phase' = IF Fate(RateLimitExceeded) = "rejected" THEN "ended" ELSE phase

-----------------------------------------------------------------------------
(* The start. *)

SetupAMQPClient ==
  /\ Phase("new", "connected")
  /\ UNCHANGED <<listeners, built, connection, collecting, fetching, backingOff, raised>>

\* MarketEventsManager.init(): one listener for each handler.
Listen == {RateLimitExceeded, ReloadCluster}

InitMarketEventManager ==
  /\ Phase("connected", "listening")
  /\ listeners' = Listen
  /\ UNCHANGED <<built, connection, collecting, fetching, backingOff, raised>>

InitMarketManager ==
  /\ Phase("listening", "managing")
  /\ UNCHANGED <<listeners, built, connection, collecting, fetching, backingOff, raised>>

\* The policies, each with a client of its own that is not connected yet.
InitAMQPPolicies ==
  /\ Phase("managing", "built")
  /\ built' = Policies
  /\ UNCHANGED <<listeners, connection, collecting, fetching, backingOff, raised>>

\* The main policy connects, says HELLO and waits to be told its place.
StartLifecyclePolicy ==
  /\ Phase("built", "discovering")
  /\ connection' = [connection EXCEPT !["ReplicaDiscoveryPolicy"] = "open"]
  /\ UNCHANGED <<listeners, built, collecting, fetching, backingOff, raised>>

\* handleTargetStart(): the collectors have their connections and run, before
\* the promise that start() waits for is resolved.
StartMarkets ==
  /\ phase = "discovering" /\ ~collecting
  /\ collecting' = TRUE
  /\ UNCHANGED <<phase, listeners, built, connection, fetching, backingOff, raised>>

\* Then the inner policies: BackoffPolicy connects, and consumes from now on.
StartInnerPolicies ==
  /\ Phase("discovering", "backoff starts") /\ collecting
  /\ connection' = [connection EXCEPT !["BackoffPolicy"] = "open"]
  /\ UNCHANGED <<listeners, built, collecting, fetching, backingOff, raised>>

PoliciesStarted ==
  /\ Phase("backoff starts", "running")
  /\ UNCHANGED <<listeners, built, connection, collecting, fetching, backingOff, raised>>

-----------------------------------------------------------------------------
(* Collectors and backoffs. *)

Collect ==
  /\ collecting /\ ~fetching
  /\ fetching' = TRUE
  /\ UNCHANGED <<phase, listeners, built, connection, collecting, backingOff, raised>>

\* startCollector() ends, or fails for another reason than the rate limit.
\* Nobody waits for it: it may end after its scheduler has been stopped.
Collected ==
  /\ fetching /\ Alive
  /\ fetching' = FALSE
  /\ UNCHANGED <<phase, listeners, built, connection, collecting, backingOff, raised>>

RateLimited ==
  /\ fetching /\ Alive
  /\ fetching' = FALSE
  /\ EmitRateLimitExceeded
  /\ UNCHANGED <<listeners, built, connection, collecting, backingOff>>

\* process() takes up a multiplier, of this replica or of a peer, ...
BackOff ==
  /\ connection["BackoffPolicy"] = "open" /\ ~backingOff /\ Alive
  /\ backingOff' = TRUE
  /\ UNCHANGED <<phase, listeners, built, connection, collecting, fetching, raised>>

\* ... and when the markets have slept and run again, asks for a round.  It
\* awaits the handler: a rejection only fails process().
EmitReloadCluster ==
  /\ backingOff /\ Alive
  /\ backingOff' = FALSE
  /\ Raise(ReloadCluster)
  /\ UNCHANGED <<phase, listeners, built, connection, collecting, fetching>>

\* reloadActive() fails: no round.  The retry of the message finds its
\* multiplier taken over and does nothing.
ReloadFails ==
  /\ backingOff /\ Alive
  /\ backingOff' = FALSE
  /\ UNCHANGED <<phase, listeners, built, connection, collecting, fetching, raised>>

-----------------------------------------------------------------------------
(* The stop, of a replica that has started. *)

\* Mutated form of StopInnerPolicies: the main policy is stopped first.
StopLifecyclePolicyFirst ==
  /\ phase = "running" /\ UNCHANGED phase
  /\ connection' = [connection EXCEPT !["ReplicaDiscoveryPolicy"] = "closed"]
  /\ UNCHANGED <<listeners, built, collecting, fetching, backingOff, raised>>

StopInnerPolicies ==
  /\ Phase("running", "backoff stopped")
  /\ connection' = [connection EXCEPT !["BackoffPolicy"] = "closed"]
  /\ UNCHANGED <<listeners, built, collecting, fetching, backingOff, raised>>

StopLifecyclePolicy ==
  /\ Phase("backoff stopped", "discovery stopped")
  /\ connection' = [connection EXCEPT !["ReplicaDiscoveryPolicy"] = "closed"]
  /\ UNCHANGED <<listeners, built, collecting, fetching, backingOff, raised>>

StopMarkets ==
  /\ Phase("discovery stopped", "markets stopped")
  /\ collecting' = FALSE
  /\ UNCHANGED <<listeners, built, connection, fetching, backingOff, raised>>

\* close(): getHandler() binds anew at every call, so that no listener is the
\* one to remove; and the connection of the collectors.
Cleanup ==
  /\ Phase("markets stopped", "ended")
  /\ UNCHANGED <<listeners, built, connection, collecting, fetching, backingOff, raised>>

Next ==
  \/ SetupAMQPClient \/ InitMarketEventManager \/ InitMarketManager \/ InitAMQPPolicies
  \/ StartLifecyclePolicy \/ StartMarkets \/ StartInnerPolicies \/ PoliciesStarted
  \/ Collect \/ Collected \/ RateLimited \/ BackOff \/ EmitReloadCluster \/ ReloadFails
  \/ StopInnerPolicies \/ StopLifecyclePolicy \/ StopMarkets \/ Cleanup

Spec == Init /\ [][Next]_vars

-----------------------------------------------------------------------------

At(p) == CHOOSE i \in 1..Len(Phases) : Phases[i] = p

\* A rate limit failure of a replica that runs is broadcast.  One that comes
\* after markets have started and before BackoffPolicy has a connection ends
\* the replica; one that comes after BackoffPolicy has stopped, by collectors
\* that still run, is lost without harm (MarketsAMQPManager.startPolicies,
\* stopPolicies).
RateLimitsTold ==
  \A e \in raised : e.event = RateLimitExceeded =>
    e.fate = CASE e.phase = "discovering" -> "rejected"
               [] e.phase \in {"backoff starts", "running"} -> "published"
               [] OTHER -> "kept"

\* The round that a backoff asks for can be had: BackoffPolicy consumes only
\* while the main policy has a connection, started before its own and closed
\* after it.  Only a reload that outlives them both says HELLO to nobody.
RoundsAsked ==
  \A e \in raised : e.event = ReloadCluster =>
    e.fate = "published" \/ (e.fate = "kept" /\ At(e.phase) >= At("discovery stopped"))

\* What collectors have to say reaches the policies whose matter it is.
EventsTold == RateLimitsTold /\ RoundsAsked

=============================================================================
