------------------------------ MODULE MCControl ------------------------------
(***************************************************************************)
(* The life of the collectors around their cluster, in five parts that are *)
(* checked side by side: the markets of a replica, the seeders, the        *)
(* network of a policy, the process of a bin of exchanges and the events   *)
(* between collectors and policies.  A behaviour is one of one part while  *)
(* the others have nothing to do.  What is not named after a part is of    *)
(* CollectorsProcess, which this module extends.                           *)
(***************************************************************************)
EXTENDS CollectorsProcess, Integers, Sequences, FiniteSets, TLC

CONSTANT Null

VARIABLES
  part,
  active, seeding, internal, managers, leaked, calls, startStop, reloading, life, hasStarted, used, seen,
  plan, known, markets, seeder, reported, faults,
  policy, standing, link, channel, pending, rabbitQueueId, broker, deaf, place, closes, losses, failures,
  phase, listeners, built, connection, collecting, fetching, backingOff, raised

managerVars == <<active, seeding, internal, managers, leaked, calls, startStop, reloading, life, hasStarted, used, seen>>
seedVars == <<plan, known, markets, seeder, reported, faults>>
networkVars == <<policy, standing, link, channel, pending, rabbitQueueId, broker, deaf, place, closes, losses, failures>>
processVars == vars
eventVars == <<phase, listeners, built, connection, collecting, fetching, backingOff, raised>>
MCvars == <<part, managerVars, seedVars, networkVars, processVars, eventVars>>

\* Two exchanges; two seeders of one kind or of two, configured alike or not.
Seeds(kind, symbols) == [kind |-> kind, exchanges |-> <<[id |-> 1, symbols |-> symbols], [id |-> 2, symbols |-> <<1>>]>>]
MCPlans == {
  <<Seeds("realtime", <<1, 2>>), Seeds("historical", <<2, 3>>)>>,
  <<Seeds("realtime", <<1, 2>>), Seeds("realtime", <<2, 3>>)>>,
  <<Seeds("config", <<1, 2>>), Seeds("config", <<1, 2>>)>>}
\* Nothing, or a market to keep and one that is configured no more.
Selected == [active |-> TRUE, historical |-> TRUE]
MCStored == {<<>>, <<1, 2>> :> Selected @@ <<1, 4>> :> Selected}

\* BackoffPolicy and ReplicaDiscoveryPolicy.
MCPolicies == {[prefetch |-> 1, prepares |-> FALSE], [prefetch |-> 0, prepares |-> TRUE]}

\* Three rows, of which a seeder withdraws one and adds one.
Markets == INSTANCE MarketsManager
  WITH Markets <- {1, 2, 3}, ActiveFirst <- {{1, 2}}, Symbols <- {{1, 3}}, MaxStarts <- 2, MaxReloads <- 2
Seeders == INSTANCE Seeding
  WITH Seeders <- {1, 2}, Plans <- MCPlans, Stored <- MCStored, Listed <- {<<1, 1>>, <<1, 2>>, <<2, 1>>},
       MaxFaults <- 1
Networks == INSTANCE PolicyNetwork
  WITH Messages <- {1, 2}, Policies <- MCPolicies, RetryLimit <- 1, MaxLosses <- 1, MaxFailures <- 2, life <- standing
Events == INSTANCE MarketEvents

\* One of the inputs, for a part that does nothing.
Only(input, inputs) == input = CHOOSE i \in inputs : TRUE

MCInit ==
  /\ part \in {"markets", "seeders", "network", "process", "events"}
  /\ Markets!Init
  /\ Seeders!Init /\ (part = "seeders" \/ (Only(plan, MCPlans) /\ markets = <<>>))
  /\ Networks!Init /\ (part = "network" \/ Only(policy, MCPolicies))
  /\ Init /\ (part = "process" \/ finite)
  /\ Events!Init

Manage == part = "markets" /\ Markets!Next /\ UNCHANGED <<part, seedVars, networkVars, processVars, eventVars>>
Seed == part = "seeders" /\ Seeders!Next /\ UNCHANGED <<part, managerVars, networkVars, processVars, eventVars>>
Consume == part = "network" /\ Networks!Next /\ UNCHANGED <<part, managerVars, seedVars, processVars, eventVars>>
Run == part = "process" /\ Next /\ UNCHANGED <<part, managerVars, seedVars, networkVars, eventVars>>
Announce == part = "events" /\ Events!Next /\ UNCHANGED <<part, managerVars, seedVars, networkVars, processVars>>

MCNext == Manage \/ Seed \/ Consume \/ Run \/ Announce

MCProgress ==
  \/ Manage /\ Markets!Progress
  \/ Consume /\ Networks!Progress

MCSpec == MCInit /\ [][MCNext]_MCvars /\ WF_MCvars(MCProgress)

-----------------------------------------------------------------------------

\* What the other parts promise, as their modules state it: MarketsManager,
RunAsAnnounced == Markets!RunAsAnnounced
OwnPositions == Markets!OwnPositions
StoppedForGood == Markets!StoppedForGood
EventuallySettled == part = "markets" => Markets!EventuallySettled

\* Seeding,
SelectedAsConfigured == Seeders!SelectedAsConfigured

\* PolicyNetwork,
MessagesHandled == Networks!MessagesHandled
NeverDeaf == Networks!NeverDeaf
EventuallyConsuming == Networks!EventuallyConsuming
GoodbyeIsLast == Networks!GoodbyeIsLast

\* MarketEvents.
EventsTold == Events!EventsTold

=============================================================================
