---------------------------- MODULE ReplicaState ----------------------------
(***************************************************************************)
(* What a collectors replica knows about its peers and how it folds the    *)
(* messages of a discovery round into that knowledge:                      *)
(* lifecycle-policy/state-manager/ReplicaStateManager.js and its three     *)
(* reducers (ReplicaMembers, RateLimit, ClusterMembers).  Pure operators;  *)
(* ReplicaDiscovery gives them their state.                                *)
(*                                                                         *)
(* A replica is named by the address of its private queue; addresses are   *)
(* numbered in the order the code sorts them.  A field a JavaScript object *)
(* does not have is Null.  The interval a replica reports is the size of   *)
(* its rate-limited batch, proportional to its multiplier: the multiplier  *)
(* stands for it.                                                          *)
(***************************************************************************)
EXTENDS Integers, Sequences, FiniteSets, SequencesExt

CONSTANTS
  N,            \* how many replicas may ever exist
  Identity,     \* Identity[r]: the exchange and kind of collectors r runs
  Null

ASSUME NAssumption == N \in Nat \ {0}

Replicas == 1..N

\* An absent field is told from every number, every list of members and every
\* table of intervals, and an absent config from every config.
ASSUME NullAssumption ==
  /\ Null \notin Int
  /\ Null \notin Seq(Replicas) /\ Null \notin Seq([address : Replicas, interval : Int])
  /\ \A ids \in SUBSET {Identity[r] : r \in Replicas} :
       /\ Null \notin [ids -> Int]
       /\ Null \notin [replicaSize : Int, instancePosition : Int, rateLimitMultiplier : Int,
                     clusterMembers : [ids -> Int]]

\* The lists a replica keeps: the addresses of its peers, in the order of their
\* slots, and the intervals of everybody in the cluster.
Lists == {"replicaMembers", "clusterMembers"}

Peers(r) == {p \in Replicas : Identity[p] = Identity[r]}

\* Array filter.
Filter(list, Test(_)) ==
  FlattenSeq([i \in DOMAIN list |-> IF Test(list[i]) THEN <<list[i]>> ELSE <<>>])

\* What a replica reports of itself: getCurrentState of the three reducers.
StatusMsg(r, mult) ==
  [type |-> "STATUS", from |-> r, rateLimitMultiplier |-> mult, interval |-> mult]

-----------------------------------------------------------------------------
(* aggregateState: the STATUS messages of one round become a replica state. *)

\* The addresses of r's own identity, sorted.
AggregateReplicaMembers(r, statuses) ==
  FlattenSeq([a \in Replicas |->
    LET own == Filter(statuses, LAMBDA m : m.from = a /\ a \in Peers(r))
    IN  [i \in DOMAIN own |-> a]])

\* The members of the cluster, in the order of their addresses.
AggregateClusterMembers(statuses) ==
  FlattenSeq([a \in Replicas |->
    LET sent == Filter(statuses, LAMBDA m : m.from = a)
    IN  [i \in DOMAIN sent |-> [address |-> a, interval |-> sent[i].interval]]])

\* Mutated form of HighestMultiplier: the first message decides.
FirstMultiplier(messages) == IF messages = <<>> THEN 0 ELSE messages[1].rateLimitMultiplier

\* Math.max over the buffer; 0 stands for the -Infinity of an empty one.
HighestMultiplier(messages) ==
  Max({0} \cup {messages[i].rateLimitMultiplier : i \in DOMAIN messages})

AggregateState(r, statuses) ==
  [replicaMembers |-> AggregateReplicaMembers(r, statuses),
   rateLimitMultiplier |-> HighestMultiplier(statuses),
   clusterMembers |-> AggregateClusterMembers(statuses)]

-----------------------------------------------------------------------------
(* aggregateShareState and sanitizeShareState: the SHARE messages of one    *)
(* debounce window become the state to adopt, field by field or not at all. *)

\* Of the shares of r's own identity the last one received counts.
LastReplicaMembers(r, shares) ==
  LET own == {i \in DOMAIN shares : shares[i].from \in Peers(r)}
  IN  IF own = {} THEN Null ELSE shares[Max(own)].replicaMembers

\* Where the shares mention address a: in which share, and where in its list.
Mentions(a, shares) ==
  UNION {{<<i, j>> : j \in {k \in DOMAIN shares[i].clusterMembers :
                           shares[i].clusterMembers[k].address = a}} : i \in DOMAIN shares}

\* The shares are walked from the newest on, each from the beginning of its
\* list.  The first mention is kept until a self-report replaces it, and that
\* until the next one does: the oldest self-report counts.
ChosenMention(a, shares) ==
  LET all == Mentions(a, shares)
      own == {p \in all : shares[p[1]].from = a}
      newest == Max({p[1] : p \in all})
      oldest == Min({p[1] : p \in own})
  IN  IF own = {} THEN <<newest, Min({p[2] : p \in {q \in all : q[1] = newest}})>>
                  ELSE <<oldest, Max({p[2] : p \in {q \in own : q[1] = oldest}})>>

UniqueClusterMembers(shares) ==
  FlattenSeq([a \in Replicas |->
    IF Mentions(a, shares) = {} THEN <<>>
    ELSE LET chosen == ChosenMention(a, shares)
         IN  << shares[chosen[1]].clusterMembers[chosen[2]] >>])

\* Mutated forms of ShareState: lists without r are adopted as well ...
ShareStateUnchecked(r, shares, mult) ==
  LET highest == HighestMultiplier(shares)
  IN  [replicaMembers |-> LastReplicaMembers(r, shares),
       rateLimitMultiplier |-> IF highest > mult THEN highest ELSE Null,
       clusterMembers |-> UniqueClusterMembers(shares)]

\* ... or any multiplier but the present one.
ShareStateAnyMultiplier(r, shares, mult) ==
  LET highest == HighestMultiplier(shares)
  IN  [replicaMembers |-> LastReplicaMembers(r, shares),
       rateLimitMultiplier |-> IF highest \notin {0, mult} THEN highest ELSE Null,
       clusterMembers |-> UniqueClusterMembers(shares)]

\* The state is adopted only where it contains r itself, and a multiplier
\* only when it is higher than the one r has.
ShareState(r, shares, mult) ==
  LET replicas == LastReplicaMembers(r, shares)
      cluster  == UniqueClusterMembers(shares)
      highest  == HighestMultiplier(shares)
  IN  [replicaMembers |->
         IF replicas # Null /\ (\E i \in DOMAIN replicas : replicas[i] = r)
         THEN replicas ELSE Null,
       rateLimitMultiplier |-> IF highest > mult THEN highest ELSE Null,
       clusterMembers |->
         IF \E i \in DOMAIN cluster : cluster[i].address = r THEN cluster ELSE Null]

\* members: the two lists as the reducers have stored them.
ShouldReload(state, members) ==
  \/ state.rateLimitMultiplier # Null
  \/ \E l \in Lists : state[l] # Null /\ state[l] # members[l]

\* Mutated form of Overlay: missing fields replace those of old too.
OverlayAll(old, state) == [f \in DOMAIN old |-> state[f]]

\* The fields that state has replace those of old.
Overlay(old, state) == [f \in DOMAIN old |-> IF state[f] = Null THEN old[f] ELSE state[f]]

UpdateState(members, state) == Overlay(members, state)

\* The lists a state has.
Given(state) == {l \in Lists : state[l] # Null}

-----------------------------------------------------------------------------
(* aggregateCloseState: replicas that said CLOSE leave the stored lists.    *)

Closers(closes) == {closes[i].from : i \in DOMAIN closes}

\* Mutated form of RemoveClosed: only the cluster forgets them.
RemoveClosedFromCluster(r, closes, members) ==
  [members EXCEPT !.clusterMembers = Filter(@, LAMBDA m : m.address \notin Closers(closes))]

RemoveClosed(r, closes, members) ==
  [replicaMembers |->
     Filter(members.replicaMembers, LAMBDA a : a \notin Closers(closes) \cap Peers(r)),
   clusterMembers |->
     Filter(members.clusterMembers, LAMBDA m : m.address \notin Closers(closes))]

CloseState(members) ==
  [replicaMembers |-> members.replicaMembers, rateLimitMultiplier |-> Null,
   clusterMembers |-> members.clusterMembers]

-----------------------------------------------------------------------------
(* normalizeState: what the schedulers are given.                           *)

\* Array indexOf: counted from 0, -1 when absent.
IndexOf(a, list) ==
  IF \E i \in DOMAIN list : list[i] = a
  THEN (CHOOSE i \in DOMAIN list : list[i] = a /\ \A j \in 1..(i - 1) : list[j] # a) - 1
  ELSE -1

\* Mutated form of IdentityIntervals: the last member of an identity counts.
LastIntervals(cluster) ==
  [id \in {Identity[cluster[i].address] : i \in DOMAIN cluster} |->
     FoldSeq(LAMBDA m, sum : IF Identity[m.address] = id THEN m.interval ELSE sum, 0, cluster)]

\* The intervals of the members, added up per identity.
IdentityIntervals(cluster) ==
  [id \in {Identity[cluster[i].address] : i \in DOMAIN cluster} |->
     FoldSeq(LAMBDA m, sum : IF Identity[m.address] = id THEN sum + m.interval ELSE sum,
             0, cluster)]

\* normalizeState throws without a list of cluster members.
Normalizable(state) == state.clusterMembers # Null

NormalizeState(r, state) ==
  [replicaSize |-> IF state.replicaMembers = Null THEN Null ELSE Len(state.replicaMembers),
   instancePosition |-> IF state.replicaMembers = Null THEN Null ELSE IndexOf(r, state.replicaMembers),
   rateLimitMultiplier |-> state.rateLimitMultiplier,
   clusterMembers |-> IdentityIntervals(state.clusterMembers)]

\* setDynamicConfig of a scheduler.
SetDynamicConfig(old, config) == Overlay(old, config)

=============================================================================
