------------------------------ MODULE RedisLRU ------------------------------
(***************************************************************************)
(* RedisLRUCache.js as the use cases of several processes share it         *)
(* (BaseUseCase.js, getCachedResult()).                                    *)
(*                                                                         *)
(* The cache is a sorted set, the index, that gives each key the time of   *)
(* its last use, and a Redis key for each value.  A call is a series of    *)
(* commands, each atomic; between two of them other clients have theirs.   *)
(* Two commands of one call of which no other client can tell the order,   *)
(* or whose order does not matter to this one, are one action.             *)
(***************************************************************************)
EXTENDS Integers, FiniteSetsExt, Functions

CONSTANTS
  Clients,
  Keys,          \* the calls that are cached, by the hash of their parameters
  MaxCacheSize,
  MaxCalls,      \* bound: calls of all clients
  MaxDisturbed   \* bound: what disturbed counts

VARIABLES
  index,    \* the sorted set: time of last use by key
  stored,   \* keys that have a value
  client,   \* what each client does: its command and the key it is about
  clock,    \* time, in commands
  used,     \* history: the time of each key's last use
  disturbed \* history: how many calls have begun while another was under way,
            \* and how many keys those were about that broke off

vars == <<index, stored, client, clock, used, disturbed>>
callVars == <<clock, used, disturbed>>

Idle == [next |-> "call", keys |-> {}]

Init ==
  /\ index = <<>> /\ stored = {} /\ client = [c \in Clients |-> Idle] /\ clock = 0 /\ used = <<>>
  /\ disturbed = 0

At(c, command) == client[c].next = command
Then(c, command) == client' = [client EXCEPT ![c].next = command]
Done(c) == client' = [client EXCEPT ![c] = Idle]
AtRest == \A c \in Clients : At(c, "call")
KeyOf(c) == CHOOSE k \in client[c].keys : TRUE

AddedTo(f, k, time) == [x \in DOMAIN f \cup {k} |-> IF x = k THEN time ELSE f[x]]
DroppedFrom(f, ks) == Restrict(f, DOMAIN f \ ks)

\* What zrange(0, 0) answers.
Oldest == CHOOSE k \in DOMAIN index : \A x \in DOMAIN index : index[k] <= index[x]

-----------------------------------------------------------------------------
(* getCachedResult() and getFromCache(). *)

\* A client makes a call; its first command follows.
Called(c, command, ks) ==
  /\ At(c, "call") /\ clock < MaxCalls /\ (AtRest \/ disturbed < MaxDisturbed)
  /\ clock' = clock + 1
  /\ client' = [client EXCEPT ![c] = [next |-> command, keys |-> ks]]
  /\ disturbed' = IF AtRest THEN disturbed ELSE disturbed + 1

Get(c, k) ==
  /\ Called(c, IF k \in stored THEN "touch" ELSE "run", {k})
  /\ UNCHANGED <<index, stored, used>>

\* zadd; the expire that follows has no effect on a key that is gone.
Touch(c) ==
  /\ At(c, "touch")
  /\ index' = AddedTo(index, KeyOf(c), clock) /\ used' = AddedTo(used, KeyOf(c), clock)
  /\ Done(c)
  /\ UNCHANGED <<stored, clock, disturbed>>

-----------------------------------------------------------------------------
(* addToCache(), once the use case has run. *)

Index(c) ==
  /\ At(c, "run")
  /\ index' = AddedTo(index, KeyOf(c), clock) /\ used' = AddedTo(used, KeyOf(c), clock)
  /\ Then(c, "store")
  /\ UNCHANGED <<stored, clock, disturbed>>

\* The use case fails.
Fail(c) ==
  /\ At(c, "run")
  /\ Done(c)
  /\ UNCHANGED <<index, stored, callVars>>

Store(c) ==
  /\ At(c, "store")
  /\ stored' = stored \cup client[c].keys
  /\ Then(c, "count")
  /\ UNCHANGED <<index, callVars>>

\* Mutated form of Full: off by one.
FullLate == Cardinality(DOMAIN index) > MaxCacheSize + 1

Full == Cardinality(DOMAIN index) > MaxCacheSize

Count(c) ==
  /\ At(c, "count")
  /\ IF Full THEN Then(c, "choose") ELSE Done(c)
  /\ UNCHANGED <<index, stored, callVars>>

\* zrange: nothing is left if the cache has been cleared meanwhile.
Choose(c) ==
  /\ At(c, "choose")
  /\ IF index = <<>> THEN Done(c) ELSE client' = [client EXCEPT ![c] = [next |-> "evict", keys |-> {Oldest}]]
  /\ UNCHANGED <<index, stored, callVars>>

\* zrem, then del, here and in removeFromCache(); del of the whole index, then
\* of each key, in clearCache().
Evict(c) ==
  /\ At(c, "evict")
  /\ index' = DroppedFrom(index, client[c].keys)
  /\ Then(c, "delete")
  /\ UNCHANGED <<stored, callVars>>

Delete(c) ==
  /\ At(c, "delete")
  /\ stored' = stored \ client[c].keys
  /\ Done(c)
  /\ UNCHANGED <<index, callVars>>

-----------------------------------------------------------------------------
(* removeFromCache() and clearCache(), which the use cases do not call. *)

Remove(c, k) ==
  /\ Called(c, "evict", {k})
  /\ used' = DroppedFrom(used, {k})
  /\ UNCHANGED <<index, stored>>

\* zrange of the whole index.
Clear(c) ==
  /\ Called(c, "wipe", DOMAIN index)
  /\ used' = DroppedFrom(used, DOMAIN index)
  /\ UNCHANGED <<index, stored>>

Wipe(c) ==
  /\ At(c, "wipe")
  /\ index' = <<>>
  /\ Then(c, "delete")
  /\ UNCHANGED <<stored, callVars>>

-----------------------------------------------------------------------------

\* A command fails, or the process dies, and what would follow does not.
BreakOff(c) ==
  /\ ~At(c, "call") /\ disturbed < MaxDisturbed
  /\ Done(c)
  /\ disturbed' = disturbed + Max({1, Cardinality(client[c].keys)})
  /\ UNCHANGED <<index, stored, clock, used>>

\* The ttl of a value ends.
Expire(k) ==
  /\ k \in stored
  /\ stored' = stored \ {k}
  /\ UNCHANGED <<index, client, callVars>>

Calls(c) ==
  \/ Touch(c) \/ Index(c) \/ Fail(c) \/ Store(c) \/ Count(c) \/ Choose(c) \/ Evict(c) \/ Delete(c) \/ Wipe(c)
  \/ Clear(c) \/ BreakOff(c)
  \/ \E k \in Keys : Get(c, k) \/ Remove(c, k)

Next == (\E c \in Clients : Calls(c)) \/ (\E k \in Keys : Expire(k))

Spec == Init /\ [][Next]_vars

-----------------------------------------------------------------------------
(* Properties. *)

\* Calls that overlap may all evict the same key, and one that breaks off may
\* evict none, or leave values that the index does not list: so the index may
\* outgrow its limit for good, but by no more keys than there were such calls,
\* or than those were about that broke off.  Without any it is bounded and lists
\* every value, whatever expires and whichever use cases fail.
Bounded ==
  AtRest => /\ Cardinality(DOMAIN index) <= MaxCacheSize + disturbed
            /\ disturbed = 0 => stored \subseteq DOMAIN index

\* As long as calls do not overlap or break off, what has been evicted was used
\* before everything that is kept.
KeepsRecent ==
  AtRest /\ disturbed = 0 =>
    \A k \in DOMAIN index, x \in DOMAIN used \ DOMAIN index : used[x] < used[k]

\* Processes that share the cache keep its index near its limit, and in it
\* what was used last.
CacheKept == Bounded /\ KeepsRecent

=============================================================================
