-------------------------- MODULE RedisLRU_proofs --------------------------
(***************************************************************************)
(* What the cache promises, for any number of clients, keys and calls.     *)
(***************************************************************************)
EXTENDS RedisLRU, FiniteSetTheorems, WellFoundedInduction, TLAPS

Reasonable == IsFiniteSet(Clients) /\ IsFiniteSet(Keys) /\ MaxCacheSize \in Nat

Commands == {"call", "touch", "run", "store", "count", "choose", "evict", "wipe", "delete"}

\* The clients whose next command is one of these, and the keys they are about.
In(commands) == {c \in Clients : client[c].next \in commands}
KeysIn(commands) == UNION {client[c].keys : c \in In(commands)}

\* Somebody whose next command is this one is about the key; or is not.
About(command, k) == \E d \in Clients : client[d].next = command /\ k \in client[d].keys
NotAbout(command, k) == \E d \in Clients : client[d].next = command /\ k \notin client[d].keys

Types ==
  /\ Reasonable /\ client \in [Clients -> [next : Commands, keys : SUBSET Keys]]
  /\ \A c \in Clients : client[c].next \in {"touch", "run", "store", "evict"} =>
       \E k \in Keys : client[c].keys = {k}
  /\ IsFiniteSet(DOMAIN index) /\ DOMAIN index \subseteq Keys /\ index \in [DOMAIN index -> Nat]
  /\ IsFiniteSet(stored) /\ stored \subseteq Keys /\ clock \in Nat /\ disturbed \in Nat

\* Keys that clearCache() does not know, and that Wipe takes out of the index.
Doomed == {k \in DOMAIN index : NotAbout("wipe", k)}

\* Values that the index does not list, or will not, and that nobody deletes.
Unlisted == stored \ (DOMAIN index \cup KeysIn({"delete"}))
Orphans == Unlisted \cup ((stored \cap Doomed) \ KeysIn({"delete"}))
Stray == Orphans \ KeysIn({"store"})

Weight(A, B) == Cardinality(A) + Cardinality(B)

Writers == In({"touch", "run", "store"})

\* Every orphan is of a call of its own, and the first call of those that overlap,
\* which is not counted, is not among these: before a value can be lost, one has
\* been stored by a call that goes on to remove keys.
Removing == {"count", "choose", "evict", "wipe", "delete"}
Loses(c, k) == client[c].next = "store" /\ client[c].keys = {k} /\ (k \in DOMAIN index => NotAbout("wipe", k))
Quiet ==
  \/ \A c \in Clients : client[c].next = "call"
  \/ \E c \in Clients : client[c].next \in Removing
  \/ \E c \in Clients, k \in Keys : Loses(c, k)
OrphanInv ==
  /\ Weight(Writers, Stray) <= disturbed + 1
  /\ Quiet => Weight(Writers, Stray) <= disturbed

\* Keys in use, and the clients that are about to add one.
Held == DOMAIN index \cup KeysIn({"store"}) \cup Unlisted
Adding == In({"touch", "run"})

\* As long as there is one key too many, somebody is still to find that out, or
\* to take a key away.
Owing ==
  \/ \E c \in Clients : client[c].next \in {"run", "store", "count", "choose"}
  \/ \E c \in Clients, k \in Held : client[c].next \in {"touch", "evict"} /\ client[c].keys = {k}
SizeInv ==
  /\ Weight(Adding, Held) <= MaxCacheSize + disturbed + 1
  /\ ~Owing => Weight(Adding, Held) <= MaxCacheSize + disturbed

\* As long as calls have neither overlapped nor broken off, the times of the index
\* are those of the last use, those of the keys that it has dropped are before
\* them, and that of the call under way is after.
Fresh(k) == About("touch", k) \/ About("run", k)
Leaving(k) == About("evict", k) \/ About("wipe", k)
Recent ==
  /\ \A c, d \in Clients : client[c].next # "call" /\ client[d].next # "call" => c = d
  /\ \A k \in DOMAIN used : used[k] \in 1..clock
  /\ \A k, x \in DOMAIN used : used[x] = used[k] => k = x
  /\ \A k \in stored : k \in DOMAIN index \/ About("delete", k)
  /\ \A k \in Keys : About("store", k) => k \in DOMAIN index
  /\ \A k \in Keys : Fresh(k) => clock >= 1 /\ \A x \in DOMAIN used : used[x] < clock
  /\ \A k \in DOMAIN index : ~Leaving(k) => k \in DOMAIN used /\ index[k] = used[k]
  /\ \A k \in DOMAIN index, x \in DOMAIN used \ DOMAIN index : ~Leaving(k) => used[x] < used[k]
  /\ \A k \in DOMAIN used, x \in DOMAIN index : About("evict", k) /\ ~Leaving(x) => used[k] < used[x]
  /\ \A k \in DOMAIN index : ~NotAbout("wipe", k)
RecentInv == disturbed = 0 => Recent

IInv == Types /\ OrphanInv /\ SizeInv /\ RecentInv

-----------------------------------------------------------------------------
(* Weights. *)

LEMMA WeightNat ==
  ASSUME NEW A, NEW B, IsFiniteSet(A), IsFiniteSet(B)
  PROVE  Weight(A, B) \in Nat
BY FS_CardinalityType DEF Weight

LEMMA NoHeavier ==
  ASSUME NEW A, NEW B, IsFiniteSet(A), IsFiniteSet(B), NEW C \in SUBSET A, NEW D \in SUBSET B
  PROVE  Weight(C, D) \in Nat /\ Weight(C, D) <= Weight(A, B)
<1>1. /\ Cardinality(C) <= Cardinality(A) /\ IsFiniteSet(C)
      /\ Cardinality(D) <= Cardinality(B) /\ IsFiniteSet(D)
  BY FS_Subset
<1>2. {Cardinality(A), Cardinality(B), Cardinality(C), Cardinality(D)} \subseteq Nat
  BY <1>1, FS_CardinalityType
<1> QED BY <1>1, <1>2 DEF Weight

LEMMA Added ==
  ASSUME NEW S, NEW x, IsFiniteSet(S)
  PROVE  IsFiniteSet(S \cup {x}) /\ Cardinality(S \cup {x}) <= Cardinality(S) + 1
<1>1. IsFiniteSet(S \cup {x})
  BY FS_AddElement
<1>2. Cardinality(S \cup {x}) = Cardinality(S) \/ Cardinality(S \cup {x}) = Cardinality(S) + 1
  BY FS_AddElement
<1>3. Cardinality(S) \in Nat
  BY FS_CardinalityType
<1> QED BY <1>1, <1>2, <1>3

LEMMA OneMore ==
  ASSUME NEW A, NEW B, IsFiniteSet(A), IsFiniteSet(B), NEW c, NEW C \in SUBSET (A \cup {c}), NEW D \in SUBSET B
  PROVE  Weight(C, D) \in Nat /\ Weight(C, D) <= Weight(A, B) + 1
<1>1. IsFiniteSet(A \cup {c}) /\ Cardinality(A \cup {c}) <= Cardinality(A) + 1
  BY Added
<1>2. Weight(C, D) \in Nat /\ Weight(C, D) <= Weight(A \cup {c}, B)
  BY <1>1, NoHeavier
<1>3. {Cardinality(A), Cardinality(B), Cardinality(A \cup {c})} \subseteq Nat
  BY <1>1, FS_CardinalityType
<1> QED BY <1>1, <1>2, <1>3 DEF Weight

LEMMA OneLess ==
  ASSUME NEW A, NEW B, IsFiniteSet(A), IsFiniteSet(B), NEW c \in A, NEW C \in SUBSET (A \ {c}), NEW D \in SUBSET B
  PROVE  Weight(C, D) \in Nat /\ Weight(C, D) <= Weight(A, B) - 1
<1>1. IsFiniteSet(A \ {c}) /\ Cardinality(A \ {c}) = Cardinality(A) - 1
  BY FS_RemoveElement
<1>2. Weight(C, D) \in Nat /\ Weight(C, D) <= Weight(A \ {c}, B)
  BY <1>1, NoHeavier
<1>3. {Cardinality(A), Cardinality(B), Cardinality(A \ {c})} \subseteq Nat
  BY <1>1, FS_CardinalityType
<1> QED BY <1>1, <1>2, <1>3 DEF Weight

LEMMA OneKeyLess ==
  ASSUME NEW A, NEW B, IsFiniteSet(A), IsFiniteSet(B), NEW k \in B, NEW C \in SUBSET A, NEW D \in SUBSET (B \ {k})
  PROVE  Weight(C, D) \in Nat /\ Weight(C, D) <= Weight(A, B) - 1
<1>1. Weight(D, C) \in Nat /\ Weight(D, C) <= Weight(B, A) - 1
  BY OneLess
<1>2. IsFiniteSet(C) /\ IsFiniteSet(D)
  BY FS_Subset
<1>3. {Cardinality(A), Cardinality(B), Cardinality(C), Cardinality(D)} \subseteq Nat
  BY <1>2, FS_CardinalityType
<1> QED BY <1>1, <1>3 DEF Weight

LEMMA Exchanged ==
  ASSUME NEW A, NEW B, IsFiniteSet(A), IsFiniteSet(B), NEW c \in A, NEW k,
         NEW C \in SUBSET (A \ {c}), NEW D \in SUBSET (B \cup {k})
  PROVE  Weight(C, D) \in Nat /\ Weight(C, D) <= Weight(A, B)
<1>1. IsFiniteSet(B \cup {k}) /\ Cardinality(B \cup {k}) <= Cardinality(B) + 1
  BY Added
<1>2. Weight(C, D) \in Nat /\ Weight(C, D) <= Weight(A, B \cup {k}) - 1
  BY <1>1, OneLess
<1>3. {Cardinality(A), Cardinality(B), Cardinality(B \cup {k})} \subseteq Nat
  BY <1>1, FS_CardinalityType
<1> QED BY <1>1, <1>2, <1>3 DEF Weight

LEMMA KeysMore ==
  ASSUME NEW A, NEW B, IsFiniteSet(A), IsFiniteSet(B), NEW ks, IsFiniteSet(ks),
         NEW C \in SUBSET A, NEW D \in SUBSET (B \cup ks)
  PROVE  Weight(C, D) \in Nat /\ Weight(C, D) <= Weight(A, B) + Cardinality(ks)
<1>1. IsFiniteSet(B \cap ks)
  BY FS_Subset
<1>2. /\ IsFiniteSet(B \cup ks)
      /\ Cardinality(B \cup ks) = Cardinality(B) + Cardinality(ks) - Cardinality(B \cap ks)
  BY FS_Union
<1>3. Weight(C, D) \in Nat /\ Weight(C, D) <= Weight(A, B \cup ks)
  BY <1>2, NoHeavier
<1>4. {Cardinality(A), Cardinality(B), Cardinality(ks), Cardinality(B \cap ks), Cardinality(B \cup ks)} \subseteq Nat
  BY <1>1, <1>2, FS_CardinalityType
<1> QED BY <1>2, <1>3, <1>4 DEF Weight

LEMMA LeastNatural ==
  ASSUME NEW S \in SUBSET Nat, S # {}
  PROVE  \E n \in S : \A m \in S : n <= m
<1>1. PICK n \in S : \A m \in S : <<m, n>> \notin OpToRel(<, Nat)
  BY NatLessThanWellFounded, WFMin
<1>2. \A m \in S : ~(m < n)
  BY <1>1 DEF OpToRel
<1> QED BY <1>2

-----------------------------------------------------------------------------
(* Steps. *)

\* Client c goes on to the command, with these keys.
Goes(c, command, ks) == client' = [client EXCEPT ![c] = [next |-> command, keys |-> ks]]

LEMMA Going ==
  ASSUME Types, NEW c \in Clients, NEW command \in Commands, NEW ks \in SUBSET Keys, Goes(c, command, ks)
  PROVE  /\ client' \in [Clients -> [next : Commands, keys : SUBSET Keys]]
         /\ client'[c].next = command /\ client'[c].keys = ks
         /\ \A d \in Clients : d # c => client'[d] = client[d]
BY DEF Types, Goes

LEMMA Only ==
  ASSUME Types, NEW c \in Clients, NEW k, client[c].keys = {k}
  PROVE  KeyOf(c) = k
BY DEF KeyOf

\* What a call begins with.
LEMMA CalledStep ==
  ASSUME Types, NEW c \in Clients, NEW command, NEW ks, Called(c, command, ks)
  PROVE  /\ client[c].next = "call" /\ Goes(c, command, ks) /\ clock' = clock + 1
         /\ disturbed' = IF AtRest THEN disturbed ELSE disturbed + 1
BY DEF Called, At, Goes

LEMMA KeyStep ==
  ASSUME Types, NEW c \in Clients, client[c].next \in {"touch", "run", "store", "evict"}
  PROVE  \E k \in Keys : client[c].keys = {k} /\ KeyOf(c) = k
BY Only DEF Types

LEMMA ThenStep ==
  ASSUME Types, NEW c \in Clients, NEW command, Then(c, command)
  PROVE  Goes(c, command, client[c].keys)
<1>1. client[c] = [next |-> client[c].next, keys |-> client[c].keys] /\ DOMAIN client = Clients
  BY DEF Types
<1>2. [client[c] EXCEPT !.next = command] = [next |-> command, keys |-> client[c].keys]
  BY <1>1
<1> QED BY <1>1, <1>2 DEF Then, Goes

LEMMA DoneStep ==
  ASSUME NEW c, Done(c)
  PROVE  Goes(c, "call", {})
BY DEF Done, Goes, Idle

\* The index with a key more.
LEMMA AddedKey ==
  ASSUME Types, NEW k \in Keys, index' = AddedTo(index, k, clock)
  PROVE  /\ DOMAIN index' = DOMAIN index \cup {k} /\ IsFiniteSet(DOMAIN index')
         /\ index' \in [DOMAIN index' -> Nat]
         /\ index'[k] = clock /\ \A x \in DOMAIN index : x # k => index'[x] = index[x]
<1>1. DOMAIN index' = DOMAIN index \cup {k} /\ IsFiniteSet(DOMAIN index')
  BY Added DEF Types, AddedTo
<1>2. index'[k] = clock /\ \A x \in DOMAIN index : x # k => index'[x] = index[x]
  BY DEF AddedTo
<1>3. index' \in [DOMAIN index' -> Nat]
  BY <1>1 DEF Types, AddedTo
<1> QED BY <1>1, <1>2, <1>3

LEMMA DroppedKeys ==
  ASSUME Types, NEW ks, index' = DroppedFrom(index, ks)
  PROVE  /\ DOMAIN index' = DOMAIN index \ ks /\ IsFiniteSet(DOMAIN index')
         /\ index' \in [DOMAIN index' -> Nat]
         /\ \A x \in DOMAIN index' : index'[x] = index[x]
<1>1. DOMAIN index' = DOMAIN index \ ks /\ \A x \in DOMAIN index' : index'[x] = index[x]
  BY DEF DroppedFrom, Restrict
<1>2. IsFiniteSet(DOMAIN index')
  BY <1>1, FS_Subset DEF Types
<1>3. index' \in [DOMAIN index' -> Nat]
  BY <1>1 DEF DroppedFrom, Restrict, Types
<1> QED BY <1>1, <1>2, <1>3

\* zrange answers the key with the least time.
LEMMA OldestIsOldest ==
  ASSUME Types, index # <<>>
  PROVE  Oldest \in DOMAIN index /\ \A x \in DOMAIN index : index[Oldest] <= index[x]
<1>1. DOMAIN index # {}
  <2> SUFFICES ASSUME DOMAIN index = {} PROVE FALSE
    OBVIOUS
  <2>1. index = [x \in {} |-> index[x]] /\ <<>> = [x \in {} |-> index[x]]
    BY DEF Types
  <2> QED BY <2>1
<1> DEFINE times == {index[x] : x \in DOMAIN index}
<1>2. times \in SUBSET Nat /\ times # {}
  BY <1>1 DEF Types
<1>3. PICK n \in times : \A m \in times : n <= m
  BY <1>2, LeastNatural
<1>4. \E k \in DOMAIN index : \A x \in DOMAIN index : index[k] <= index[x]
  BY <1>3
<1> QED BY <1>4 DEF Oldest

LEMMA TouchEffect ==
  ASSUME Types, NEW c \in Clients, Touch(c)
  PROVE  \E k \in Keys : /\ client[c].next = "touch" /\ client[c].keys = {k} /\ Goes(c, "call", {})
                         /\ index' = AddedTo(index, k, clock) /\ used' = AddedTo(used, k, clock)
                         /\ UNCHANGED <<stored, clock, disturbed>>
BY KeyStep, DoneStep DEF Touch, At, callVars

LEMMA IndexEffect ==
  ASSUME Types, NEW c \in Clients, Index(c)
  PROVE  \E k \in Keys : /\ client[c].next = "run" /\ client[c].keys = {k} /\ Goes(c, "store", {k})
                         /\ index' = AddedTo(index, k, clock) /\ used' = AddedTo(used, k, clock)
                         /\ UNCHANGED <<stored, clock, disturbed>>
BY KeyStep, ThenStep DEF Index, At, callVars

LEMMA StoreEffect ==
  ASSUME Types, NEW c \in Clients, Store(c)
  PROVE  \E k \in Keys : /\ client[c].next = "store" /\ client[c].keys = {k} /\ Goes(c, "count", {k})
                         /\ stored' = stored \cup {k} /\ UNCHANGED <<index, clock, used, disturbed>>
<1>1. client[c].next = "store" /\ Goes(c, "count", client[c].keys) /\ stored' = stored \cup client[c].keys
      /\ UNCHANGED <<index, clock, used, disturbed>>
  BY ThenStep DEF Store, At, callVars
<1>2. PICK k \in Keys : client[c].keys = {k}
  BY <1>1, KeyStep
<1> QED BY <1>1, <1>2

LEMMA CountEffect ==
  ASSUME Types, NEW c \in Clients, Count(c)
  PROVE  /\ client[c].next = "count" /\ UNCHANGED <<index, stored, clock, used, disturbed>>
         /\ \/ Goes(c, "choose", client[c].keys)
            \/ Cardinality(DOMAIN index) <= MaxCacheSize /\ Goes(c, "call", {})
<1>1. Cardinality(DOMAIN index) \in Nat /\ MaxCacheSize \in Nat
  BY FS_CardinalityType DEF Reasonable, Types
<1> QED BY <1>1, ThenStep, DoneStep DEF Count, At, callVars, Full

LEMMA ChooseEffect ==
  ASSUME Types, NEW c \in Clients, Choose(c)
  PROVE  /\ client[c].next = "choose" /\ UNCHANGED <<index, stored, clock, used, disturbed>>
         /\ \/ Cardinality(DOMAIN index) <= MaxCacheSize /\ Goes(c, "call", {})
            \/ \E k \in DOMAIN index : Goes(c, "evict", {k}) /\ \A x \in DOMAIN index : index[k] <= index[x]
<1>1. CASE index = <<>>
  <2>1. DOMAIN index = {}
    BY <1>1
  <2>2. Cardinality(DOMAIN index) <= MaxCacheSize
    BY <2>1, FS_EmptySet DEF Reasonable, Types
  <2> QED BY <1>1, <2>2, DoneStep DEF Choose, At, callVars
<1>2. CASE index # <<>>
  BY <1>2, OldestIsOldest DEF Choose, At, callVars, Goes
<1> QED BY <1>1, <1>2

LEMMA FailEffect ==
  ASSUME Types, NEW c \in Clients, Fail(c)
  PROVE  client[c].next = "run" /\ Goes(c, "call", {}) /\ UNCHANGED <<index, stored, clock, used, disturbed>>
BY DoneStep DEF Fail, At, callVars

LEMMA BreakOffEffect ==
  ASSUME Types, NEW c \in Clients, BreakOff(c)
  PROVE  /\ client[c].next # "call" /\ Goes(c, "call", {}) /\ UNCHANGED <<index, stored, clock, used>>
         /\ IsFiniteSet(client[c].keys) /\ Cardinality(client[c].keys) \in Nat
         /\ disturbed' \in Nat /\ disturbed' >= disturbed + 1 /\ disturbed' >= disturbed + Cardinality(client[c].keys)
<1> DEFINE n == Cardinality(client[c].keys)
<1>1. IsFiniteSet(client[c].keys) /\ n \in Nat /\ disturbed \in Nat
  <2>1. client[c].keys \subseteq Keys
    BY DEF Types
  <2> QED BY <2>1, FS_Subset, FS_CardinalityType DEF Types, Reasonable
<1>2. Max({1, n}) \in {1, n} /\ Max({1, n}) >= 1 /\ Max({1, n}) >= n
  <2>1. \E x \in {1, n} : \A y \in {1, n} : x >= y
    BY <1>1
  <2> HIDE DEF n
  <2> QED BY <2>1 DEF Max
<1>3. disturbed' = disturbed + Max({1, n})
  BY DEF BreakOff
<1>4. disturbed' \in Nat /\ disturbed' >= disturbed + 1 /\ disturbed' >= disturbed + n
  <2> HIDE DEF n
  <2> QED BY <1>1, <1>2, <1>3
<1> QED BY <1>1, <1>4, DoneStep DEF BreakOff, At

LEMMA EvictEffect ==
  ASSUME Types, NEW c \in Clients, Evict(c)
  PROVE  \E k \in Keys : /\ client[c].next = "evict" /\ client[c].keys = {k} /\ Goes(c, "delete", {k})
                         /\ index' = DroppedFrom(index, {k}) /\ UNCHANGED <<stored, clock, used, disturbed>>
<1>1. client[c].next = "evict" /\ Goes(c, "delete", client[c].keys) /\ index' = DroppedFrom(index, client[c].keys)
      /\ UNCHANGED <<stored, clock, used, disturbed>>
  BY ThenStep DEF Evict, At, callVars
<1>2. PICK k \in Keys : client[c].keys = {k}
  BY <1>1, KeyStep
<1> QED BY <1>1, <1>2

LEMMA DeleteEffect ==
  ASSUME Types, NEW c \in Clients, Delete(c)
  PROVE  /\ client[c].next = "delete" /\ Goes(c, "call", {}) /\ stored' = stored \ client[c].keys
         /\ UNCHANGED <<index, clock, used, disturbed>>
BY DoneStep DEF Delete, At, callVars

LEMMA WipeEffect ==
  ASSUME Types, NEW c \in Clients, Wipe(c)
  PROVE  /\ client[c].next = "wipe" /\ Goes(c, "delete", client[c].keys) /\ DOMAIN index' = {}
         /\ index' = <<>> /\ UNCHANGED <<stored, clock, used, disturbed>>
BY ThenStep DEF Wipe, At, callVars

LEMMA NextTypes == Types /\ [Next]_vars => Types'
<1> SUFFICES ASSUME Types, [Next]_vars PROVE Types'
  OBVIOUS
<1>1. ASSUME NEW c \in Clients, NEW command \in Commands, NEW ks \in SUBSET Keys, Goes(c, command, ks),
             command \in {"touch", "run", "store", "evict"} => \E k \in Keys : ks = {k},
             IsFiniteSet(DOMAIN index') /\ DOMAIN index' \subseteq Keys, index' \in [DOMAIN index' -> Nat],
             IsFiniteSet(stored') /\ stored' \subseteq Keys, clock' \in Nat, disturbed' \in Nat
      PROVE  Types'
  <2>1. /\ client' \in [Clients -> [next : Commands, keys : SUBSET Keys]]
        /\ client'[c].next = command /\ client'[c].keys = ks
        /\ \A d \in Clients : d # c => client'[d] = client[d]
    BY <1>1, Going
  <2> QED BY ONLY Types, <1>1, <2>1 DEF Types
<1>2. /\ IsFiniteSet(DOMAIN index) /\ DOMAIN index \subseteq Keys /\ index \in [DOMAIN index -> Nat]
      /\ IsFiniteSet(stored) /\ stored \subseteq Keys /\ clock \in Nat /\ disturbed \in Nat
      /\ \A c \in Clients : client[c].keys \subseteq Keys
  BY DEF Types
<1>3. Commands \subseteq Commands /\ {"touch", "run", "store", "evict", "wipe", "call", "count", "choose", "delete"} = Commands
  BY DEF Commands
<1>4. ASSUME NEW c \in Clients, NEW command, NEW ks, Called(c, command, ks)
      PROVE  Goes(c, command, ks) /\ clock' \in Nat /\ disturbed' \in Nat
  BY <1>2, <1>4, CalledStep
<1>5. ASSUME NEW c \in Clients, Calls(c) PROVE Types'
  <2>1. CASE Touch(c)
    <3>1. PICK k \in Keys : Goes(c, "call", {}) /\ index' = AddedTo(index, k, clock) /\ used' = AddedTo(used, k, clock)
                         /\ UNCHANGED <<stored, clock, disturbed>>
      BY <2>1, TouchEffect
    <3>2. IsFiniteSet(DOMAIN index') /\ DOMAIN index' \subseteq Keys /\ index' \in [DOMAIN index' -> Nat]
      BY <1>2, <3>1, AddedKey
    <3> QED BY ONLY <1>1, <1>2, <1>3, <3>1, <3>2, c \in Clients
  <2>2. CASE Index(c)
    <3>1. PICK k \in Keys : Goes(c, "store", {k}) /\ index' = AddedTo(index, k, clock) /\ used' = AddedTo(used, k, clock)
                         /\ UNCHANGED <<stored, clock, disturbed>>
      BY <2>2, IndexEffect
    <3>2. IsFiniteSet(DOMAIN index') /\ DOMAIN index' \subseteq Keys /\ index' \in [DOMAIN index' -> Nat]
      BY <1>2, <3>1, AddedKey
    <3> QED BY ONLY <1>1, <1>2, <1>3, <3>1, <3>2, c \in Clients
  <2>3. CASE Store(c)
    <3>1. PICK k \in Keys : Goes(c, "count", {k}) /\ stored' = stored \cup {k} /\ UNCHANGED <<index, clock, used, disturbed>>
      BY <2>3, StoreEffect
    <3>2. IsFiniteSet(stored')
      BY <1>2, <3>1, Added
    <3> QED BY <1>1, <1>2, <1>3, <3>1, <3>2
  <2>4. CASE Count(c)
    <3>1. PICK command \in {"choose", "call"}, ks \in {client[c].keys, {}} : Goes(c, command, ks)
      BY <2>4, CountEffect
    <3> QED BY <1>1, <1>2, <1>3, <2>4, <3>1, CountEffect
  <2>5. CASE Choose(c)
    <3>1. CASE Goes(c, "call", {})
      BY <1>1, <1>2, <1>3, <2>5, <3>1, ChooseEffect
    <3>2. CASE \E k \in DOMAIN index : Goes(c, "evict", {k})
      BY <1>1, <1>2, <1>3, <2>5, <3>2, ChooseEffect
    <3> QED BY <2>5, <3>1, <3>2, ChooseEffect
  <2>6. CASE Evict(c)
    <3>1. PICK k \in Keys : Goes(c, "delete", {k}) /\ index' = DroppedFrom(index, {k}) /\ UNCHANGED <<stored, clock, used, disturbed>>
      BY <2>6, EvictEffect
    <3>2. IsFiniteSet(DOMAIN index') /\ DOMAIN index' \subseteq Keys /\ index' \in [DOMAIN index' -> Nat]
      BY <1>2, <3>1, DroppedKeys
    <3>3. IsFiniteSet(stored') /\ stored' \subseteq Keys /\ clock' \in Nat /\ disturbed' \in Nat
      BY <1>2, <3>1
    <3>4. "delete" \in Commands /\ {k} \in SUBSET Keys /\ "delete" \notin {"touch", "run", "store", "evict"}
      BY <1>3
    <3> QED BY ONLY <1>1, <3>1, <3>2, <3>3, <3>4, c \in Clients
  <2>7. CASE Delete(c)
    <3>1. Goes(c, "call", {}) /\ stored' = stored \ client[c].keys /\ UNCHANGED <<index, clock, used, disturbed>>
      BY <2>7, DeleteEffect
    <3>2. IsFiniteSet(stored')
      BY <1>2, <3>1, FS_Subset
    <3> QED BY <1>1, <1>2, <1>3, <3>1, <3>2
  <2>8. CASE Wipe(c)
    <3>1. Goes(c, "delete", client[c].keys) /\ index' = <<>> /\ DOMAIN index' = {} /\ UNCHANGED <<stored, clock, used, disturbed>>
      BY <2>8, WipeEffect
    <3>2. IsFiniteSet(DOMAIN index') /\ index' \in [DOMAIN index' -> Nat]
      BY <3>1, FS_EmptySet
    <3> QED BY <1>1, <1>2, <1>3, <3>1, <3>2
  <2>9. CASE Clear(c)
    <3>1. Goes(c, "wipe", DOMAIN index) /\ clock' \in Nat /\ disturbed' \in Nat /\ UNCHANGED <<index, stored>>
      BY <1>4, <2>9 DEF Clear
    <3> QED BY <1>1, <1>2, <1>3, <3>1
  <2>10. ASSUME NEW k \in Keys, Get(c, k) PROVE Types'
    <3>1. PICK command \in {"touch", "run"} : Goes(c, command, {k}) /\ clock' \in Nat /\ disturbed' \in Nat /\ UNCHANGED <<index, stored>>
      BY <1>4, <2>10 DEF Get
    <3> QED BY <1>1, <1>2, <1>3, <3>1
  <2>11. ASSUME NEW k \in Keys, Remove(c, k) PROVE Types'
    <3>1. Goes(c, "evict", {k}) /\ clock' \in Nat /\ disturbed' \in Nat /\ UNCHANGED <<index, stored>>
      BY <1>4, <2>11 DEF Remove
    <3> QED BY <1>1, <1>2, <1>3, <3>1
  <2>12. CASE Fail(c)
    BY <1>1, <1>2, <1>3, <2>12, FailEffect
  <2>13. CASE BreakOff(c)
    BY <1>1, <1>2, <1>3, <2>13, BreakOffEffect
  <2> QED BY <1>5, <2>1, <2>2, <2>3, <2>4, <2>5, <2>6, <2>7, <2>8, <2>9, <2>10, <2>11, <2>12, <2>13 DEF Calls
<1>6. ASSUME NEW k \in Keys, Expire(k) PROVE Types'
  <2>1. stored' \subseteq stored /\ UNCHANGED <<index, client, clock, disturbed>>
    BY <1>6 DEF Expire, callVars
  <2>2. IsFiniteSet(stored')
    BY <1>2, <2>1, FS_Subset
  <2> QED BY <2>1, <2>2 DEF Types
<1>7. CASE UNCHANGED vars
  BY <1>7 DEF vars, Types
<1> QED BY <1>5, <1>6, <1>7 DEF Next

-----------------------------------------------------------------------------
(* Orphans. *)

LEMMA KeysAbout == \A command, k : k \in KeysIn({command}) <=> About(command, k)
BY DEF KeysIn, In, About

LEMMA KeysAboutNext == \A command, k : k \in KeysIn({command})' <=> About(command, k)'
BY DEF KeysIn, In, About

LEMMA StrayKey ==
  \A k : k \in Stray <=> /\ k \in stored /\ ~About("delete", k) /\ ~About("store", k)
                         /\ k \in DOMAIN index => NotAbout("wipe", k)
BY KeysAbout DEF Stray, Orphans, Unlisted, Doomed

LEMMA StrayKeyNext ==
  \A k : k \in Stray' <=> /\ k \in stored' /\ ~About("delete", k)' /\ ~About("store", k)'
                          /\ k \in DOMAIN index' => NotAbout("wipe", k)'
BY KeysAboutNext DEF Stray, Orphans, Unlisted, Doomed

LEMMA Weighed ==
  ASSUME Types
  PROVE  IsFiniteSet(Writers) /\ IsFiniteSet(Stray)
<1>1. Writers \subseteq Clients /\ Stray \subseteq stored
  BY DEF Writers, In, Stray, Orphans, Unlisted
<1> QED BY <1>1, FS_Subset DEF Reasonable, Types


\* The same of the others than c.
AboutOther(c, command, k) == \E d \in Clients \ {c} : client[d].next = command /\ k \in client[d].keys
NotAboutOther(c, command, k) == \E d \in Clients \ {c} : client[d].next = command /\ k \notin client[d].keys

LEMMA AboutSplit ==
  ASSUME NEW c \in Clients
  PROVE  \A x, k : /\ About(x, k) <=> (client[c].next = x /\ k \in client[c].keys) \/ AboutOther(c, x, k)
                   /\ NotAbout(x, k) <=> (client[c].next = x /\ k \notin client[c].keys) \/ NotAboutOther(c, x, k)
BY DEF About, AboutOther, NotAbout, NotAboutOther

LEMMA AboutSplitNext ==
  ASSUME Types, NEW c \in Clients, NEW command \in Commands, NEW ks \in SUBSET Keys, Goes(c, command, ks)
  PROVE  \A x, k : /\ About(x, k)' <=> (command = x /\ k \in ks) \/ AboutOther(c, x, k)
                   /\ NotAbout(x, k)' <=> (command = x /\ k \notin ks) \/ NotAboutOther(c, x, k)
<1>1. client'[c].next = command /\ client'[c].keys = ks /\ \A d \in Clients : d # c => client'[d] = client[d]
  BY Going
<1> QED BY <1>1 DEF About, AboutOther, NotAbout, NotAboutOther

LEMMA InNext ==
  ASSUME Types, NEW c \in Clients, NEW command \in Commands, NEW ks \in SUBSET Keys, Goes(c, command, ks), NEW S
  PROVE  In(S)' = IF command \in S THEN In(S) \cup {c} ELSE In(S) \ {c}
<1>1. client'[c].next = command /\ \A d \in Clients : d # c => client'[d] = client[d]
  BY Going
<1> QED BY <1>1 DEF In

\* A client that removes keys goes on.
LEMMA RemoverOrphan ==
  ASSUME Types, Types', OrphanInv, NEW c \in Clients, client[c].next \in Removing,
         NEW command \in Commands, NEW ks \in SUBSET Keys, Goes(c, command, ks),
         command \notin {"touch", "run", "store"}, Stray' \subseteq Stray, disturbed' = disturbed
  PROVE  OrphanInv'
<1>1. Quiet
  BY DEF Quiet
<1>2. Writers' \subseteq Writers
  BY InNext DEF Writers
<1>3. Weight(Writers', Stray') \in Nat /\ Weight(Writers', Stray') <= Weight(Writers, Stray)
  BY <1>2, Weighed, NoHeavier
<1>4. disturbed \in Nat /\ Weight(Writers, Stray) \in Nat /\ Weight(Writers, Stray) <= disturbed
  BY <1>1, Weighed, WeightNat DEF Types, OrphanInv
<1>5. Weight(Writers, Stray)' = Weight(Writers', Stray')
  BY DEF Weight
<1> QED BY <1>3, <1>4, <1>5 DEF OrphanInv

LEMMA WriterOrphan ==
  ASSUME Types, Types', OrphanInv, NEW c \in Clients, client[c].next \in {"touch", "run", "store"},
         NEW command \in Commands, NEW ks \in SUBSET Keys, Goes(c, command, ks),
         command \notin {"touch", "run", "store"}, disturbed' = disturbed, NEW k,
         Stray' \subseteq Stray \/ (Quiet /\ Stray' \subseteq Stray \cup {k})
  PROVE  OrphanInv'
<1>1. Writers' \subseteq Writers \ {c} /\ c \in Writers
  <2>1. Writers' \subseteq Writers \ {c}
    BY InNext DEF Writers
  <2> QED BY <2>1 DEF Writers, In
<1>2. IsFiniteSet(Writers) /\ IsFiniteSet(Stray) /\ Weight(Writers, Stray) \in Nat /\ disturbed \in Nat
  BY Weighed, WeightNat DEF Types
<1>3. CASE Stray' \subseteq Stray
  <2>1. Weight(Writers', Stray') \in Nat /\ Weight(Writers', Stray') <= Weight(Writers, Stray) - 1
    BY <1>1, <1>2, <1>3, OneLess
  <2> QED BY <1>2, <2>1 DEF OrphanInv, Weight
<1>4. CASE Quiet /\ Stray' \subseteq Stray \cup {k}
  <2>1. Weight(Writers', Stray') \in Nat /\ Weight(Writers', Stray') <= Weight(Writers, Stray)
    BY <1>1, <1>2, <1>4, Exchanged
  <2> QED BY <1>2, <1>4, <2>1 DEF OrphanInv, Weight
<1> QED BY <1>3, <1>4

\* A call begins.
LEMMA CalledOrphan ==
  ASSUME Types, Types', OrphanInv, NEW c \in Clients, NEW command \in {"touch", "run", "evict", "wipe"},
         NEW ks \in SUBSET Keys, Called(c, command, ks), UNCHANGED <<index, stored>>,
         command = "wipe" => DOMAIN index \subseteq ks
  PROVE  OrphanInv'
<1>1. /\ client[c].next = "call" /\ Goes(c, command, ks) /\ command \in Commands
      /\ disturbed' = IF AtRest THEN disturbed ELSE disturbed + 1
  BY CalledStep DEF Commands
<1>2. \A x, k : /\ About(x, k) <=> (client[c].next = x /\ k \in client[c].keys) \/ AboutOther(c, x, k)
                /\ NotAbout(x, k) <=> (client[c].next = x /\ k \notin client[c].keys) \/ NotAboutOther(c, x, k)
  BY AboutSplit
<1>3. \A x, k : /\ About(x, k)' <=> (command = x /\ k \in ks) \/ AboutOther(c, x, k)
                /\ NotAbout(x, k)' <=> (command = x /\ k \notin ks) \/ NotAboutOther(c, x, k)
  BY <1>1, AboutSplitNext
<1>4. /\ \A k : (About("delete", k)' <=> About("delete", k)) /\ (About("store", k)' <=> About("store", k))
      /\ \A k \in DOMAIN index : NotAbout("wipe", k)' => NotAbout("wipe", k)
  BY <1>1, <1>2, <1>3
<1>5. Stray' \subseteq Stray
  BY <1>4, StrayKey, StrayKeyNext
<1>6. IsFiniteSet(Writers) /\ IsFiniteSet(Stray) /\ Weight(Writers, Stray) \in Nat /\ disturbed \in Nat
  BY Weighed, WeightNat DEF Types
<1>7. Writers' \subseteq Writers \cup {c} /\ (command \in {"evict", "wipe"} => Writers' \subseteq Writers)
  BY <1>1, InNext DEF Writers
<1>8. Weight(Writers', Stray') \in Nat /\ Weight(Writers', Stray') <= Weight(Writers, Stray) + 1
  BY <1>5, <1>6, <1>7, OneMore
<1>9. command \in {"evict", "wipe"} => Weight(Writers', Stray') <= Weight(Writers, Stray)
  BY <1>5, <1>6, <1>7, NoHeavier
<1>10. \A d \in Clients : d # c => client'[d] = client[d]
  BY <1>1, Going
<1>11. client'[c].next = command
  BY <1>1, Going
<1>12. Weight(Writers, Stray)' = Weight(Writers', Stray')
  BY DEF Weight
<1>13. CASE AtRest
  <2>1. Quiet /\ disturbed' = disturbed
    BY <1>1, <1>13 DEF Quiet, AtRest, At
  <2>2. CASE command \in {"touch", "run"}
    <3>1. ~Quiet'
      BY <1>10, <1>11, <1>13, <2>2 DEF Quiet, AtRest, At, Loses, Removing
    <3> QED BY <1>6, <1>8, <1>12, <2>1, <3>1 DEF OrphanInv
  <2> QED BY <1>6, <1>8, <1>9, <1>12, <2>1, <2>2 DEF OrphanInv
<1>14. CASE ~AtRest
  <2>1. disturbed' = disturbed + 1
    BY <1>1, <1>14
  <2>2. CASE command \in {"touch", "run"}
    <3>1. Quiet' => Quiet
      BY <1>1, <1>4, <1>10, <1>11, <2>2 DEF Quiet, Loses, Removing
    <3> QED BY <1>6, <1>8, <1>12, <2>1, <3>1 DEF OrphanInv
  <2> QED BY <1>6, <1>8, <1>9, <1>12, <2>1, <2>2 DEF OrphanInv
<1> QED BY <1>13, <1>14

\* A call breaks off.
LEMMA BreakOffOrphan ==
  ASSUME Types, Types', OrphanInv, NEW c \in Clients, BreakOff(c)
  PROVE  OrphanInv'
<1> DEFINE ks == client[c].keys
<1>1. /\ client[c].next # "call" /\ Goes(c, "call", {}) /\ UNCHANGED <<index, stored, clock, used>>
      /\ IsFiniteSet(ks) /\ Cardinality(ks) \in Nat
      /\ disturbed' \in Nat /\ disturbed' >= disturbed + 1 /\ disturbed' >= disturbed + Cardinality(ks)
  BY BreakOffEffect
<1>2. "call" \in Commands /\ {} \in SUBSET Keys
  BY DEF Commands
<1>3. \A x, k : /\ About(x, k) <=> (client[c].next = x /\ k \in ks) \/ AboutOther(c, x, k)
                /\ NotAbout(x, k) <=> (client[c].next = x /\ k \notin ks) \/ NotAboutOther(c, x, k)
  BY AboutSplit
<1>4. \A x, k : /\ About(x, k)' <=> ("call" = x /\ k \in {}) \/ AboutOther(c, x, k)
                /\ NotAbout(x, k)' <=> ("call" = x /\ k \notin {}) \/ NotAboutOther(c, x, k)
  BY <1>1, <1>2, AboutSplitNext
<1>5. Writers' = Writers \ {c}
  BY <1>1, <1>2, InNext DEF Writers
<1>6. IsFiniteSet(Writers) /\ IsFiniteSet(Stray) /\ Weight(Writers, Stray) \in Nat /\ disturbed \in Nat
  BY Weighed, WeightNat DEF Types
<1>7. Weight(Writers, Stray)' = Weight(Writers', Stray')
  BY DEF Weight
<1>8. CASE client[c].next \notin {"store", "delete"}
  <2>1. Stray' \subseteq Stray
    BY <1>1, <1>3, <1>4, <1>8, StrayKey, StrayKeyNext
  <2>2. Weight(Writers', Stray') \in Nat /\ Weight(Writers', Stray') <= Weight(Writers, Stray)
    BY <1>5, <1>6, <2>1, NoHeavier
  <2> QED BY <1>1, <1>6, <1>7, <2>2 DEF OrphanInv
<1>9. CASE client[c].next = "store"
  <2>1. PICK k \in Keys : ks = {k}
    BY <1>9, KeyStep
  <2>2. Stray' \subseteq Stray \cup {k}
    BY <1>1, <1>3, <1>4, <1>9, <2>1, StrayKey, StrayKeyNext
  <2>3. c \in Writers
    BY <1>9 DEF Writers, In
  <2>4. Weight(Writers', Stray') \in Nat /\ Weight(Writers', Stray') <= Weight(Writers, Stray)
    BY <1>5, <1>6, <2>2, <2>3, Exchanged
  <2> QED BY <1>1, <1>6, <1>7, <2>4 DEF OrphanInv
<1>10. CASE client[c].next = "delete"
  <2>1. Stray' \subseteq Stray \cup ks
    BY <1>1, <1>3, <1>4, <1>10, StrayKey, StrayKeyNext
  <2>2. Weight(Writers', Stray') \in Nat /\ Weight(Writers', Stray') <= Weight(Writers, Stray) + Cardinality(ks)
    BY <1>1, <1>5, <1>6, <2>1, KeysMore
  <2>3. Quiet
    BY <1>10 DEF Quiet, Removing
  <2> QED BY <1>1, <1>6, <1>7, <2>2, <2>3 DEF OrphanInv
<1> QED BY <1>8, <1>9, <1>10

LEMMA CallsOrphan ==
  ASSUME Types, Types', OrphanInv, NEW c \in Clients, Calls(c)
  PROVE  OrphanInv'
<1>1. \A x, k : /\ About(x, k) <=> (client[c].next = x /\ k \in client[c].keys) \/ AboutOther(c, x, k)
                /\ NotAbout(x, k) <=> (client[c].next = x /\ k \notin client[c].keys) \/ NotAboutOther(c, x, k)
  BY AboutSplit
<1>2. Commands = Commands \cup Removing \cup {"call", "touch", "run", "store"} /\ client[c].keys \in SUBSET Keys
      /\ {} \in SUBSET Keys
  BY DEF Commands, Removing, Types
<1>3. ASSUME NEW command \in Commands, NEW ks \in SUBSET Keys, Goes(c, command, ks)
      PROVE  \A x, k : /\ About(x, k)' <=> (command = x /\ k \in ks) \/ AboutOther(c, x, k)
                       /\ NotAbout(x, k)' <=> (command = x /\ k \notin ks) \/ NotAboutOther(c, x, k)
  BY <1>3, AboutSplitNext
<1>4. CASE Touch(c)
  <2>1. PICK k \in Keys : /\ client[c].next = "touch" /\ client[c].keys = {k} /\ Goes(c, "call", {})
                          /\ index' = AddedTo(index, k, clock) /\ used' = AddedTo(used, k, clock)
                         /\ UNCHANGED <<stored, clock, disturbed>>
    BY <1>4, TouchEffect
  <2>2. DOMAIN index' = DOMAIN index \cup {k}
    BY <2>1, AddedKey
  <2>3. "call" \in Commands
    BY <1>2
  <2>4. Stray' \subseteq Stray
    BY <1>1, <1>2, <1>3, <2>1, <2>2, <2>3, StrayKey, StrayKeyNext
  <2> QED BY <1>2, <2>1, <2>3, <2>4, WriterOrphan
<1>5. CASE Index(c)
  <2>1. PICK k \in Keys : /\ client[c].next = "run" /\ client[c].keys = {k} /\ Goes(c, "store", {k})
                          /\ index' = AddedTo(index, k, clock) /\ used' = AddedTo(used, k, clock)
                         /\ UNCHANGED <<stored, clock, disturbed>>
    BY <1>5, IndexEffect
  <2>2. DOMAIN index' = DOMAIN index \cup {k}
    BY <2>1, AddedKey
  <2>3. "store" \in Commands /\ {k} \in SUBSET Keys
    BY <1>2
  <2>4. \A x, j : /\ About(x, j)' <=> ("store" = x /\ j \in {k}) \/ AboutOther(c, x, j)
                  /\ NotAbout(x, j)' <=> ("store" = x /\ j \notin {k}) \/ NotAboutOther(c, x, j)
    BY <1>3, <2>1, <2>3
  <2>5. Stray' \subseteq Stray
    BY <1>1, <2>1, <2>2, <2>4, StrayKey, StrayKeyNext
  <2>6. Writers' = Writers
    <3>1. Writers' = Writers \cup {c}
      BY <2>1, <2>3, InNext DEF Writers
    <3> QED BY <2>1, <3>1 DEF Writers, In
  <2>7. Weight(Writers', Stray') \in Nat /\ Weight(Writers', Stray') <= Weight(Writers, Stray)
    BY <2>5, <2>6, Weighed, NoHeavier
  <2>8. client'[c].next = "store" /\ client'[c].keys = {k} /\ \A d \in Clients : d # c => client'[d] = client[d]
    BY <2>1, <2>3, Going
  <2>9. Quiet' => Quiet
    <3>1. ASSUME NEW d \in Clients, NEW j \in Keys, Loses(d, j)' PROVE Quiet
      <4>1. CASE NotAbout("wipe", j)'
        BY <1>1, <2>1, <2>4, <4>1 DEF Quiet, Removing, NotAboutOther
      <4>2. CASE ~NotAbout("wipe", j)'
        BY <2>1, <2>2, <2>8, <3>1, <4>2 DEF Loses, Quiet
      <4> QED BY <4>1, <4>2
    <3>2. ASSUME NEW d \in Clients, client'[d].next \in Removing PROVE Quiet
      BY <2>8, <3>2 DEF Quiet, Removing
    <3> QED BY <2>8, <3>1, <3>2 DEF Quiet
  <2>10. Weight(Writers, Stray) \in Nat /\ disturbed \in Nat /\ disturbed' = disturbed
         /\ Weight(Writers, Stray)' = Weight(Writers', Stray')
    BY <2>1, Weighed, WeightNat DEF Types, Weight
  <2> QED BY <2>7, <2>9, <2>10 DEF OrphanInv
<1>6. CASE Store(c)
  <2>1. PICK k \in Keys : /\ client[c].next = "store" /\ client[c].keys = {k} /\ Goes(c, "count", {k})
                          /\ stored' = stored \cup {k} /\ UNCHANGED <<index, clock, used, disturbed>>
    BY <1>6, StoreEffect
  <2>2. "count" \in Commands /\ {k} \in SUBSET Keys
    BY <1>2 DEF Removing
  <2>3. \A x, j : /\ About(x, j)' <=> ("count" = x /\ j \in {k}) \/ AboutOther(c, x, j)
                  /\ NotAbout(x, j)' <=> ("count" = x /\ j \notin {k}) \/ NotAboutOther(c, x, j)
    BY <1>3, <2>1, <2>2
  <2>4. Stray' \subseteq Stray \cup {k}
    BY <1>1, <2>1, <2>3, StrayKey, StrayKeyNext
  <2>5. ~Quiet => k \notin Stray'
    BY <1>1, <2>1, <2>3, StrayKeyNext DEF Quiet, Loses
  <2> QED BY <2>1, <2>2, <2>4, <2>5, WriterOrphan
<1>7. CASE Count(c)
  <2>1. PICK command \in {"choose", "call"}, ks \in {client[c].keys, {}} :
          Goes(c, command, ks) /\ client[c].next = "count" /\ UNCHANGED <<index, stored, clock, used, disturbed>>
    BY <1>7, CountEffect
  <2>2. command \in Commands /\ ks \in SUBSET Keys /\ "count" \in Removing
    BY <1>2 DEF Removing
  <2>3. Stray' \subseteq Stray
    BY <1>1, <1>3, <2>1, <2>2, StrayKey, StrayKeyNext
  <2> QED BY <2>1, <2>2, <2>3, RemoverOrphan
<1>8. CASE Choose(c)
  <2>1. PICK command \in {"evict", "call"}, ks \in SUBSET DOMAIN index :
          Goes(c, command, ks) /\ client[c].next = "choose" /\ UNCHANGED <<index, stored, clock, used, disturbed>>
    BY <1>8, ChooseEffect
  <2>2. command \in Commands /\ ks \in SUBSET Keys /\ "choose" \in Removing
    BY <1>2 DEF Removing, Types
  <2>3. Stray' \subseteq Stray
    BY <1>1, <1>3, <2>1, <2>2, StrayKey, StrayKeyNext
  <2> QED BY <2>1, <2>2, <2>3, RemoverOrphan
<1>9. CASE Evict(c)
  <2>1. PICK k \in Keys : /\ client[c].next = "evict" /\ client[c].keys = {k} /\ Goes(c, "delete", {k})
                          /\ index' = DroppedFrom(index, {k}) /\ UNCHANGED <<stored, clock, used, disturbed>>
    BY <1>9, EvictEffect
  <2>2. DOMAIN index' = DOMAIN index \ {k}
    BY <2>1, DroppedKeys
  <2>3. "delete" \in Commands /\ {k} \in SUBSET Keys /\ "evict" \in Removing
    BY <1>2 DEF Removing
  <2>4. Stray' \subseteq Stray
    BY <1>1, <1>3, <2>1, <2>2, <2>3, StrayKey, StrayKeyNext
  <2> QED BY <2>1, <2>3, <2>4, RemoverOrphan
<1>10. CASE Delete(c)
  <2>1. /\ client[c].next = "delete" /\ Goes(c, "call", {}) /\ stored' = stored \ client[c].keys
        /\ UNCHANGED <<index, clock, used, disturbed>>
    BY <1>10, DeleteEffect
  <2>2. "call" \in Commands /\ "delete" \in Removing
    BY <1>2 DEF Removing
  <2>3. Stray' \subseteq Stray
    BY <1>1, <1>2, <1>3, <2>1, <2>2, StrayKey, StrayKeyNext
  <2> QED BY <1>2, <2>1, <2>2, <2>3, RemoverOrphan
<1>11. CASE Wipe(c)
  <2>1. /\ client[c].next = "wipe" /\ Goes(c, "delete", client[c].keys) /\ DOMAIN index' = {}
        /\ UNCHANGED <<stored, clock, used, disturbed>>
    BY <1>11, WipeEffect
  <2>2. "delete" \in Commands /\ "wipe" \in Removing
    BY <1>2 DEF Removing
  <2>3. Stray' \subseteq Stray
    BY <1>1, <1>2, <1>3, <2>1, <2>2, StrayKey, StrayKeyNext
  <2> QED BY <1>2, <2>1, <2>2, <2>3, RemoverOrphan
<1>12. CASE Clear(c)
  BY <1>12, CalledOrphan DEF Clear, Types
<1>13. ASSUME NEW k \in Keys, Get(c, k) \/ Remove(c, k) PROVE OrphanInv'
  <2>1. PICK command \in {"touch", "run", "evict"} : Called(c, command, {k}) /\ UNCHANGED <<index, stored>>
    BY <1>13 DEF Get, Remove
  <2> QED BY <2>1, CalledOrphan
<1>14. CASE Fail(c)
  <2>1. client[c].next = "run" /\ Goes(c, "call", {}) /\ UNCHANGED <<index, stored, clock, used, disturbed>>
    BY <1>14, FailEffect
  <2>2. "call" \in Commands
    BY <1>2
  <2>3. Stray' \subseteq Stray
    BY <1>1, <1>2, <1>3, <2>1, <2>2, StrayKey, StrayKeyNext
  <2> QED BY <1>2, <2>1, <2>2, <2>3, WriterOrphan
<1> QED BY <1>4, <1>5, <1>6, <1>7, <1>8, <1>9, <1>10, <1>11, <1>12, <1>13, <1>14, BreakOffOrphan DEF Calls

LEMMA ExpireOrphan ==
  ASSUME Types, Types', OrphanInv, UNCHANGED <<index, client, clock, disturbed>>, stored' \subseteq stored
  PROVE  OrphanInv'
<1>1. Stray' \subseteq Stray /\ Writers' = Writers /\ (Quiet' <=> Quiet)
  <2>1. \A x, k : (About(x, k)' <=> About(x, k)) /\ (NotAbout(x, k)' <=> NotAbout(x, k))
    BY DEF About, NotAbout
  <2> QED BY <2>1, StrayKey, StrayKeyNext DEF Writers, In, Quiet, Loses
<1>2. Weight(Writers', Stray') \in Nat /\ Weight(Writers', Stray') <= Weight(Writers, Stray)
  BY <1>1, Weighed, NoHeavier
<1>3. Weight(Writers, Stray) \in Nat /\ disturbed \in Nat /\ Weight(Writers, Stray)' = Weight(Writers', Stray')
  BY Weighed, WeightNat DEF Types, Weight
<1> QED BY <1>1, <1>2, <1>3 DEF OrphanInv

-----------------------------------------------------------------------------
(* The size of the index. *)

LEMMA HeldKey ==
  \A k : k \in Held <=> k \in DOMAIN index \/ About("store", k) \/ (k \in stored /\ ~About("delete", k))
BY KeysAbout DEF Held, Unlisted

LEMMA HeldKeyNext ==
  \A k : k \in Held' <=> k \in DOMAIN index' \/ About("store", k)' \/ (k \in stored' /\ ~About("delete", k)')
BY KeysAboutNext DEF Held, Unlisted

\* Clients that store hold a key each.
LEMMA StoringKeys ==
  ASSUME Types
  PROVE  IsFiniteSet(KeysIn({"store"})) /\ Cardinality(KeysIn({"store"})) <= Cardinality(In({"store"}))
<1> DEFINE f == [c \in In({"store"}) |-> KeyOf(c)]
<1>1. \A c \in In({"store"}) : client[c].keys = {KeyOf(c)}
  BY KeyStep DEF In
<1>2. f \in Surjection(In({"store"}), KeysIn({"store"}))
  BY <1>1 DEF Surjection, KeysIn
<1>3. IsFiniteSet(In({"store"}))
  BY FS_Subset DEF Reasonable, Types, In
<1> QED BY <1>2, <1>3, FS_Surjection

LEMMA HeldFinite ==
  ASSUME Types
  PROVE  IsFiniteSet(Adding) /\ IsFiniteSet(Held) /\ Weight(Adding, Held) \in Nat
<1>1. IsFiniteSet(Adding)
  BY FS_Subset DEF Reasonable, Types, Adding, In
<1>2. IsFiniteSet(Unlisted)
  BY FS_Subset DEF Unlisted, Types
<1>3. IsFiniteSet(DOMAIN index \cup KeysIn({"store"}))
  BY StoringKeys, FS_Union DEF Types
<1>4. IsFiniteSet(Held)
  BY <1>2, <1>3, FS_Union DEF Held
<1> QED BY <1>1, <1>4, WeightNat

\* Who finds that the index has room is right about all keys in use.
LEMMA Room ==
  ASSUME Types, OrphanInv, Quiet, Cardinality(DOMAIN index) <= MaxCacheSize
  PROVE  Weight(Adding, Held) <= MaxCacheSize + disturbed
<1> DEFINE storing == In({"store"})
           keys == KeysIn({"store"})
<1>1. Weight(Writers, Stray) <= disturbed
  BY DEF OrphanInv
<1>2. /\ IsFiniteSet(Writers) /\ IsFiniteSet(Stray) /\ IsFiniteSet(Adding) /\ IsFiniteSet(Held)
      /\ IsFiniteSet(keys) /\ IsFiniteSet(storing) /\ IsFiniteSet(DOMAIN index)
  BY Weighed, HeldFinite, StoringKeys, FS_Subset DEF Reasonable, Types, In
<1>3. Cardinality(Writers) = Cardinality(Adding) + Cardinality(storing)
  <2>1. Writers = Adding \cup storing /\ Adding \cap storing = {}
    BY DEF Writers, Adding, In
  <2>2. Cardinality(Adding \cap storing) = 0
    BY <2>1, FS_EmptySet
  <2>3. Cardinality(Adding) \in Nat /\ Cardinality(storing) \in Nat
    BY <1>2, FS_CardinalityType
  <2>4. Cardinality(Writers) = Cardinality(Adding) + Cardinality(storing) - Cardinality(Adding \cap storing)
    BY <1>2, <2>1, FS_Union
  <2> QED BY <2>2, <2>3, <2>4
<1>4. Held \subseteq DOMAIN index \cup (keys \cup Stray)
  BY HeldKey, StrayKey, KeysAbout
<1>5. IsFiniteSet(keys \cup Stray) /\ Cardinality(keys \cup Stray) <= Cardinality(keys) + Cardinality(Stray)
  <2>1. IsFiniteSet(keys \cap Stray)
    BY <1>2, FS_Subset
  <2>2. {Cardinality(keys), Cardinality(Stray), Cardinality(keys \cap Stray)} \subseteq Nat
    BY <1>2, <2>1, FS_CardinalityType
  <2>3. /\ IsFiniteSet(keys \cup Stray)
        /\ Cardinality(keys \cup Stray) = Cardinality(keys) + Cardinality(Stray) - Cardinality(keys \cap Stray)
    BY <1>2, FS_Union
  <2> QED BY <2>2, <2>3
<1>6. /\ IsFiniteSet(DOMAIN index \cup (keys \cup Stray))
      /\ Cardinality(DOMAIN index \cup (keys \cup Stray)) <= Cardinality(DOMAIN index) + Cardinality(keys \cup Stray)
  <2> DEFINE more == keys \cup Stray
  <2>1. IsFiniteSet(DOMAIN index \cap more)
    BY <1>2, FS_Subset
  <2>2. {Cardinality(DOMAIN index), Cardinality(more), Cardinality(DOMAIN index \cap more)} \subseteq Nat
    BY <1>2, <1>5, <2>1, FS_CardinalityType
  <2>3. /\ IsFiniteSet(DOMAIN index \cup more)
        /\ Cardinality(DOMAIN index \cup more)
             = Cardinality(DOMAIN index) + Cardinality(more) - Cardinality(DOMAIN index \cap more)
    BY <1>2, <1>5, FS_Union
  <2> QED BY <2>2, <2>3
<1>7. Cardinality(Held) <= Cardinality(DOMAIN index \cup (keys \cup Stray))
  BY <1>4, <1>6, FS_Subset
<1>8. Cardinality(keys) <= Cardinality(storing)
  BY StoringKeys
<1>9. {Cardinality(Writers), Cardinality(Stray), Cardinality(Adding), Cardinality(Held), Cardinality(keys),
       Cardinality(storing), Cardinality(DOMAIN index), Cardinality(keys \cup Stray),
       Cardinality(DOMAIN index \cup (keys \cup Stray))} \subseteq Nat
  BY <1>2, <1>5, <1>6, FS_CardinalityType
<1>10. MaxCacheSize \in Nat /\ disturbed \in Nat
  BY DEF Reasonable, Types
<1> HIDE DEF storing, keys
<1> QED BY <1>1, <1>3, <1>5, <1>6, <1>7, <1>8, <1>9, <1>10 DEF Weight


\* What the others owe they still owe.
LEMMA OthersOwe ==
  ASSUME Types, NEW c \in Clients, NEW command \in Commands, NEW ks \in SUBSET Keys, Goes(c, command, ks),
         Held \subseteq Held', Owing,
         client[c].next \notin {"run", "store", "count", "choose"},
         client[c].next \in {"touch", "evict"} => client[c].keys \cap Held = {}
  PROVE  Owing'
<1>1. \A d \in Clients : d # c => client'[d] = client[d]
  BY Going
<1>2. CASE \E d \in Clients : client[d].next \in {"run", "store", "count", "choose"}
  BY <1>1, <1>2 DEF Owing
<1>3. CASE \E d \in Clients, k \in Held : client[d].next \in {"touch", "evict"} /\ client[d].keys = {k}
  <2>1. PICK d \in Clients, k \in Held : client[d].next \in {"touch", "evict"} /\ client[d].keys = {k}
    BY <1>3
  <2>2. d # c
    BY <2>1
  <2>3. client'[d] = client[d] /\ k \in Held'
    BY <1>1, <2>1, <2>2
  <2> QED BY <2>1, <2>3 DEF Owing
<1> QED BY <1>2, <1>3 DEF Owing

\* A step that adds nothing.
LEMMA NothingAdded ==
  ASSUME Types, Types', SizeInv, Adding' \subseteq Adding, Held' \subseteq Held, disturbed' = disturbed,
         \/ Owing /\ Held' = Held => Owing'
         \/ Weight(Adding, Held) <= MaxCacheSize + disturbed
  PROVE  SizeInv'
<1>1. IsFiniteSet(Adding) /\ IsFiniteSet(Held) /\ Weight(Adding, Held) \in Nat /\ disturbed \in Nat /\ MaxCacheSize \in Nat
  BY HeldFinite DEF Reasonable, Types
<1>2. Weight(Adding', Held') \in Nat /\ Weight(Adding', Held') <= Weight(Adding, Held)
  BY <1>1, NoHeavier
<1>3. Weight(Adding, Held)' = Weight(Adding', Held')
  BY DEF Weight
<1>4. CASE Held' = Held
  BY <1>1, <1>2, <1>3, <1>4 DEF SizeInv
<1>5. CASE Held' # Held
  <2>1. PICK k \in Held : k \notin Held'
    BY <1>5
  <2>2. Weight(Adding', Held') <= Weight(Adding, Held) - 1
    BY <1>1, <2>1, OneKeyLess
  <2> QED BY <1>1, <1>2, <1>3, <2>2 DEF SizeInv
<1> QED BY <1>4, <1>5

\* A call begins.
LEMMA CalledSize ==
  ASSUME Types, Types', SizeInv, NEW c \in Clients, NEW command \in {"touch", "run", "evict", "wipe"},
         NEW ks \in SUBSET Keys, Called(c, command, ks), UNCHANGED <<index, stored>>,
         command = "touch" => \E k \in stored : ks = {k}
  PROVE  SizeInv'
<1>1. /\ client[c].next = "call" /\ Goes(c, command, ks) /\ command \in Commands
      /\ disturbed' = IF AtRest THEN disturbed ELSE disturbed + 1
  BY CalledStep DEF Commands
<1>2. \A x, k : About(x, k) <=> (client[c].next = x /\ k \in client[c].keys) \/ AboutOther(c, x, k)
  BY AboutSplit
<1>3. \A x, k : About(x, k)' <=> (command = x /\ k \in ks) \/ AboutOther(c, x, k)
  BY <1>1, AboutSplitNext
<1>4. Held' = Held
  BY <1>1, <1>2, <1>3, HeldKey, HeldKeyNext
<1>5. Adding' \subseteq Adding \cup {c} /\ (command \in {"evict", "wipe"} => Adding' \subseteq Adding)
  BY <1>1, InNext DEF Adding
<1>6. IsFiniteSet(Adding) /\ IsFiniteSet(Held) /\ Weight(Adding, Held) \in Nat /\ disturbed \in Nat /\ MaxCacheSize \in Nat
  BY HeldFinite DEF Reasonable, Types
<1>7. Weight(Adding', Held') \in Nat /\ Weight(Adding', Held') <= Weight(Adding, Held) + 1
  BY <1>4, <1>5, <1>6, OneMore
<1>8. command \in {"evict", "wipe"} => Weight(Adding', Held') <= Weight(Adding, Held)
  BY <1>4, <1>5, <1>6, NoHeavier
<1>9. Weight(Adding, Held)' = Weight(Adding', Held')
  BY DEF Weight
<1>10. client'[c].next = command /\ client'[c].keys = ks
  BY <1>1, Going
<1>11. CASE AtRest
  <2>1. ~Owing /\ disturbed' = disturbed
    BY <1>1, <1>11 DEF Owing, AtRest, At
  <2>2. Weight(Adding, Held) <= MaxCacheSize + disturbed
    BY <2>1 DEF SizeInv
  <2>3. CASE command = "run"
    <3>1. Owing'
      BY <1>10, <2>3 DEF Owing
    <3> QED BY <1>6, <1>7, <1>9, <2>1, <2>2, <3>1 DEF SizeInv
  <2>4. CASE command = "touch"
    <3>1. PICK k \in stored : ks = {k}
      BY <2>4
    <3>2. k \in Held'
      <4>1. ~About("delete", k)
        BY <1>11 DEF About, AtRest, At
      <4> QED BY <1>4, <4>1, HeldKey
    <3>3. Owing'
      BY <1>10, <2>4, <3>1, <3>2 DEF Owing
    <3> QED BY <1>6, <1>7, <1>9, <2>1, <2>2, <3>3 DEF SizeInv
  <2> QED BY <1>6, <1>7, <1>8, <1>9, <2>1, <2>2, <2>3, <2>4 DEF SizeInv
<1>12. CASE ~AtRest
  <2>1. disturbed' = disturbed + 1
    BY <1>1, <1>12
  <2>2. Owing => Owing'
    BY <1>1, <1>4, OthersOwe
  <2> QED BY <1>6, <1>7, <1>9, <2>1, <2>2 DEF SizeInv
<1> QED BY <1>11, <1>12

\* A call breaks off.
LEMMA BreakOffSize ==
  ASSUME Types, Types', SizeInv, NEW c \in Clients, BreakOff(c)
  PROVE  SizeInv'
<1> DEFINE ks == client[c].keys
<1>1. /\ client[c].next # "call" /\ Goes(c, "call", {}) /\ UNCHANGED <<index, stored, clock, used>>
      /\ IsFiniteSet(ks) /\ Cardinality(ks) \in Nat
      /\ disturbed' \in Nat /\ disturbed' >= disturbed + 1 /\ disturbed' >= disturbed + Cardinality(ks)
  BY BreakOffEffect
<1>2. "call" \in Commands /\ {} \in SUBSET Keys
  BY DEF Commands
<1>3. \A x, k : About(x, k) <=> (client[c].next = x /\ k \in ks) \/ AboutOther(c, x, k)
  BY AboutSplit
<1>4. \A x, k : About(x, k)' <=> ("call" = x /\ k \in {}) \/ AboutOther(c, x, k)
  BY <1>1, <1>2, AboutSplitNext
<1>5. Adding' = Adding \ {c}
  BY <1>1, <1>2, InNext DEF Adding
<1>6. /\ IsFiniteSet(Adding) /\ IsFiniteSet(Held) /\ Weight(Adding, Held) \in Nat /\ disturbed \in Nat
      /\ MaxCacheSize \in Nat /\ Weight(Adding, Held)' = Weight(Adding', Held')
  BY HeldFinite DEF Reasonable, Types, Weight
<1>7. CASE client[c].next # "delete"
  <2>1. Held' \subseteq Held
    BY <1>1, <1>3, <1>4, <1>7, HeldKey, HeldKeyNext
  <2>2. Weight(Adding', Held') \in Nat /\ Weight(Adding', Held') <= Weight(Adding, Held)
    BY <1>5, <1>6, <2>1, NoHeavier
  <2> QED BY <1>1, <1>6, <2>2 DEF SizeInv
<1>8. CASE client[c].next = "delete"
  <2>1. Held' \subseteq Held \cup ks /\ Held \subseteq Held'
    BY <1>1, <1>3, <1>4, <1>8, HeldKey, HeldKeyNext
  <2>2. Weight(Adding', Held') \in Nat /\ Weight(Adding', Held') <= Weight(Adding, Held) + Cardinality(ks)
    BY <1>1, <1>5, <1>6, <2>1, KeysMore
  <2>3. Owing => Owing'
    BY <1>1, <1>2, <1>8, <2>1, OthersOwe
  <2> QED BY <1>1, <1>6, <2>2, <2>3 DEF SizeInv
<1> QED BY <1>7, <1>8

LEMMA CallsSize ==
  ASSUME Types, Types', OrphanInv, SizeInv, NEW c \in Clients, Calls(c)
  PROVE  SizeInv'
<1>1. \A x, k : About(x, k) <=> (client[c].next = x /\ k \in client[c].keys) \/ AboutOther(c, x, k)
  BY AboutSplit
<1>2. client[c].keys \in SUBSET Keys /\ {} \in SUBSET Keys /\ DOMAIN index \in SUBSET Keys
  BY DEF Types
<1>3. ASSUME NEW command \in Commands, NEW ks \in SUBSET Keys, Goes(c, command, ks)
      PROVE  /\ \A x, k : About(x, k)' <=> (command = x /\ k \in ks) \/ AboutOther(c, x, k)
             /\ client'[c].next = command /\ client'[c].keys = ks
             /\ Adding' = IF command \in {"touch", "run"} THEN Adding \cup {c} ELSE Adding \ {c}
  <2>1. \A x, k : About(x, k)' <=> (command = x /\ k \in ks) \/ AboutOther(c, x, k)
    BY <1>3, AboutSplitNext
  <2>2. client'[c].next = command /\ client'[c].keys = ks
    BY <1>3, Going
  <2>3. Adding' = IF command \in {"touch", "run"} THEN Adding \cup {c} ELSE Adding \ {c}
    <3>1. \A d \in Clients : d # c => client'[d] = client[d]
      BY <1>3, Going
    <3> QED BY <2>2, <3>1 DEF Adding, In
  <2> QED BY <2>1, <2>2, <2>3
<1>4. /\ IsFiniteSet(Adding) /\ IsFiniteSet(Held) /\ Weight(Adding, Held) \in Nat /\ disturbed \in Nat
      /\ MaxCacheSize \in Nat /\ Weight(Adding, Held)' = Weight(Adding', Held')
  BY HeldFinite DEF Reasonable, Types, Weight
<1>5. CASE Touch(c)
  <2>1. PICK k \in Keys : /\ client[c].next = "touch" /\ client[c].keys = {k} /\ Goes(c, "call", {})
                          /\ index' = AddedTo(index, k, clock) /\ used' = AddedTo(used, k, clock)
                         /\ UNCHANGED <<stored, clock, disturbed>>
    BY <1>5, TouchEffect
  <2>2. DOMAIN index' = DOMAIN index \cup {k} /\ "call" \in Commands
    BY <2>1, AddedKey DEF Commands
  <2>3. Adding' = Adding \ {c} /\ c \in Adding
    <3>1. Adding' = Adding \ {c}
      BY <1>2, <1>3, <2>1, <2>2
    <3> QED BY <2>1, <3>1 DEF Adding, In
  <2>4. Held' = Held \cup {k}
    BY <1>1, <1>2, <1>3, <2>1, <2>2, HeldKey, HeldKeyNext
  <2>5. CASE k \in Held
    <3>1. Weight(Adding', Held') \in Nat /\ Weight(Adding', Held') <= Weight(Adding, Held) - 1
      BY <1>4, <2>3, <2>4, <2>5, OneLess
    <3> QED BY <1>4, <2>1, <3>1 DEF SizeInv
  <2>6. CASE k \notin Held
    <3>1. Weight(Adding', Held') \in Nat /\ Weight(Adding', Held') <= Weight(Adding, Held)
      BY <1>4, <2>3, <2>4, Exchanged
    <3>2. Owing => Owing'
      BY <1>2, <2>1, <2>2, <2>4, <2>6, OthersOwe
    <3> QED BY <1>4, <2>1, <3>1, <3>2 DEF SizeInv
  <2> QED BY <2>5, <2>6
<1>6. CASE Index(c)
  <2>1. PICK k \in Keys : /\ client[c].next = "run" /\ client[c].keys = {k} /\ Goes(c, "store", {k})
                          /\ index' = AddedTo(index, k, clock) /\ used' = AddedTo(used, k, clock)
                         /\ UNCHANGED <<stored, clock, disturbed>>
    BY <1>6, IndexEffect
  <2>2. DOMAIN index' = DOMAIN index \cup {k} /\ "store" \in Commands /\ {k} \in SUBSET Keys
    BY <2>1, AddedKey DEF Commands
  <2>3. /\ \A x, j : About(x, j)' <=> ("store" = x /\ j \in {k}) \/ AboutOther(c, x, j)
        /\ client'[c].next = "store" /\ Adding' = Adding \ {c}
    BY <1>3, <2>1, <2>2
  <2>4. c \in Adding
    BY <2>1 DEF Adding, In
  <2>5. Held' \subseteq Held \cup {k}
    BY <1>1, <2>1, <2>2, <2>3, HeldKey, HeldKeyNext
  <2>6. Weight(Adding', Held') \in Nat /\ Weight(Adding', Held') <= Weight(Adding, Held)
    BY <1>4, <2>3, <2>4, <2>5, Exchanged
  <2>7. Owing'
    BY <2>3 DEF Owing
  <2> QED BY <1>4, <2>1, <2>6, <2>7 DEF SizeInv
<1>7. CASE Store(c)
  <2>1. PICK k \in Keys : /\ client[c].next = "store" /\ client[c].keys = {k} /\ Goes(c, "count", {k})
                          /\ stored' = stored \cup {k} /\ UNCHANGED <<index, clock, used, disturbed>>
    BY <1>7, StoreEffect
  <2>2. "count" \in Commands /\ {k} \in SUBSET Keys
    BY DEF Commands
  <2>3. /\ \A x, j : About(x, j)' <=> ("count" = x /\ j \in {k}) \/ AboutOther(c, x, j)
        /\ client'[c].next = "count" /\ Adding' = Adding \ {c}
    BY <1>3, <2>1, <2>2
  <2>4. Held' \subseteq Held
    BY <1>1, <2>1, <2>3, HeldKey, HeldKeyNext
  <2>5. Owing'
    BY <2>3 DEF Owing
  <2> QED BY <2>1, <2>3, <2>4, <2>5, NothingAdded
<1>8. CASE Count(c)
  <2>1. PICK command \in {"choose", "call"}, ks \in {client[c].keys, {}} :
          /\ Goes(c, command, ks) /\ client[c].next = "count" /\ UNCHANGED <<index, stored, clock, used, disturbed>>
          /\ command = "choose" \/ Cardinality(DOMAIN index) <= MaxCacheSize
    BY <1>8, CountEffect
  <2>2. command \in Commands /\ ks \in SUBSET Keys
    BY <1>2 DEF Commands
  <2>3. /\ \A x, k : About(x, k)' <=> (command = x /\ k \in ks) \/ AboutOther(c, x, k)
        /\ client'[c].next = command /\ Adding' = Adding \ {c}
    BY <1>3, <2>1, <2>2
  <2>4. Held' \subseteq Held
    BY <1>1, <2>1, <2>3, HeldKey, HeldKeyNext
  <2>5. CASE command = "choose"
    <3>1. Owing'
      BY <2>3, <2>5 DEF Owing
    <3> QED BY <2>1, <2>3, <2>4, <3>1, NothingAdded
  <2>6. CASE command # "choose"
    <3>1. Quiet
      BY <2>1 DEF Quiet, Removing
    <3> QED BY <2>1, <2>3, <2>4, <2>6, <3>1, Room, NothingAdded
  <2> QED BY <2>5, <2>6
<1>9. CASE Choose(c)
  <2>1. PICK command \in {"evict", "call"}, ks \in SUBSET DOMAIN index :
          /\ Goes(c, command, ks) /\ client[c].next = "choose" /\ UNCHANGED <<index, stored, clock, used, disturbed>>
          /\ \/ command = "evict" /\ \E k \in DOMAIN index : ks = {k}
             \/ Cardinality(DOMAIN index) <= MaxCacheSize
    BY <1>9, ChooseEffect
  <2>2. command \in Commands /\ ks \in SUBSET Keys
    BY <1>2 DEF Commands
  <2>3. /\ \A x, k : About(x, k)' <=> (command = x /\ k \in ks) \/ AboutOther(c, x, k)
        /\ client'[c].next = command /\ client'[c].keys = ks /\ Adding' = Adding \ {c}
    BY <1>3, <2>1, <2>2
  <2>4. Held' \subseteq Held
    BY <1>1, <2>1, <2>3, HeldKey, HeldKeyNext
  <2>5. CASE command = "evict" /\ \E k \in DOMAIN index : ks = {k}
    <3>1. PICK k \in DOMAIN index : ks = {k}
      BY <2>5
    <3>2. k \in Held'
      BY <2>1, HeldKeyNext
    <3>3. Owing'
      BY <2>3, <2>5, <3>1, <3>2 DEF Owing
    <3> QED BY <2>1, <2>3, <2>4, <3>3, NothingAdded
  <2>6. CASE Cardinality(DOMAIN index) <= MaxCacheSize
    <3>1. Quiet
      BY <2>1 DEF Quiet, Removing
    <3> QED BY <2>1, <2>3, <2>4, <2>6, <3>1, Room, NothingAdded
  <2> QED BY <2>1, <2>5, <2>6
<1>10. CASE Evict(c)
  <2>1. PICK k \in Keys : /\ client[c].next = "evict" /\ client[c].keys = {k} /\ Goes(c, "delete", {k})
                          /\ index' = DroppedFrom(index, {k}) /\ UNCHANGED <<stored, clock, used, disturbed>>
    BY <1>10, EvictEffect
  <2>2. DOMAIN index' = DOMAIN index \ {k} /\ "delete" \in Commands /\ {k} \in SUBSET Keys
    BY <2>1, DroppedKeys DEF Commands
  <2>3. /\ \A x, j : About(x, j)' <=> ("delete" = x /\ j \in {k}) \/ AboutOther(c, x, j)
        /\ client'[c].next = "delete" /\ Adding' = Adding \ {c}
    BY <1>3, <2>1, <2>2
  <2>4. Held' \subseteq Held
    BY <1>1, <2>1, <2>2, <2>3, HeldKey, HeldKeyNext
  <2>5. ASSUME Owing, Held' = Held PROVE Owing'
    <3>1. CASE k \in Held
      <4>1. About("store", k)'
        BY <2>1, <2>2, <2>3, <2>5, <3>1, HeldKeyNext
      <4> QED BY <4>1 DEF About, Owing
    <3>2. CASE k \notin Held
      BY <2>1, <2>2, <2>5, <3>2, OthersOwe
    <3> QED BY <3>1, <3>2
  <2> QED BY <2>1, <2>3, <2>4, <2>5, NothingAdded
<1>11. CASE Delete(c)
  <2>1. /\ client[c].next = "delete" /\ Goes(c, "call", {}) /\ stored' = stored \ client[c].keys
        /\ UNCHANGED <<index, clock, used, disturbed>>
    BY <1>11, DeleteEffect
  <2>2. "call" \in Commands
    BY DEF Commands
  <2>3. /\ \A x, j : About(x, j)' <=> ("call" = x /\ j \in {}) \/ AboutOther(c, x, j)
        /\ client'[c].next = "call" /\ Adding' = Adding \ {c}
    BY <1>2, <1>3, <2>1, <2>2
  <2>4. Held' \subseteq Held
    BY <1>1, <2>1, <2>3, HeldKey, HeldKeyNext
  <2>5. Owing /\ Held' = Held => Owing'
    BY <1>2, <2>1, <2>2, OthersOwe
  <2> QED BY <2>1, <2>3, <2>4, <2>5, NothingAdded
<1>12. CASE Wipe(c)
  <2>1. /\ client[c].next = "wipe" /\ Goes(c, "delete", client[c].keys) /\ DOMAIN index' = {}
        /\ UNCHANGED <<stored, clock, used, disturbed>>
    BY <1>12, WipeEffect
  <2>2. "delete" \in Commands
    BY DEF Commands
  <2>3. /\ \A x, j : About(x, j)' <=> ("delete" = x /\ j \in client[c].keys) \/ AboutOther(c, x, j)
        /\ client'[c].next = "delete" /\ Adding' = Adding \ {c}
    BY <1>2, <1>3, <2>1, <2>2
  <2>4. Held' \subseteq Held
    BY <1>1, <2>1, <2>3, HeldKey, HeldKeyNext
  <2>5. Owing /\ Held' = Held => Owing'
    BY <1>2, <2>1, <2>2, OthersOwe
  <2> QED BY <2>1, <2>3, <2>4, <2>5, NothingAdded
<1>13. CASE Clear(c)
  BY <1>2, <1>13, CalledSize DEF Clear
<1>14. ASSUME NEW k \in Keys, Get(c, k) \/ Remove(c, k) PROVE SizeInv'
  <2>1. PICK command \in {"touch", "run", "evict"} :
          Called(c, command, {k}) /\ UNCHANGED <<index, stored>> /\ (command = "touch" => k \in stored)
    BY <1>14 DEF Get, Remove
  <2> QED BY <2>1, CalledSize
<1>15. CASE Fail(c)
  <2>1. client[c].next = "run" /\ Goes(c, "call", {}) /\ UNCHANGED <<index, stored, clock, used, disturbed>>
    BY <1>15, FailEffect
  <2>2. "call" \in Commands
    BY DEF Commands
  <2>3. (\A x, j : About(x, j)' <=> ("call" = x /\ j \in {}) \/ AboutOther(c, x, j)) /\ Adding' = Adding \ {c}
    BY <1>2, <1>3, <2>1, <2>2
  <2>4. Held' = Held
    BY <1>1, <2>1, <2>3, HeldKey, HeldKeyNext
  <2>5. c \in Adding
    BY <2>1 DEF Adding, In
  <2>6. Weight(Adding', Held') \in Nat /\ Weight(Adding', Held') <= Weight(Adding, Held) - 1
    BY <1>4, <2>3, <2>4, <2>5, OneLess
  <2> QED BY <1>4, <2>1, <2>6 DEF SizeInv
<1> QED BY <1>5, <1>6, <1>7, <1>8, <1>9, <1>10, <1>11, <1>12, <1>13, <1>14, <1>15, BreakOffSize DEF Calls

LEMMA ExpireSize ==
  ASSUME Types, Types', SizeInv, UNCHANGED <<index, client, clock, disturbed>>, stored' \subseteq stored
  PROVE  SizeInv'
<1>1. Held' \subseteq Held /\ Adding' = Adding
  <2>1. \A x, k : About(x, k)' <=> About(x, k)
    BY DEF About
  <2> QED BY <2>1, HeldKey, HeldKeyNext DEF Adding, In
<1>2. Owing /\ Held' = Held => Owing'
  BY DEF Owing
<1> QED BY <1>1, <1>2, NothingAdded

-----------------------------------------------------------------------------
(* What is kept was used last. *)

Alone(c) == \A d \in Clients : d # c => client[d].next = "call"

LEMMA AloneAbout ==
  ASSUME NEW c \in Clients, Alone(c)
  PROVE  \A x, k : x # "call" => /\ About(x, k) <=> client[c].next = x /\ k \in client[c].keys
                                 /\ NotAbout(x, k) <=> client[c].next = x /\ k \notin client[c].keys
BY DEF Alone, About, NotAbout

LEMMA AloneNext ==
  ASSUME Types, NEW c \in Clients, Alone(c), NEW command \in Commands, NEW ks \in SUBSET Keys, Goes(c, command, ks)
  PROVE  /\ \A x, k : x # "call" => /\ About(x, k)' <=> command = x /\ k \in ks
                                    /\ NotAbout(x, k)' <=> command = x /\ k \notin ks
         /\ \A d, e \in Clients : client'[d].next # "call" /\ client'[e].next # "call" => d = e
<1>1. client'[c].next = command /\ client'[c].keys = ks /\ \A d \in Clients : d # c => client'[d] = client[d]
  BY Going
<1> QED BY <1>1 DEF Alone, About, NotAbout

\* A call begins: what it is about is not yet dropped, or dropped from used.
LEMMA CalledRecent ==
  ASSUME Types, Types', RecentInv, NEW c \in Clients, NEW command, NEW ks, Called(c, command, ks), disturbed' = 0
  PROVE  Recent /\ AtRest /\ Alone(c) /\ clock' = clock + 1 /\ Goes(c, command, ks) /\ client[c].next = "call"
<1>1. disturbed' = IF AtRest THEN disturbed ELSE disturbed + 1
  BY CalledStep
<1>2. disturbed \in Nat
  BY DEF Types
<1>3. AtRest /\ disturbed = 0
  BY <1>1, <1>2
<1> QED BY <1>3, CalledStep DEF RecentInv, AtRest, At, Alone

LEMMA CallsRecent ==
  ASSUME Types, Types', RecentInv, NEW c \in Clients, Calls(c), disturbed' = 0
  PROVE  Recent'
<1>1. client[c].keys \in SUBSET Keys /\ {} \in SUBSET Keys /\ DOMAIN index \in SUBSET Keys /\ clock \in Nat
  BY DEF Types
<1>2. ASSUME disturbed' = disturbed, client[c].next # "call"
      PROVE  /\ Recent /\ Alone(c)
             /\ \A x, k : x # "call" => /\ About(x, k) <=> client[c].next = x /\ k \in client[c].keys
                                        /\ NotAbout(x, k) <=> client[c].next = x /\ k \notin client[c].keys
  <2>1. Recent
    BY <1>2 DEF RecentInv
  <2>2. Alone(c)
    BY <1>2, <2>1 DEF Recent, Alone
  <2> QED BY <2>1, <2>2, AloneAbout
<1>3. CASE Touch(c)
  <2>1. PICK k \in Keys : /\ client[c].next = "touch" /\ client[c].keys = {k} /\ Goes(c, "call", {})
                          /\ index' = AddedTo(index, k, clock) /\ used' = AddedTo(used, k, clock)
                          /\ UNCHANGED <<stored, clock, disturbed>>
    BY <1>3, TouchEffect
  <2>2. /\ DOMAIN index' = DOMAIN index \cup {k} /\ "call" \in Commands
        /\ index'[k] = clock /\ \A x \in DOMAIN index : x # k => index'[x] = index[x]
    BY <2>1, AddedKey DEF Commands
  <2>3. /\ DOMAIN used' = DOMAIN used \cup {k} /\ used'[k] = clock
        /\ \A x \in DOMAIN used : x # k => used'[x] = used[x]
    BY <2>1 DEF AddedTo
  <2>4. /\ \A x, j : x # "call" => ~About(x, j)' /\ ~NotAbout(x, j)'
        /\ \A d, e \in Clients : client'[d].next # "call" /\ client'[e].next # "call" => d = e
    BY <1>1, <1>2, <2>1, <2>2, AloneNext
  <2>5. /\ clock >= 1 /\ \A x \in DOMAIN used : used[x] < clock /\ used[x] \in 1..clock
        /\ \A x, j \in DOMAIN used : used[x] = used[j] => x = j
    BY <1>2, <2>1 DEF Recent, Fresh
  <2>6. \A x \in DOMAIN used' : used'[x] \in 1..clock'
    BY <1>1, <2>1, <2>3, <2>5
  <2>7. \A x, j \in DOMAIN used' : used'[x] = used'[j] => x = j
    BY <1>1, <2>3, <2>5
  <2>8. /\ \A x \in DOMAIN index : x \in DOMAIN used /\ index[x] = used[x]
        /\ \A x \in DOMAIN index, j \in DOMAIN used \ DOMAIN index : used[j] < used[x]
        /\ \A x \in stored : x \in DOMAIN index
    BY <1>2, <2>1 DEF Recent, Leaving
  <2>9. \A x \in DOMAIN index' : x \in DOMAIN used' /\ index'[x] = used'[x]
    BY <2>2, <2>3, <2>8
  <2>10. \A x \in DOMAIN index', j \in DOMAIN used' \ DOMAIN index' : used'[j] < used'[x]
    <3> SUFFICES ASSUME NEW x \in DOMAIN index', NEW j \in DOMAIN used' \ DOMAIN index' PROVE used'[j] < used'[x]
      OBVIOUS
    <3>1. j \in DOMAIN used \ DOMAIN index /\ j # k /\ used'[j] = used[j]
      BY <2>2, <2>3
    <3>2. CASE x = k
      BY <2>3, <2>5, <3>1, <3>2
    <3>3. CASE x # k
      BY <2>2, <2>3, <2>8, <3>1, <3>3
    <3> QED BY <3>2, <3>3
  <2>11. \A x : ~Fresh(x)' /\ ~About("evict", x)' /\ ~NotAbout("wipe", x)' /\ (About("store", x)' => x = k)
    BY <2>4 DEF Fresh
  <2> QED BY <2>1, <2>2, <2>4, <2>6, <2>7, <2>8, <2>9, <2>10, <2>11 DEF Recent
<1>4. CASE Index(c)
  <2>1. PICK k \in Keys : /\ client[c].next = "run" /\ client[c].keys = {k} /\ Goes(c, "store", {k})
                          /\ index' = AddedTo(index, k, clock) /\ used' = AddedTo(used, k, clock)
                          /\ UNCHANGED <<stored, clock, disturbed>>
    BY <1>4, IndexEffect
  <2>2. /\ DOMAIN index' = DOMAIN index \cup {k} /\ "store" \in Commands
        /\ index'[k] = clock /\ \A x \in DOMAIN index : x # k => index'[x] = index[x]
    BY <2>1, AddedKey DEF Commands
  <2>3. /\ DOMAIN used' = DOMAIN used \cup {k} /\ used'[k] = clock
        /\ \A x \in DOMAIN used : x # k => used'[x] = used[x]
    BY <2>1 DEF AddedTo
  <2>4. /\ \A x, j : x # "call" => (About(x, j)' <=> x = "store" /\ j = k) /\ (NotAbout(x, j)' <=> x = "store" /\ j # k)
        /\ \A d, e \in Clients : client'[d].next # "call" /\ client'[e].next # "call" => d = e
    BY <1>1, <1>2, <2>1, <2>2, AloneNext
  <2>5. /\ clock >= 1 /\ \A x \in DOMAIN used : used[x] < clock /\ used[x] \in 1..clock
        /\ \A x, j \in DOMAIN used : used[x] = used[j] => x = j
    BY <1>2, <2>1 DEF Recent, Fresh
  <2>6. \A x \in DOMAIN used' : used'[x] \in 1..clock'
    BY <1>1, <2>1, <2>3, <2>5
  <2>7. \A x, j \in DOMAIN used' : used'[x] = used'[j] => x = j
    BY <1>1, <2>3, <2>5
  <2>8. /\ \A x \in DOMAIN index : x \in DOMAIN used /\ index[x] = used[x]
        /\ \A x \in DOMAIN index, j \in DOMAIN used \ DOMAIN index : used[j] < used[x]
        /\ \A x \in stored : x \in DOMAIN index
    BY <1>2, <2>1 DEF Recent, Leaving
  <2>9. \A x \in DOMAIN index' : x \in DOMAIN used' /\ index'[x] = used'[x]
    BY <2>2, <2>3, <2>8
  <2>10. \A x \in DOMAIN index', j \in DOMAIN used' \ DOMAIN index' : used'[j] < used'[x]
    <3> SUFFICES ASSUME NEW x \in DOMAIN index', NEW j \in DOMAIN used' \ DOMAIN index' PROVE used'[j] < used'[x]
      OBVIOUS
    <3>1. j \in DOMAIN used \ DOMAIN index /\ j # k /\ used'[j] = used[j]
      BY <2>2, <2>3
    <3>2. CASE x = k
      BY <2>3, <2>5, <3>1, <3>2
    <3>3. CASE x # k
      BY <2>2, <2>3, <2>8, <3>1, <3>3
    <3> QED BY <3>2, <3>3
  <2>11. \A x : ~Fresh(x)' /\ ~About("evict", x)' /\ ~NotAbout("wipe", x)' /\ (About("store", x)' => x = k)
    BY <2>4 DEF Fresh
  <2> QED BY <2>1, <2>2, <2>4, <2>6, <2>7, <2>8, <2>9, <2>10, <2>11 DEF Recent
<1>5. CASE Store(c)
  <2>1. PICK k \in Keys : /\ client[c].next = "store" /\ client[c].keys = {k} /\ Goes(c, "count", {k})
                          /\ stored' = stored \cup {k} /\ UNCHANGED <<index, clock, used, disturbed>>
    BY <1>5, StoreEffect
  <2>2. "count" \in Commands
    BY DEF Commands
  <2>3. /\ \A x, j : x # "call" => (About(x, j)' <=> x = "count" /\ j = k) /\ (NotAbout(x, j)' <=> x = "count" /\ j # k)
        /\ \A d, e \in Clients : client'[d].next # "call" /\ client'[e].next # "call" => d = e
    BY <1>2, <2>1, <2>2, AloneNext
  <2> QED BY <1>1, <1>2, <2>1, <2>2, <2>3 DEF Recent, Fresh, Leaving
<1>6. CASE Count(c)
  <2>1. PICK command \in {"choose", "call"}, ks \in {client[c].keys, {}} :
          Goes(c, command, ks) /\ client[c].next = "count" /\ UNCHANGED <<index, stored, clock, used, disturbed>>
    BY <1>6, CountEffect
  <2>2. command \in Commands /\ ks \in SUBSET Keys
    BY <1>1 DEF Commands
  <2>3. /\ \A x, j : x \notin {"call", "choose"} => ~About(x, j)' /\ ~NotAbout(x, j)'
        /\ \A d, e \in Clients : client'[d].next # "call" /\ client'[e].next # "call" => d = e
    BY <1>2, <2>1, <2>2, AloneNext
  <2> QED BY <1>1, <1>2, <2>1, <2>2, <2>3 DEF Recent, Fresh, Leaving
<1>7. CASE Choose(c)
  <2>1. client[c].next = "choose" /\ UNCHANGED <<index, stored, clock, used, disturbed>>
    BY <1>7, ChooseEffect
  <2>2. "call" \in Commands /\ "evict" \in Commands
    BY DEF Commands
  <2>3. CASE Goes(c, "call", {})
    <3>1. /\ \A x, j : x # "call" => ~About(x, j)' /\ ~NotAbout(x, j)'
          /\ \A d, e \in Clients : client'[d].next # "call" /\ client'[e].next # "call" => d = e
      BY <1>1, <1>2, <2>1, <2>2, <2>3, AloneNext
    <3> QED BY <1>1, <1>2, <2>1, <3>1 DEF Recent, Fresh, Leaving
  <2>4. CASE \E k \in DOMAIN index : Goes(c, "evict", {k}) /\ \A x \in DOMAIN index : index[k] <= index[x]
    <3>1. PICK k \in DOMAIN index : Goes(c, "evict", {k}) /\ \A x \in DOMAIN index : index[k] <= index[x]
      BY <2>4
    <3>2. /\ \A x, j : x # "call" => (About(x, j)' <=> x = "evict" /\ j = k) /\ (NotAbout(x, j)' <=> x = "evict" /\ j # k)
          /\ \A d, e \in Clients : client'[d].next # "call" /\ client'[e].next # "call" => d = e
      BY <1>1, <1>2, <2>1, <2>2, <3>1, AloneNext
    <3>3. \A x \in DOMAIN index : x \in DOMAIN used /\ index[x] = used[x] /\ used[x] \in Nat
      BY <1>1, <1>2, <2>1 DEF Recent, Fresh, Leaving
    <3>4. \A x \in DOMAIN index : x # k => used[k] < used[x]
      BY <1>2, <2>1, <3>1, <3>3 DEF Recent
    <3> QED BY <1>1, <1>2, <2>1, <3>2, <3>4 DEF Recent, Fresh, Leaving
  <2> QED BY <1>7, <2>3, <2>4, ChooseEffect
<1>8. CASE Evict(c)
  <2>1. PICK k \in Keys : /\ client[c].next = "evict" /\ client[c].keys = {k} /\ Goes(c, "delete", {k})
                          /\ index' = DroppedFrom(index, {k}) /\ UNCHANGED <<stored, clock, used, disturbed>>
    BY <1>8, EvictEffect
  <2>2. /\ DOMAIN index' = DOMAIN index \ {k} /\ \A x \in DOMAIN index' : index'[x] = index[x]
        /\ "delete" \in Commands
    BY <2>1, DroppedKeys DEF Commands
  <2>3. /\ \A x, j : x # "call" => (About(x, j)' <=> x = "delete" /\ j = k) /\ (NotAbout(x, j)' <=> x = "delete" /\ j # k)
        /\ \A d, e \in Clients : client'[d].next # "call" /\ client'[e].next # "call" => d = e
    BY <1>2, <2>1, <2>2, AloneNext
  <2>4. \A x \in DOMAIN index : x # k => x \in DOMAIN used /\ index[x] = used[x]
    BY <1>2, <2>1 DEF Recent, Fresh, Leaving
  <2>5. \A x \in DOMAIN used, j \in DOMAIN index' : x \notin DOMAIN index' => used[x] < used[j]
    <3> SUFFICES ASSUME NEW x \in DOMAIN used, NEW j \in DOMAIN index', x \notin DOMAIN index' PROVE used[x] < used[j]
      OBVIOUS
    <3>1. CASE x = k
      BY <1>2, <2>1, <2>2, <3>1 DEF Recent, Leaving
    <3>2. CASE x # k
      BY <1>2, <2>1, <2>2, <3>2 DEF Recent, Fresh, Leaving
    <3> QED BY <3>1, <3>2
  <2>6. \A x \in stored : x \in DOMAIN index' \/ x = k
    BY <1>2, <2>1, <2>2 DEF Recent
  <2>7. (\A x \in DOMAIN used : used[x] \in 1..clock) /\ (\A x, j \in DOMAIN used : used[x] = used[j] => x = j)
    BY <1>2, <2>1 DEF Recent
  <2>8. \A j : ~Fresh(j)' /\ ~Leaving(j)' /\ ~About("evict", j)' /\ ~About("store", j)' /\ ~About("touch", j)'
               /\ ~NotAbout("wipe", j)' /\ (About("delete", j)' <=> j = k)
    BY <2>3 DEF Fresh, Leaving
  <2> QED BY <2>1, <2>2, <2>3, <2>4, <2>5, <2>6, <2>7, <2>8 DEF Recent
<1>9. CASE Delete(c)
  <2>1. /\ client[c].next = "delete" /\ Goes(c, "call", {}) /\ stored' = stored \ client[c].keys
        /\ UNCHANGED <<index, clock, used, disturbed>>
    BY <1>9, DeleteEffect
  <2>2. "call" \in Commands
    BY DEF Commands
  <2>3. /\ \A x, j : x # "call" => ~About(x, j)' /\ ~NotAbout(x, j)'
        /\ \A d, e \in Clients : client'[d].next # "call" /\ client'[e].next # "call" => d = e
    BY <1>1, <1>2, <2>1, <2>2, AloneNext
  <2> QED BY <1>1, <1>2, <2>1, <2>2, <2>3 DEF Recent, Fresh, Leaving
<1>10. CASE Wipe(c)
  <2>1. /\ client[c].next = "wipe" /\ Goes(c, "delete", client[c].keys) /\ DOMAIN index' = {}
        /\ UNCHANGED <<stored, clock, used, disturbed>>
    BY <1>10, WipeEffect
  <2>2. "delete" \in Commands
    BY DEF Commands
  <2>3. /\ \A x, j : x # "call" => (About(x, j)' <=> x = "delete" /\ j \in client[c].keys)
        /\ \A x, j : x # "call" /\ x # "delete" => ~NotAbout(x, j)'
        /\ \A d, e \in Clients : client'[d].next # "call" /\ client'[e].next # "call" => d = e
    BY <1>1, <1>2, <2>1, <2>2, AloneNext
  <2> QED BY <1>1, <1>2, <2>1, <2>2, <2>3 DEF Recent, Fresh, Leaving
<1>11. CASE Clear(c)
  <2>1. Called(c, "wipe", DOMAIN index) /\ used' = DroppedFrom(used, DOMAIN index) /\ UNCHANGED <<index, stored>>
    BY <1>11 DEF Clear
  <2>2. Recent /\ AtRest /\ Alone(c) /\ clock' = clock + 1 /\ Goes(c, "wipe", DOMAIN index) /\ client[c].next = "call"
    BY <2>1, CalledRecent
  <2>3. DOMAIN used' = DOMAIN used \ DOMAIN index /\ \A x \in DOMAIN used' : used'[x] = used[x]
    BY <2>1 DEF DroppedFrom, Restrict
  <2>4. /\ \A x, j : x # "call" => (About(x, j)' <=> x = "wipe" /\ j \in DOMAIN index)
                                   /\ (NotAbout(x, j)' <=> x = "wipe" /\ j \notin DOMAIN index)
        /\ \A d, e \in Clients : client'[d].next # "call" /\ client'[e].next # "call" => d = e
    BY <1>1, <2>2, AloneNext DEF Commands
  <2>5. \A x, j : x # "call" => ~About(x, j)
    BY <2>2 DEF AtRest, At, About
  <2> QED BY <1>1, <2>1, <2>2, <2>3, <2>4, <2>5 DEF Recent, Fresh, Leaving
<1>12. ASSUME NEW k \in Keys, Get(c, k) PROVE Recent'
  <2>1. PICK command \in {"touch", "run"} : Called(c, command, {k}) /\ UNCHANGED <<index, stored, used>>
    BY <1>12 DEF Get
  <2>2. Recent /\ AtRest /\ Alone(c) /\ clock' = clock + 1 /\ Goes(c, command, {k}) /\ client[c].next = "call"
    BY <2>1, CalledRecent
  <2>3. /\ \A x, j : x # "call" => (About(x, j)' <=> x = command /\ j = k) /\ (NotAbout(x, j)' <=> x = command /\ j # k)
        /\ \A d, e \in Clients : client'[d].next # "call" /\ client'[e].next # "call" => d = e
    BY <2>2, AloneNext DEF Commands
  <2>4. \A x, j : x # "call" => ~About(x, j)
    BY <2>2 DEF AtRest, At, About
  <2>5. \A x \in DOMAIN used : used[x] \in 1..clock
    BY <2>2 DEF Recent
  <2>6. clock' >= 1 /\ \A x \in DOMAIN used : used[x] < clock' /\ used[x] \in 1..clock'
    BY <1>1, <2>2, <2>5
  <2> QED BY <2>1, <2>2, <2>3, <2>4, <2>6 DEF Recent, Fresh, Leaving
<1>13. ASSUME NEW k \in Keys, Remove(c, k) PROVE Recent'
  <2>1. Called(c, "evict", {k}) /\ used' = DroppedFrom(used, {k}) /\ UNCHANGED <<index, stored>>
    BY <1>13 DEF Remove
  <2>2. Recent /\ AtRest /\ Alone(c) /\ clock' = clock + 1 /\ Goes(c, "evict", {k}) /\ client[c].next = "call"
    BY <2>1, CalledRecent
  <2>3. DOMAIN used' = DOMAIN used \ {k} /\ \A x \in DOMAIN used' : used'[x] = used[x]
    BY <2>1 DEF DroppedFrom, Restrict
  <2>4. /\ \A x, j : x # "call" => (About(x, j)' <=> x = "evict" /\ j = k) /\ (NotAbout(x, j)' <=> x = "evict" /\ j # k)
        /\ \A d, e \in Clients : client'[d].next # "call" /\ client'[e].next # "call" => d = e
    BY <2>2, AloneNext DEF Commands
  <2>5. \A x, j : x # "call" => ~About(x, j)
    BY <2>2 DEF AtRest, At, About
  <2>6. /\ \A x \in DOMAIN used : used[x] \in 1..clock
        /\ \A x, j \in DOMAIN used : used[x] = used[j] => x = j
        /\ \A x \in stored : x \in DOMAIN index
        /\ \A x \in DOMAIN index : x \in DOMAIN used /\ index[x] = used[x]
        /\ \A x \in DOMAIN index, j \in DOMAIN used \ DOMAIN index : used[j] < used[x]
    BY <2>2, <2>5 DEF Recent, Fresh, Leaving
  <2>7. \A x \in DOMAIN used' : used'[x] \in 1..clock'
    BY <1>1, <2>2, <2>3, <2>6
  <2>8. \A j : ~Fresh(j)' /\ (Leaving(j)' <=> j = k) /\ (About("evict", j)' <=> j = k) /\ ~About("store", j)'
               /\ ~About("touch", j)' /\ ~NotAbout("wipe", j)'
    BY <2>4 DEF Fresh, Leaving
  <2> QED BY <2>1, <2>3, <2>4, <2>6, <2>7, <2>8 DEF Recent
<1>14. CASE Fail(c)
  <2>1. client[c].next = "run" /\ Goes(c, "call", {}) /\ UNCHANGED <<index, stored, clock, used, disturbed>>
    BY <1>14, FailEffect
  <2>2. "call" \in Commands
    BY DEF Commands
  <2>3. /\ \A x, j : x # "call" => ~About(x, j)' /\ ~NotAbout(x, j)'
        /\ \A d, e \in Clients : client'[d].next # "call" /\ client'[e].next # "call" => d = e
    BY <1>1, <1>2, <2>1, <2>2, AloneNext
  <2> QED BY <1>1, <1>2, <2>1, <2>2, <2>3 DEF Recent, Fresh, Leaving
<1>15. CASE BreakOff(c)
  BY <1>15, BreakOffEffect DEF Types
<1> QED BY <1>3, <1>4, <1>5, <1>6, <1>7, <1>8, <1>9, <1>10, <1>11, <1>12, <1>13, <1>14, <1>15 DEF Calls

LEMMA ExpireRecent ==
  ASSUME RecentInv, UNCHANGED <<index, client, clock, used, disturbed>>, stored' \subseteq stored
  PROVE  RecentInv'
<1>1. \A x, k : (About(x, k)' <=> About(x, k)) /\ (NotAbout(x, k)' <=> NotAbout(x, k))
  BY DEF About, NotAbout
<1> QED BY <1>1 DEF RecentInv, Recent, Fresh, Leaving

-----------------------------------------------------------------------------

LEMMA InitIInv == Reasonable /\ Init => IInv
<1> SUFFICES ASSUME Reasonable, Init PROVE IInv
  OBVIOUS
<1>1. DOMAIN index = {} /\ DOMAIN used = {} /\ stored = {} /\ clock = 0 /\ disturbed = 0 /\ index = <<>>
  BY DEF Init
<1>2. \A c \in Clients : client[c] = [next |-> "call", keys |-> {}]
  BY DEF Init, Idle
<1>3. Types
  <2>1. client \in [Clients -> [next : Commands, keys : SUBSET Keys]]
    BY DEF Init, Idle, Commands
  <2>2. index \in [DOMAIN index -> Nat]
    BY <1>1
  <2> QED BY <1>1, <1>2, <2>1, <2>2, FS_EmptySet DEF Types
<1>4. Writers = {} /\ Adding = {} /\ Stray = {} /\ Held = {} /\ ~Owing
  BY <1>1, <1>2, HeldKey, StrayKey DEF Writers, Adding, In, Owing, About
<1>5. Weight({}, {}) = 0
  BY FS_EmptySet DEF Weight
<1>6. OrphanInv /\ SizeInv
  BY <1>1, <1>4, <1>5 DEF Reasonable, Types, OrphanInv, SizeInv
<1>7. RecentInv
  BY <1>1, <1>2 DEF RecentInv, Recent, Fresh, About
<1> QED BY <1>3, <1>6, <1>7 DEF IInv

LEMMA NextIInv == IInv /\ [Next]_vars => IInv'
<1> SUFFICES ASSUME IInv, [Next]_vars PROVE IInv'
  OBVIOUS
<1> USE DEF IInv
<1>1. Types'
  BY NextTypes
<1>2. ASSUME NEW c \in Clients, Calls(c) PROVE IInv'
  BY <1>1, <1>2, CallsOrphan, CallsSize, CallsRecent DEF RecentInv
<1>3. CASE UNCHANGED vars \/ \E k \in Keys : Expire(k)
  <2>1. UNCHANGED <<index, client, clock, used, disturbed>> /\ stored' \subseteq stored
    BY <1>3 DEF vars, Expire, callVars
  <2> QED BY <1>1, <2>1, ExpireOrphan, ExpireSize, ExpireRecent
<1> QED BY <1>2, <1>3 DEF Next

\* Whatever the clients do, every orphan and every key too many are those of calls
\* that overlap or break off, and what has been evicted was used before what is kept.
THEOREM Invariant == ASSUME Reasonable PROVE Spec => []IInv
<1>1. Init => IInv
  BY InitIInv
<1>2. IInv /\ [Next]_vars => IInv'
  BY NextIInv
<1> QED BY <1>1, <1>2, PTL DEF Spec

\* The processes that share the cache keep its index within its limit but for one
\* key of each call that overlaps another and the keys of those that break off, and
\* as long as there are none, in it what was used last, for any number of processes,
\* keys and calls.
THEOREM CacheKeptHolds == ASSUME Reasonable PROVE Spec => []CacheKept
<1>1. IInv => CacheKept
  <2> SUFFICES ASSUME IInv, AtRest PROVE CacheKept
    BY DEF CacheKept, Bounded, KeepsRecent
  <2> USE DEF IInv
  <2>1. \A x, k : x # "call" => ~About(x, k) /\ ~NotAbout(x, k)
    BY DEF AtRest, At, About, NotAbout
  <2>2. Quiet /\ ~Owing
    BY DEF AtRest, At, Quiet, Owing
  <2>3. /\ Weight(Adding, Held) <= MaxCacheSize + disturbed /\ Weight(Writers, Stray) <= disturbed
        /\ disturbed \in Nat /\ MaxCacheSize \in Nat
    BY <2>2 DEF Reasonable, OrphanInv, SizeInv, Types
  <2>4. {Cardinality(Adding), Cardinality(Held), Cardinality(Writers), Cardinality(Stray),
         Cardinality(DOMAIN index)} \subseteq Nat
    BY HeldFinite, Weighed, FS_CardinalityType DEF Types
  <2>5. Cardinality(DOMAIN index) <= Cardinality(Held)
    BY HeldKey, HeldFinite, FS_Subset
  <2>6. Cardinality(DOMAIN index) <= MaxCacheSize + disturbed
    BY <2>3, <2>4, <2>5 DEF Weight
  <2>7. disturbed = 0 => stored \subseteq DOMAIN index
    <3> SUFFICES ASSUME disturbed = 0 PROVE stored \subseteq DOMAIN index
      OBVIOUS
    <3>1. Cardinality(Stray) = 0
      BY <2>3, <2>4 DEF Weight
    <3>2. Stray = {}
      BY <3>1, Weighed, FS_EmptySet
    <3> QED BY <2>1, <3>2, StrayKey
  <2>8. KeepsRecent
    BY <2>1 DEF KeepsRecent, RecentInv, Recent, Fresh, Leaving
  <2> QED BY <2>6, <2>7, <2>8 DEF CacheKept, Bounded
<1> QED BY <1>1, Invariant, PTL

=============================================================================
