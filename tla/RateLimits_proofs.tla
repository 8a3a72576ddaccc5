-------------------------- MODULE RateLimits_proofs --------------------------
(***************************************************************************)
(* What the replicas make of the rate limit they share, for any number of  *)
(* them, as long as no message is late:                                    *)
(*   - the slots of one window do not overlap, whatever its size;          *)
(*   - while nobody leaves and no rate limit is exceeded, replicas that    *)
(*     have come to rest have split the markets exactly, and count each    *)
(*     other exactly, whenever they joined.                                *)
(***************************************************************************)
EXTENDS ReplicaDiscovery_proofs, RateSlots

-----------------------------------------------------------------------------
(* Slots. *)

\* When an operation begins, counted from the beginning of its window.
Slot(s, operation) == BatchDelay(s) + OperationDelay(s, operation)

\* A scheduler with its place in the queue and among the replicas.
IsScheduler(s) ==
  /\ {s.queueSize, s.operations, s.replicaSize} \subseteq Nat \ {0}
  /\ s.queuePosition \in 0..(s.queueSize - 1) /\ s.instancePosition \in 0..(s.replicaSize - 1)
  /\ {s.baseRateLimit, s.rateLimitMultiplier, IntraClusterDistance(s)} \subseteq Nat

\* Schedulers of one identity that have been told the same.
SameWindow(a, b) ==
  /\ a.queueSize = b.queueSize /\ a.operations = b.operations /\ a.replicaSize = b.replicaSize
  /\ RateLimit(a) = RateLimit(b)

\* How many slots come before this one.
Place(s, operation) ==
  (s.queuePosition * s.replicaSize + s.instancePosition) * s.operations + operation

-----------------------------------------------------------------------------
(* Arithmetic. *)

LEMMA MulMonotonic ==
  ASSUME NEW r \in Nat, NEW x \in Int, NEW y \in Int, x <= y
  PROVE  r * x <= r * y
<1>1. y - x \in Nat
  OBVIOUS
<1>2. r * (y - x) >= 0
  BY <1>1
<1>. QED
  BY <1>2

LEMMA MulDistributes ==
  ASSUME NEW r \in Nat, NEW x \in Int, NEW y \in Int
  PROVE  r * (x + y) = r * x + r * y
OBVIOUS

\* A number in base n determines its digits, and is less than that of a larger head.
LEMMA DigitsApart ==
  ASSUME NEW n \in Nat, NEW x \in Int, NEW y \in Int,
         NEW i \in 0..(n - 1), NEW j \in 0..(n - 1), x < y
  PROVE  x * n + i + 1 <= y * n + j
<1>1. n * (x + 1) <= n * y
  BY MulMonotonic
<1>2. n * (x + 1) = n * x + n
  BY MulDistributes
<1>. QED
  BY <1>1, <1>2

-----------------------------------------------------------------------------

\* The stretch is cut evenly: all of it together is no more than there was.
LEMMA StretchFits ==
  ASSUME NEW d \in Nat, NEW k \in Nat \ {0}
  PROVE  d \div k \in Nat /\ k * (d \div k) <= d
OBVIOUS

LEMMA RateLimitNat ==
  ASSUME NEW s, IsScheduler(s)
  PROVE  /\ RateLimit(s) \in Nat
         /\ RateLimit(s) * (s.queueSize * s.operations * s.replicaSize)
              <= IntervalSize(s) * s.replicaSize + IntraClusterDistance(s)
<1>. DEFINE b == s.baseRateLimit * s.rateLimitMultiplier  d == IntraClusterDistance(s)
            k == s.queueSize * s.operations * s.replicaSize
<1>1. b \in Nat /\ d \in Nat /\ k \in Nat \ {0}
  BY DEF IsScheduler
<1>2. RateLimit(s) = b + d \div k
  BY DEF RateLimit, BaseRateLimit
<1>3. IntervalSize(s) * s.replicaSize = k * b
  BY DEF IsScheduler, IntervalSize, BaseRateLimit
<1>. HIDE DEF b, d, k
<1>4. d \div k \in Nat /\ k * (d \div k) <= d
  BY <1>1, StretchFits
<1>5. (b + d \div k) * k = k * b + k * (d \div k)
  BY <1>1, <1>4
<1>. QED
  BY <1>1, <1>2, <1>3, <1>4, <1>5 DEF d, k

LEMMA PlaceInt ==
  ASSUME NEW s, IsScheduler(s), NEW o \in 0..(s.operations - 1)
  PROVE  /\ s.queuePosition * s.replicaSize + s.instancePosition \in Int
         /\ Place(s, o) \in Int
BY DEF IsScheduler, Place

\* The delays of the code are the place among all slots, times the rate limit.
LEMMA SlotIsPlace ==
  ASSUME NEW s, IsScheduler(s), NEW o \in 0..(s.operations - 1)
  PROVE  Slot(s, o) = RateLimit(s) * Place(s, o)
<1>. DEFINE r == RateLimit(s)  q == s.queuePosition  p == s.replicaSize
            i == s.instancePosition  n == s.operations
<1>1. /\ r \in Nat /\ q \in Int /\ p \in Int /\ i \in Int /\ n \in Int /\ o \in Int
  BY RateLimitNat DEF IsScheduler
<1>2. Slot(s, o) = r * q * n * p + (r * o + r * i * n)
  BY DEF Slot, BatchDelay, OperationDelay
<1>3. Place(s, o) = (q * p + i) * n + o
  BY DEF Place
<1>. HIDE DEF r, q, p, i, n
<1>4. r * q * n * p + (r * o + r * i * n) = r * ((q * p + i) * n + o)
  BY <1>1
<1>. QED
  BY <1>2, <1>3, <1>4 DEF r

\* Slots of different places are a rate limit apart.
LEMMA PlacesApart ==
  ASSUME NEW a, NEW b, IsScheduler(a), IsScheduler(b), SameWindow(a, b),
         NEW oa \in 0..(a.operations - 1), NEW ob \in 0..(b.operations - 1),
         Place(a, oa) + 1 <= Place(b, ob)
  PROVE  Slot(a, oa) + RateLimit(a) <= Slot(b, ob)
<1>1. RateLimit(a) \in Nat /\ Place(a, oa) \in Int /\ Place(b, ob) \in Int
  BY PlaceInt, RateLimitNat
<1>. DEFINE r == RateLimit(a)  x == Place(a, oa)  y == Place(b, ob)
<1>2. Slot(a, oa) = r * x
  BY SlotIsPlace
<1>3. Slot(b, ob) = r * y
  BY SlotIsPlace DEF SameWindow
<1>. HIDE DEF r, x, y
<1>4. r \in Nat /\ x \in Int /\ y \in Int /\ x + 1 <= y
  BY <1>1 DEF r, x, y
<1>5. r * (x + 1) <= r * y
  BY <1>4, MulMonotonic
<1>6. r * (x + 1) = r * x + r
  BY <1>4, MulDistributes
<1>. QED
  BY <1>2, <1>3, <1>4, <1>5, <1>6 DEF r

\* Markets first, then replicas, then operations.
LEMMA PlacesDiffer ==
  ASSUME NEW a, NEW b, IsScheduler(a), IsScheduler(b), SameWindow(a, b),
         NEW oa \in 0..(a.operations - 1), NEW ob \in 0..(b.operations - 1),
         <<a.queuePosition, a.instancePosition, oa>> # <<b.queuePosition, b.instancePosition, ob>>
  PROVE  Place(a, oa) + 1 <= Place(b, ob) \/ Place(b, ob) + 1 <= Place(a, oa)
<1>. DEFINE p == a.replicaSize  n == a.operations
            qa == a.queuePosition  qb == b.queuePosition
            ia == a.instancePosition  ib == b.instancePosition
            ha == qa * p + ia  hb == qb * p + ib
<1>1. /\ p \in Nat \ {0} /\ n \in Nat \ {0} /\ qa \in Int /\ qb \in Int
      /\ ia \in 0..(p - 1) /\ ib \in 0..(p - 1)
      /\ oa \in 0..(n - 1) /\ ob \in 0..(n - 1)
      /\ qa # qb \/ ia # ib \/ oa # ob
  BY DEF IsScheduler, SameWindow
<1>2. Place(a, oa) = ha * n + oa /\ Place(b, ob) = hb * n + ob
  BY DEF Place, SameWindow
<1>. HIDE DEF p, n, qa, qb, ia, ib
<1>3. ha \in Int /\ hb \in Int
  BY <1>1
<1>4. CASE ha = hb /\ oa # ob
  BY <1>1, <1>2, <1>3, <1>4
<1>5. ha # hb \/ oa # ob
  <2>1. CASE qa < qb
    <3>1. qa * p + ia + 1 <= qb * p + ib
      BY <1>1, <2>1, DigitsApart
    <3>. QED
      BY <1>3, <3>1
  <2>2. CASE qb < qa
    <3>1. qb * p + ib + 1 <= qa * p + ia
      BY <1>1, <2>2, DigitsApart
    <3>. QED
      BY <1>3, <3>1
  <2>3. CASE qa = qb
    BY <1>1, <2>3
  <2>. QED
    BY <1>1, <2>1, <2>2, <2>3
<1>. HIDE DEF ha, hb
<1>6. CASE ha < hb
  BY <1>1, <1>2, <1>3, <1>6, DigitsApart
<1>7. CASE hb < ha
  BY <1>1, <1>2, <1>3, <1>7, DigitsApart
<1>. QED
  BY <1>3, <1>4, <1>5, <1>6, <1>7

\* Any two requests that replicas of an identity schedule in one interval are a
\* rate limit apart, for every number of markets, replicas and operations.
THEOREM SlotsApart ==
  ASSUME NEW a, NEW b, IsScheduler(a), IsScheduler(b), SameWindow(a, b),
         NEW oa \in 0..(a.operations - 1), NEW ob \in 0..(b.operations - 1),
         <<a.queuePosition, a.instancePosition, oa>> # <<b.queuePosition, b.instancePosition, ob>>
  PROVE  \/ Slot(a, oa) + RateLimit(a) <= Slot(b, ob)
         \/ Slot(b, ob) + RateLimit(b) <= Slot(a, oa)
<1>1. SameWindow(b, a)
  BY DEF SameWindow
<1>2. CASE Place(a, oa) + 1 <= Place(b, ob)
  BY <1>2, PlacesApart
<1>3. CASE Place(b, ob) + 1 <= Place(a, oa)
  BY <1>1, <1>3, PlacesApart
<1>. QED
  BY <1>2, <1>3, PlacesDiffer

\* The last slot ends before the window of the next identity begins: within what the
\* replicas of this one report and the gap after it.
THEOREM SlotsFit ==
  ASSUME NEW s, IsScheduler(s), NEW o \in 0..(s.operations - 1),
         s.clusterMembers[s.self] = IntervalSize(s) * s.replicaSize
  PROVE  /\ 0 <= Slot(s, o)
         /\ Slot(s, o) + RateLimit(s) <= s.clusterMembers[s.self] + IntraClusterDistance(s)
<1>. DEFINE r == RateLimit(s)  q == s.queuePosition  m == s.queueSize  p == s.replicaSize
            i == s.instancePosition  n == s.operations  h == q * p + i
            x == Place(s, o)  y == m * p * n
<1>1. /\ r \in Nat /\ m \in Nat \ {0} /\ p \in Nat \ {0} /\ n \in Nat \ {0}
      /\ q \in 0..(m - 1) /\ i \in 0..(p - 1) /\ o \in 0..(n - 1)
  BY RateLimitNat DEF IsScheduler
<1>2. x = h * n + o
  BY DEF Place
<1>3. Slot(s, o) = r * x
  BY SlotIsPlace
<1>4. r * (m * n * p) <= s.clusterMembers[s.self] + IntraClusterDistance(s)
  BY RateLimitNat
<1>. HIDE DEF r, q, m, p, i, n, x
<1>5. m * n * p = y
  BY <1>1
<1>6. h \in Nat /\ m * p \in Nat /\ y \in Nat
  BY <1>1
<1>7. h + 1 <= m * p + 0
  <2>1. 0 \in 0..(p - 1) /\ q < m
    BY <1>1
  <2>. QED
    BY <1>1, <2>1, DigitsApart
<1>. HIDE DEF h
<1>8. h * n + o + 1 <= (m * p) * n + 0
  <2>1. 0 \in 0..(n - 1) /\ h < m * p
    BY <1>1, <1>6, <1>7
  <2>. QED
    BY <1>1, <1>6, <2>1, DigitsApart
<1>9. x \in Nat /\ x + 1 <= y
  BY <1>1, <1>2, <1>6, <1>8
<1>. HIDE DEF y
<1>10. r * (x + 1) <= r * y
  BY <1>1, <1>6, <1>9, MulMonotonic
<1>11. r * (x + 1) = r * x + r
  BY <1>1, <1>9, MulDistributes
<1>12. 0 <= r * x /\ r * x + r <= r * y
  BY <1>1, <1>9, <1>10, <1>11
<1>13. s.clusterMembers[s.self] + IntraClusterDistance(s) \in Int
  BY DEF IsScheduler, IntervalSize, BaseRateLimit
<1>14. r * y <= s.clusterMembers[s.self] + IntraClusterDistance(s)
  BY <1>4, <1>5
<1>. QED
  BY <1>1, <1>3, <1>6, <1>9, <1>12, <1>13, <1>14 DEF r

-----------------------------------------------------------------------------
(* Ascending lists.                                                         *)

\* The elements of list have rising keys.
RisingKeys(list, key) == \A i, j \in DOMAIN list : i < j => key[list[i]] < key[list[j]]

LEMMA ExtendRising ==
  ASSUME NEW S, NEW key \in [S -> Nat], NEW k \in Nat,
         NEW list \in Seq(S), RisingKeys(list, key), \A e \in Elements(list) : key[e] < k,
         NEW part \in Seq(S), Len(part) <= 1, \A e \in Elements(part) : key[e] = k
  PROVE  /\ list \o part \in Seq(S) /\ RisingKeys(list \o part, key)
         /\ \A e \in Elements(list \o part) : key[e] < k + 1
<1> DEFINE c == list \o part
<1>1. /\ c \in Seq(S)
      /\ Len(list) \in Nat /\ Len(part) \in Nat /\ Len(c) = Len(list) + Len(part)
      /\ DOMAIN list = 1..Len(list) /\ DOMAIN part = 1..Len(part) /\ DOMAIN c = 1..Len(c)
      /\ \A i \in 1..Len(c) : c[i] = IF i <= Len(list) THEN list[i] ELSE part[i - Len(list)]
  OBVIOUS
<1> HIDE DEF c
<1>2. ASSUME NEW i \in DOMAIN c, i <= Len(list)
      PROVE  i \in DOMAIN list /\ c[i] = list[i] /\ key[c[i]] < k /\ key[c[i]] \in Nat
  <2>1. i \in DOMAIN list /\ c[i] = list[i]
    BY <1>1, <1>2
  <2>2. c[i] \in Elements(list) /\ list[i] \in S
    BY <1>1, <2>1 DEF Elements
  <2> QED BY <2>1, <2>2
<1>3. ASSUME NEW i \in DOMAIN c, ~(i <= Len(list))
      PROVE  i = Len(list) + 1 /\ key[c[i]] = k
  <2>1. i = Len(list) + 1 /\ 1 \in DOMAIN part /\ c[i] = part[i - Len(list)]
    BY <1>1, <1>3
  <2>2. i - Len(list) = 1
    BY <1>1, <2>1
  <2>3. c[i] \in Elements(part)
    BY <2>1, <2>2 DEF Elements
  <2> QED BY <2>1, <2>3
<1>4. \A e \in Elements(c) : key[e] < k + 1
  <2>1. \A i \in DOMAIN c : key[c[i]] \in Nat /\ (key[c[i]] < k \/ key[c[i]] = k)
    BY <1>2, <1>3
  <2> QED BY <2>1 DEF Elements
<1>5. ASSUME NEW i \in DOMAIN c, NEW j \in DOMAIN c, i < j PROVE key[c[i]] < key[c[j]]
  <2>1. CASE j <= Len(list)
    <3>1. i <= Len(list)
      BY <1>1, <1>5, <2>1
    <3> QED BY <1>2, <1>5, <2>1, <3>1 DEF RisingKeys
  <2>2. CASE ~(j <= Len(list))
    <3>1. i <= Len(list)
      BY <1>1, <1>3, <1>5, <2>2
    <3> QED BY <1>2, <1>3, <2>2, <3>1
  <2> QED BY <2>1, <2>2
<1> QED BY <1>1, <1>4, <1>5 DEF c, RisingKeys

\* Of lists in a row with at most one element each, the k-th one with key k.
LEMMA FlattenRising ==
  ASSUME NEW S, NEW key \in [S -> Nat], NEW n \in Nat, NEW seqs \in [1..n -> Seq(S)],
         \A k \in 1..n : Len(seqs[k]) <= 1 /\ \A e \in Elements(seqs[k]) : key[e] = k
  PROVE  RisingKeys(FlattenSeq(seqs), key)
<1>1. seqs \in Seq(Seq(S)) /\ Len(seqs) = n
  BY SeqDef
<1>2. CASE n = 0
  <2>1. FlattenSeq(seqs) = seqs /\ DOMAIN seqs = {}
    BY <1>1, <1>2 DEF FlattenSeq
  <2> QED BY <2>1 DEF RisingKeys
<1>3. CASE n # 0
  <2>1. PICK f : Flattens(f, seqs, n) /\ FlattenSeq(seqs) = f[n]
    BY <1>1, <1>3, FlattenDef
  <2> DEFINE Right(k) == /\ f[k] \in Seq(S) /\ RisingKeys(f[k], key)
                         /\ \A e \in Elements(f[k]) : key[e] < k + 1
             wrong == {k \in 1..n : ~Right(k)}
  <2>2. ASSUME NEW k \in 1..n, k # 1 => Right(k - 1)
        PROVE  Right(k)
    <3>1. f[k] = IF k = 1 THEN seqs[k] ELSE f[k-1] \o seqs[k]
      BY <2>1 DEF Flattens
    <3>2. seqs[k] \in Seq(S) /\ Len(seqs[k]) <= 1 /\ \A e \in Elements(seqs[k]) : key[e] = k
      OBVIOUS
    <3>3. PICK part : part = seqs[k]
      OBVIOUS
    <3>4. PICK list \in Seq(S) : /\ RisingKeys(list, key) /\ \A e \in Elements(list) : key[e] < k
                                 /\ f[k] = list \o part
      <4>1. CASE k = 1
        <5>1. <<>> \in Seq(S) /\ RisingKeys(<<>>, key) /\ \A e \in Elements(<<>>) : key[e] < k
          BY ElementsEmpty DEF RisingKeys
        <5>2. f[k] = <<>> \o part
          BY <3>1, <3>2, <3>3, <4>1
        <5> QED BY <5>1, <5>2
      <4>2. CASE k # 1
        <5>1. f[k] = f[k-1] \o part
          BY <3>1, <3>3, <4>2
        <5>2. /\ f[k-1] \in Seq(S) /\ RisingKeys(f[k-1], key)
              /\ \A e \in Elements(f[k-1]) : key[e] < k
          BY <2>2, <4>2
        <5> QED BY <5>1, <5>2
      <4> QED BY <4>1, <4>2
    <3>5. part \in Seq(S) /\ Len(part) <= 1 /\ \A e \in Elements(part) : key[e] = k
      BY <3>2, <3>3
    <3>6. k \in Nat
      OBVIOUS
    <3>7. /\ list \o part \in Seq(S) /\ RisingKeys(list \o part, key)
          /\ \A e \in Elements(list \o part) : key[e] < k + 1
      BY ONLY <3>4, <3>5, <3>6, key \in [S -> Nat], ExtendRising
    <3> QED BY <3>4, <3>7
  <2> HIDE DEF Right
  <2>3. wrong = {}
    <3> SUFFICES ASSUME wrong # {} PROVE FALSE
      OBVIOUS
    <3>1. wrong \in SUBSET Nat
      OBVIOUS
    <3>2. PICK k \in wrong : \A j \in wrong : k <= j
      BY <3>1, LeastNatural
    <3>3. k \in 1..n /\ ~Right(k)
      OBVIOUS
    <3>4. ASSUME k # 1 PROVE Right(k - 1)
      <4>1. k - 1 \in 1..n /\ ~(k <= k - 1)
        BY <3>3, <3>4
      <4> QED BY <3>2, <4>1
    <3> QED BY <2>2, <3>3, <3>4
  <2>4. Right(n)
    BY <1>3, <2>3
  <2> QED BY <2>1, <2>4 DEF Right
<1> QED BY <1>2, <1>3

\* No two messages of a window are of the same replica.
OneEach(messages) == \A i, j \in DOMAIN messages : messages[i].from = messages[j].from => i = j

Senders(messages) == {m.from : m \in Elements(messages)}

\* The addresses in a list of either kind, and whose they may be.
Key(l, list) == IF l = "replicaMembers" THEN list ELSE [i \in DOMAIN list |-> list[i].address]
Names(l, list) == Elements(Key(l, list))
Scope(r, l) == IF l = "replicaMembers" THEN Peers(r) ELSE Replicas

Ascending(list) == \A i, j \in DOMAIN list : i < j => list[i] < list[j]
Sorted(l, list) == Key(l, list) \in Seq(Replicas) /\ Ascending(Key(l, list))

LEMMA KeysOf ==
  ASSUME NEW list
  PROVE  /\ Key("replicaMembers", list) = list /\ Names("replicaMembers", list) = Elements(list)
         /\ Key("clusterMembers", list) = [i \in DOMAIN list |-> list[i].address]
         /\ Names("clusterMembers", list) = {m.address : m \in Elements(list)}
BY DEF Key, Names, Elements

\* A window has at most one status of a replica.
LEMMA OneStatusOf ==
  ASSUME NEW statuses, IsSeq(statuses), OneEach(statuses), NEW a, NEW those,
         NEW own, own = FlattenSeq([i \in DOMAIN statuses |->
                          IF statuses[i].from = a /\ a \in those THEN <<statuses[i]>> ELSE <<>>])
  PROVE  Len(own) <= 1
<1>1. IsSeq(own) /\ Elements(own) = {m \in Elements(statuses) : m.from = a /\ a \in those}
  BY StatusesOf
<1> DEFINE S == Elements(statuses)
           place(m) == CHOOSE i \in DOMAIN statuses : statuses[i] = m
           key == [m \in S |-> place(m)]
           parts == [i \in DOMAIN statuses |->
                       IF statuses[i].from = a /\ a \in those THEN <<statuses[i]>> ELSE <<>>]
<1>2. PICK n \in Nat : DOMAIN statuses = 1..n
  BY DEF IsSeq
<1>3. \A i \in 1..n : statuses[i] \in S
  BY <1>2 DEF Elements
<1>4. ASSUME NEW m \in S PROVE place(m) \in 1..n /\ statuses[place(m)] = m
  BY <1>2 DEF Elements
<1>5. key \in [S -> Nat]
  BY <1>4
<1>6. \A i \in 1..n : key[statuses[i]] = i
  <2> TAKE i \in 1..n
  <2>1. place(statuses[i]) \in 1..n /\ statuses[place(statuses[i])] = statuses[i]
    BY <1>3, <1>4
  <2> HIDE DEF place
  <2>2. place(statuses[i]) = i
    BY <1>2, <2>1 DEF OneEach
  <2> QED BY <1>3, <2>2
<1> HIDE DEF S, key
<1>7. parts \in [1..n -> Seq(S)]
  BY <1>2, <1>3
<1>8. ASSUME NEW k \in 1..n
      PROVE  Len(parts[k]) <= 1 /\ \A e \in Elements(parts[k]) : key[e] = k
  <2>1. PICK m, part : m = statuses[k] /\ part = parts[k]
    OBVIOUS
  <2>2. part = <<m>> \/ part = <<>>
    BY <1>2, <2>1
  <2>3. Elements(<<m>>) = {m} /\ Elements(<<>>) = {} /\ Len(<<m>>) = 1 /\ Len(<<>>) = 0
    BY DEF Elements
  <2>4. key[m] = k
    BY <1>6, <2>1
  <2>5. Len(part) <= 1 /\ \A e \in Elements(part) : key[e] = k
    <3> HIDE DEF parts, place
    <3>1. CASE part = <<m>>
      BY <2>3, <2>4, <3>1
    <3>2. CASE part = <<>>
      BY <2>3, <3>2
    <3> QED BY <2>2, <3>1, <3>2
  <2> QED BY <2>1, <2>5
<1> HIDE DEF parts
<1>9. RisingKeys(FlattenSeq(parts), key)
  BY <1>5, <1>7, <1>8, FlattenRising
<1>10. own = FlattenSeq(parts)
  BY DEF parts
<1>11. own \in Seq(Elements(own))
  BY <1>1 DEF IsSeq, Elements
<1>12. SUFFICES ASSUME ~(Len(own) <= 1) PROVE FALSE
  OBVIOUS
<1>13. 1 \in DOMAIN own /\ 2 \in DOMAIN own
  BY <1>11, <1>12
<1>14. own[1] \in Elements(own) /\ own[2] \in Elements(own)
  BY <1>13 DEF Elements
<1>15. own[1] = own[2]
  <2>1. PICK i \in DOMAIN statuses : statuses[i] = own[1]
    BY <1>1, <1>14 DEF Elements
  <2>2. PICK j \in DOMAIN statuses : statuses[j] = own[2]
    BY <1>1, <1>14 DEF Elements
  <2> QED BY <1>1, <1>14, <2>1, <2>2 DEF OneEach
<1>16. key[own[1]] \in Nat
  BY <1>5, <1>1, <1>14 DEF S
<1> QED BY <1>9, <1>10, <1>13, <1>15, <1>16 DEF RisingKeys

\* What a round makes of one status each.
LEMMA AggregatedSorted ==
  ASSUME NEW r \in Replicas, NEW statuses, IsSeq(statuses), OneEach(statuses),
         Senders(statuses) \subseteq Replicas,
         NEW state, state = AggregateState(r, statuses), NEW l \in Lists
  PROVE  Sorted(l, state[l]) /\ Names(l, state[l]) = Senders(statuses) \cap Scope(r, l)
<1>1. CASE l = "replicaMembers"
  <2> DEFINE own(a) == Filter(statuses, LAMBDA m : m.from = a /\ a \in Peers(r))
             part(a) == [i \in DOMAIN own(a) |-> a]
             parts == [a \in 1..N |-> part(a)]
             key == [a \in Replicas |-> a]
  <2>1. AggregateReplicaMembers(r, statuses) = FlattenSeq(parts)
    BY DEF AggregateReplicaMembers, Replicas
  <2>2. ASSUME NEW a \in 1..N
        PROVE  /\ part(a) \in Seq(Replicas) /\ Len(part(a)) <= 1
               /\ \A e \in Elements(part(a)) : key[e] = a
    <3>1. a \in Replicas
      BY DEF Replicas
    <3>2. own(a) = FlattenSeq([i \in DOMAIN statuses |->
                     IF statuses[i].from = a /\ a \in Peers(r) THEN <<statuses[i]>> ELSE <<>>])
      BY DEF Filter
    <3> HIDE DEF own
    <3>3. Len(own(a)) <= 1
      BY <3>2, OneStatusOf
    <3>4. IsSeq(own(a))
      BY <3>2, StatusesOf
    <3>5. PICK n \in Nat : DOMAIN own(a) = 1..n /\ n <= 1
      BY <3>3, <3>4 DEF IsSeq
    <3>6. part(a) \in [1..n -> Replicas]
      BY <3>1, <3>5
    <3>7. part(a) \in Seq(Replicas) /\ Len(part(a)) = n
      BY <3>6, SeqDef
    <3>8. \A e \in Elements(part(a)) : e = a
      BY DEF Elements
    <3> QED BY <3>1, <3>5, <3>7, <3>8
  <2> HIDE DEF part
  <2>3. parts \in [1..N -> Seq(Replicas)] /\ N \in Nat
    BY <2>2, NAssumption
  <2>4. \A k \in 1..N : Len(parts[k]) <= 1 /\ \A e \in Elements(parts[k]) : key[e] = k
    BY <2>2
  <2>5. key \in [Replicas -> Nat]
    BY DEF Replicas
  <2> HIDE DEF parts, key
  <2>6. RisingKeys(FlattenSeq(parts), key)
    BY <2>3, <2>4, <2>5, FlattenRising
  <2>7. PICK list : list = AggregateReplicaMembers(r, statuses)
    OBVIOUS
  <2>8. list \in Seq(Replicas) /\ Elements(list) = {a \in Peers(r) : \E m \in Elements(statuses) : m.from = a}
    BY <2>7, AggregatedReplicas
  <2>9. Ascending(list)
    <3>1. RisingKeys(list, key)
      BY <2>1, <2>6, <2>7
    <3>2. \A i \in DOMAIN list : key[list[i]] = list[i]
      BY <2>8 DEF key
    <3> QED BY <3>1, <3>2 DEF RisingKeys, Ascending
  <2>10. state[l] = list
    BY <1>1, <2>7 DEF AggregateState
  <2> QED BY <1>1, <2>8, <2>9, <2>10, KeysOf DEF Sorted, Scope, Senders
<1>2. CASE l = "clusterMembers"
  <2> DEFINE sent(a) == Filter(statuses, LAMBDA m : m.from = a)
             part(a) == [i \in DOMAIN sent(a) |-> [address |-> a, interval |-> sent(a)[i].interval]]
             parts == [a \in 1..N |-> part(a)]
             S == Reported(statuses)
             key == [e \in S |-> e.address]
  <2>1. AggregateClusterMembers(statuses) = FlattenSeq(parts)
    BY DEF AggregateClusterMembers, Replicas
  <2>2. ASSUME NEW a \in 1..N
        PROVE  /\ part(a) \in Seq(S) /\ Len(part(a)) <= 1
               /\ \A e \in Elements(part(a)) : key[e] = a
    <3>1. a \in Replicas
      BY DEF Replicas
    <3>2. PICK own : own = FlattenSeq([i \in DOMAIN statuses |->
                       IF statuses[i].from = a /\ a \in Replicas THEN <<statuses[i]>> ELSE <<>>])
      OBVIOUS
    <3>3. sent(a) = own
      BY <3>1, <3>2 DEF Filter
    <3>4. Len(own) <= 1
      BY ONLY <3>2, IsSeq(statuses), OneEach(statuses), OneStatusOf
    <3>5. IsSeq(own) /\ Elements(own) = {m \in Elements(statuses) : m.from = a /\ a \in Replicas}
      BY ONLY <3>2, IsSeq(statuses), StatusesOf
    <3> HIDE DEF sent
    <3>6. PICK n \in Nat : DOMAIN sent(a) = 1..n /\ n <= 1
      BY <3>3, <3>4, <3>5 DEF IsSeq
    <3>7. \A i \in 1..n : sent(a)[i] \in Elements(statuses)
      BY <3>3, <3>5, <3>6 DEF Elements
    <3>8. \A i \in 1..n : part(a)[i] \in S /\ part(a)[i].address = a
      BY <3>6, <3>7 DEF Reported
    <3>9. part(a) \in [1..n -> S]
      <4> HIDE DEF S
      <4> QED BY <3>6, <3>8
    <3>10. \A e \in Elements(part(a)) : e \in S /\ e.address = a
      <4>1. DOMAIN part(a) = 1..n
        BY <3>6
      <4> HIDE DEF part, S
      <4> QED BY <3>8, <4>1 DEF Elements
    <3> HIDE DEF S, parts, part
    <3>11. part(a) \in Seq(S) /\ Len(part(a)) = n
      BY <3>9, SeqDef
    <3> QED BY <3>6, <3>10, <3>11
  <2>3. key \in [S -> Nat]
    BY DEF Reported
  <2> HIDE DEF part, S, key
  <2>4. parts \in [1..N -> Seq(S)] /\ N \in Nat
    BY <2>2, NAssumption
  <2>5. \A k \in 1..N : Len(parts[k]) <= 1 /\ \A e \in Elements(parts[k]) : key[e] = k
    BY <2>2
  <2> HIDE DEF parts
  <2>6. RisingKeys(FlattenSeq(parts), key)
    BY <2>3, <2>4, <2>5, FlattenRising
  <2>7. PICK list : list = AggregateClusterMembers(statuses)
    OBVIOUS
  <2>8. /\ list \in Seq(S) /\ IsSeq(list)
        /\ {c.address : c \in Elements(list)} = {a \in Replicas : \E m \in Elements(statuses) : m.from = a}
    BY <2>7, AggregatedCluster DEF S
  <2>9. PICK n \in Nat : DOMAIN list = 1..n
    BY <2>8
  <2>10. \A i \in 1..n : list[i] \in S /\ list[i].address \in Replicas /\ key[list[i]] = list[i].address
    <3>1. \A i \in 1..n : list[i] \in S /\ list[i] \in Elements(list)
      BY <2>8, <2>9 DEF Elements
    <3> QED BY <2>8, <3>1 DEF key
  <2>11. PICK keys : keys = [i \in DOMAIN list |-> list[i].address]
    OBVIOUS
  <2>12. keys \in [1..n -> Replicas]
    BY <2>9, <2>10, <2>11
  <2>13. keys \in Seq(Replicas)
    BY <2>12, SeqDef
  <2>14. Ascending(keys)
    <3>1. list = FlattenSeq(parts)
      BY <2>1, <2>7
    <3>2. \A i, j \in 1..n : i < j => key[list[i]] < key[list[j]]
      BY <2>6, <2>9, <3>1 DEF RisingKeys
    <3>3. \A i \in 1..n : keys[i] = key[list[i]]
      BY <2>9, <2>10, <2>11
    <3> QED BY <2>12, <3>2, <3>3 DEF Ascending
  <2>15. state[l] = list
    BY <1>2, <2>7 DEF AggregateState
  <2>16. Names(l, list) = Senders(statuses)
    BY <1>2, <2>8, KeysOf DEF Senders
  <2> QED BY <1>2, <2>11, <2>13, <2>14, <2>15, <2>16, KeysOf DEF Sorted, Scope
<1> QED BY <1>1, <1>2 DEF Lists

\* Everybody in the lists of a state, and whether these are what replica s
\* would make of it.
All(state) == Names("clusterMembers", state.clusterMembers)
Consistent(s, state) == \A l \in Lists : /\ Sorted(l, state[l])
                                         /\ Names(l, state[l]) = All(state) \cap Scope(s, l)

\* Whom a window of shares offers r for its list l.
Offered(r, l, shares) ==
  IF l = "replicaMembers"
  THEN LET last == LastReplicaMembers(r, shares) IN IF last = Null THEN {} ELSE Elements(last)
  ELSE UNION {All(m) : m \in Elements(shares)}

\* The shares of a window.
Window(shares) ==
  /\ IsSeq(shares)
  /\ \A m \in Elements(shares) : /\ m.from \in Replicas
                                 /\ m.clusterMembers \in Seq(Entry({1})) /\ Consistent(m.from, m)

LEMMA ConsistentLists ==
  ASSUME NEW s, NEW state, Consistent(s, state)
  PROVE  /\ state.replicaMembers \in Seq(Replicas) /\ Ascending(state.replicaMembers)
         /\ Elements(state.replicaMembers) = All(state) \cap Peers(s)
         /\ Sorted("clusterMembers", state.clusterMembers)
BY KeysOf DEF Consistent, Sorted, Scope, Lists

\* The last of the peers of r, if there is one.
LEMMA LastShare ==
  ASSUME NEW r, NEW shares, IsSeq(shares)
  PROVE  LET own == {i \in DOMAIN shares : shares[i].from \in Peers(r)}
         IN  own # {} => Max(own) \in own /\ \A i \in own : Max(own) >= i
<1> DEFINE own == {i \in DOMAIN shares : shares[i].from \in Peers(r)}
<1>1. PICK n \in Nat : DOMAIN shares = 1..n
  BY DEF IsSeq
<1>2. own \in SUBSET 0..n
  BY <1>1
<1> HIDE DEF own
<1>3. own # {} => Max(own) \in own /\ \A i \in own : Max(own) >= i
  BY <1>2, GreatestNatural
<1> QED BY <1>3 DEF own

\* A share more: of a peer it replaces the list of the replicas.
LEMMA OfferedAppend ==
  ASSUME NEW r, NEW shares, IsSeq(shares), NEW m, Consistent(m.from, m), NEW l \in Lists
  PROVE  /\ m.from \notin Scope(r, l) /\ m.from \in Replicas =>
              Offered(r, l, Append(shares, m)) = Offered(r, l, shares)
         /\ m.from \in Scope(r, l) => Names(l, m[l]) \subseteq Offered(r, l, Append(shares, m))
<1>1. PICK more : more = Append(shares, m)
  OBVIOUS
<1>2. /\ IsSeq(more) /\ Len(shares) \in Nat /\ DOMAIN shares = 1..Len(shares)
      /\ DOMAIN more = DOMAIN shares \cup {Len(shares) + 1} /\ Len(shares) + 1 \notin DOMAIN shares
      /\ \A i \in DOMAIN shares : more[i] = shares[i]
      /\ more[Len(shares) + 1] = m
  BY <1>1, AppendElements
<1>3. CASE l = "replicaMembers"
  <2> DEFINE own == {i \in DOMAIN shares : shares[i].from \in Peers(r)}
             now == {i \in DOMAIN more : more[i].from \in Peers(r)}
  <2>1. own # {} => Max(own) \in own
    BY LastShare
  <2>2. now # {} => Max(now) \in now /\ \A i \in now : Max(now) >= i
    BY <1>2, LastShare
  <2>3. /\ LastReplicaMembers(r, shares) = IF own = {} THEN Null ELSE shares[Max(own)].replicaMembers
        /\ LastReplicaMembers(r, more) = IF now = {} THEN Null ELSE more[Max(now)].replicaMembers
    BY DEF LastReplicaMembers
  <2> HIDE DEF own, now
  <2>4. ASSUME m.from \notin Peers(r)
        PROVE  LastReplicaMembers(r, more) = LastReplicaMembers(r, shares)
    <3>1. now = own
      BY <1>2, <2>4 DEF own, now
    <3>2. own # {} => more[Max(own)] = shares[Max(own)]
      BY <1>2, <2>1 DEF own
    <3> QED BY <2>3, <3>1, <3>2
  <2>5. ASSUME m.from \in Peers(r)
        PROVE  LastReplicaMembers(r, more) = m.replicaMembers
    <3>1. Len(shares) + 1 \in now
      BY <1>2, <2>5 DEF now
    <3>2. Max(now) \in DOMAIN more /\ Max(now) >= Len(shares) + 1
      BY <2>2, <3>1 DEF now
    <3>3. Max(now) = Len(shares) + 1
      BY <1>2, <3>2
    <3> QED BY <1>2, <2>3, <3>1, <3>3
  <2>6. m.replicaMembers # Null
    BY ConsistentLists, NullAssumption
  <2> QED BY <1>1, <1>3, <2>4, <2>5, <2>6, KeysOf DEF Offered, Scope
<1>4. CASE l = "clusterMembers"
  <2>1. Elements(more) = Elements(shares) \cup {m}
    BY <1>1, ElementsAppend
  <2>2. Offered(r, l, more) = UNION {All(s) : s \in Elements(more)}
    BY <1>4 DEF Offered
  <2>3. All(m) \subseteq Offered(r, l, more)
    BY <2>1, <2>2
  <2> QED BY <1>1, <1>4, <2>3 DEF Scope, All
<1> QED BY <1>3, <1>4 DEF Lists

\* What the shares of a window say of the cluster, in order.
LEMMA UniqueSorted ==
  ASSUME NEW shares, Window(shares), NEW cluster, cluster = UniqueClusterMembers(shares)
  PROVE  /\ cluster \in Seq(Entry({1})) /\ Sorted("clusterMembers", cluster)
         /\ Names("clusterMembers", cluster) = UNION {All(m) : m \in Elements(shares)}
<1> DEFINE member(a) == shares[ChosenMention(a, shares)[1]].clusterMembers[ChosenMention(a, shares)[2]]
           part(a) == IF Mentions(a, shares) = {} THEN <<>> ELSE <<member(a)>>
           parts == [a \in 1..N |-> part(a)]
           S == Entry({1})
           key == [e \in S |-> e.address]
<1>1. cluster = FlattenSeq(parts)
  BY DEF UniqueClusterMembers, Replicas
<1>2. Shares(shares)
  <2>1. \A m \in Elements(shares) : IsSeq(m.clusterMembers)
    BY SeqIsSeq DEF Window
  <2> QED BY <2>1 DEF Window, Shares
<1>3. ASSUME NEW a, Mentions(a, shares) # {}
      PROVE  member(a) \in S /\ member(a).address = a
  <2>1. PICK p : p = ChosenMention(a, shares)
    OBVIOUS
  <2>2. p \in Mentions(a, shares)
    BY <1>2, <1>3, <2>1, ChosenIsMention
  <2>3. /\ p[1] \in DOMAIN shares /\ p[2] \in DOMAIN shares[p[1]].clusterMembers
        /\ shares[p[1]].clusterMembers[p[2]].address = a
    BY <1>2, <2>2, MentionBounds
  <2>4. shares[p[1]] \in Elements(shares)
    BY <2>3 DEF Elements
  <2>5. shares[p[1]].clusterMembers \in Seq(Entry({1}))
    BY <2>4 DEF Window
  <2>6. shares[p[1]].clusterMembers[p[2]] \in Entry({1})
    BY <2>3, <2>5
  <2> QED BY <2>1, <2>3, <2>6
<1>4. \A a : Mentions(a, shares) # {} <=> a \in UNION {All(m) : m \in Elements(shares)}
  <2> TAKE a
  <2>1. ASSUME NEW p \in Mentions(a, shares) PROVE a \in UNION {All(m) : m \in Elements(shares)}
    <3>1. /\ p[1] \in DOMAIN shares /\ p[2] \in DOMAIN shares[p[1]].clusterMembers
          /\ shares[p[1]].clusterMembers[p[2]].address = a
      BY <1>2, <2>1, MentionBounds
    <3>2. PICK m \in Elements(shares) : m = shares[p[1]]
      BY <3>1 DEF Elements
    <3>3. m.clusterMembers[p[2]] \in Elements(m.clusterMembers)
      BY <3>1, <3>2 DEF Elements
    <3>4. a \in All(m)
      BY <3>1, <3>2, <3>3, KeysOf DEF All
    <3> QED BY <3>2, <3>4
  <2>2. ASSUME NEW m \in Elements(shares), a \in All(m) PROVE Mentions(a, shares) # {}
    <3>1. PICK i \in DOMAIN shares : shares[i] = m
      BY DEF Elements
    <3>2. PICK j \in DOMAIN m.clusterMembers : m.clusterMembers[j].address = a
      BY <2>2, KeysOf DEF All, Elements
    <3>3. <<i, j>> \in Mentions(a, shares)
      BY <3>1, <3>2, MentionPlaces
    <3> QED BY <3>3
  <2> QED BY <2>1, <2>2
<1>5. key \in [S -> Nat]
  BY DEF Entry, Replicas
<1> HIDE DEF member
<1>6. ASSUME NEW a \in 1..N
      PROVE  /\ part(a) \in Seq(S) /\ Len(part(a)) <= 1
             /\ \A e \in Elements(part(a)) : key[e] = a
             /\ \A e \in Elements(part(a)) : e.address = a /\ Mentions(a, shares) # {}
             /\ Mentions(a, shares) # {} => \E e \in Elements(part(a)) : e.address = a
  <2>1. CASE Mentions(a, shares) = {}
    <3>1. PICK p : p = part(a) /\ p = <<>>
      BY <2>1
    <3>2. Elements(p) = {} /\ Len(p) = 0
      BY <3>1 DEF Elements
    <3> HIDE DEF part, key, S
    <3>3. p \in Seq(S)
      BY <3>1
    <3> QED BY <2>1, <3>1, <3>2, <3>3
  <2>2. CASE Mentions(a, shares) # {}
    <3>1. PICK e \in S : e = member(a) /\ e.address = a
      BY <1>3, <2>2
    <3>2. PICK p : p = part(a) /\ p = <<e>>
      BY <2>2, <3>1
    <3>3. Elements(p) = {e} /\ Len(p) = 1
      BY <3>2 DEF Elements
    <3>4. key[e] = a
      BY <3>1
    <3> HIDE DEF part, key, S
    <3>5. p \in Seq(S)
      BY <3>2
    <3> QED BY <2>2, <3>1, <3>2, <3>3, <3>4, <3>5
  <2> QED BY <2>1, <2>2
<1> HIDE DEF part, key, S
<1>7. parts \in [1..N -> Seq(S)] /\ N \in Nat
  BY <1>6, NAssumption
<1>8. \A k \in 1..N : Len(parts[k]) <= 1 /\ \A e \in Elements(parts[k]) : key[e] = k
  BY <1>6
<1>9. cluster \in Seq(S) /\ Gathers(cluster, parts, N)
  BY <1>1, <1>7, FlattenElements
<1>10. Elements(cluster) = UNION {Elements(part(a)) : a \in 1..N}
  BY <1>9 DEF Gathers
<1> HIDE DEF parts
<1>11. RisingKeys(cluster, key)
  BY <1>1, <1>5, <1>7, <1>8, FlattenRising
<1>12. {e.address : e \in Elements(cluster)} = {a \in 1..N : Mentions(a, shares) # {}}
  <2>1. \A a \in 1..N : \A e \in Elements(part(a)) : e.address = a /\ Mentions(a, shares) # {}
    BY <1>6
  <2>2. \A a \in 1..N : Mentions(a, shares) # {} => \E e \in Elements(part(a)) : e.address = a
    BY <1>6
  <2> QED BY <1>10, <2>1, <2>2
<1>13. UNION {All(m) : m \in Elements(shares)} \subseteq 1..N
  <2>1. ASSUME NEW m \in Elements(shares) PROVE All(m) \subseteq 1..N
    <3>1. Sorted("clusterMembers", m.clusterMembers)
      BY ConsistentLists DEF Window
    <3>2. PICK keys \in Seq(Replicas) : keys = Key("clusterMembers", m.clusterMembers)
      BY <3>1 DEF Sorted
    <3>3. Elements(keys) \subseteq Replicas
      BY DEF Elements
    <3> QED BY <3>2, <3>3 DEF All, Names, Replicas
  <2> QED BY <2>1
<1>14. Names("clusterMembers", cluster) = UNION {All(m) : m \in Elements(shares)}
  BY <1>4, <1>12, <1>13, KeysOf
<1>15. PICK n \in Nat : DOMAIN cluster = 1..n
  BY <1>9
<1> DEFINE keys == [i \in DOMAIN cluster |-> cluster[i].address]
<1>16. \A i \in 1..n : /\ cluster[i] \in S /\ key[cluster[i]] = cluster[i].address
                      /\ cluster[i].address \in Replicas
  <2>1. \A i \in 1..n : cluster[i] \in S
    BY <1>9, <1>15
  <2>2. \A e \in S : key[e] = e.address /\ e.address \in Replicas
    BY DEF S, key, Entry
  <2> QED BY <2>1, <2>2
<1>17. keys \in [1..n -> Replicas] /\ \A i \in 1..n : keys[i] = key[cluster[i]]
  BY <1>15, <1>16
<1>18. Key("clusterMembers", cluster) = keys
  BY KeysOf
<1> HIDE DEF keys
<1>19. keys \in Seq(Replicas)
  BY <1>17, SeqDef
<1>20. Ascending(keys)
  BY <1>11, <1>15, <1>17 DEF Ascending, RisingKeys
<1>21. Sorted("clusterMembers", cluster)
  BY <1>19, <1>20, <1>18 DEF Sorted
<1> QED BY <1>9, <1>14, <1>21 DEF S

\* What r adopts of a window of shares: what they offer, if that includes r.
LEMMA SharedSorted ==
  ASSUME NEW r \in Replicas, NEW shares, Window(shares), NEW mult,
         NEW state, state = ShareState(r, shares, mult), NEW l \in Lists
  PROVE  /\ r \notin Offered(r, l, shares) => state[l] = Null
         /\ r \in Offered(r, l, shares) =>
              /\ state[l] # Null /\ Sorted(l, state[l])
              /\ Names(l, state[l]) = Offered(r, l, shares)
              /\ l = "clusterMembers" => state[l] \in Seq(Entry({1}))
<1>1. CASE l = "replicaMembers"
  <2>1. PICK last : last = LastReplicaMembers(r, shares)
    OBVIOUS
  <2>2. state[l] = IF last # Null /\ (\E i \in DOMAIN last : last[i] = r) THEN last ELSE Null
    BY <1>1, <2>1 DEF ShareState
  <2>3. Offered(r, l, shares) = IF last = Null THEN {} ELSE Elements(last)
    BY <1>1, <2>1 DEF Offered
  <2>4. ASSUME last # Null PROVE Sorted(l, last)
    <3> DEFINE own == {i \in DOMAIN shares : shares[i].from \in Peers(r)}
    <3>1. own # {} /\ last = shares[Max(own)].replicaMembers
      BY <2>1, <2>4 DEF LastReplicaMembers
    <3>2. IsSeq(shares)
      BY DEF Window
    <3>3. Max(own) \in own
      BY <3>1, <3>2, LastShare
    <3>4. shares[Max(own)] \in Elements(shares)
      BY <3>3 DEF Elements
    <3>5. PICK m \in Elements(shares) : m = shares[Max(own)]
      BY <3>4
    <3>6. Consistent(m.from, m)
      BY DEF Window
    <3> QED BY <1>1, <3>1, <3>5, <3>6 DEF Consistent
  <2>5. r \in Elements(last) <=> \E i \in DOMAIN last : last[i] = r
    BY DEF Elements
  <2>6. Names(l, last) = Elements(last)
    BY <1>1, KeysOf
  <2> QED BY <1>1, <2>2, <2>3, <2>4, <2>5, <2>6
<1>2. CASE l = "clusterMembers"
  <2>1. PICK cluster : cluster = UniqueClusterMembers(shares)
    OBVIOUS
  <2>2. /\ cluster \in Seq(Entry({1})) /\ Sorted(l, cluster)
        /\ Names(l, cluster) = UNION {All(m) : m \in Elements(shares)}
    BY <1>2, <2>1, UniqueSorted
  <2>3. state[l] = IF \E i \in DOMAIN cluster : cluster[i].address = r THEN cluster ELSE Null
    BY <1>2, <2>1 DEF ShareState
  <2>4. r \in Names(l, cluster) <=> \E i \in DOMAIN cluster : cluster[i].address = r
    BY <1>2, KeysOf DEF Elements
  <2>5. cluster # Null
    <3>1. Entry({1}) \subseteq [address : Replicas, interval : Int]
      BY DEF Entry
    <3>2. cluster \in Seq([address : Replicas, interval : Int])
      BY <2>2, <3>1, SeqMonotonic
    <3> QED BY <3>2, NullAssumption
  <2>6. Offered(r, l, shares) = Names(l, cluster)
    BY <1>2, <2>2 DEF Offered
  <2> QED BY <2>2, <2>3, <2>4, <2>5, <2>6
<1> QED BY <1>1, <1>2 DEF Lists

-----------------------------------------------------------------------------
(* What is counted in them.                                                 *)

\* How many replicas of each identity there are in A, and whether a config says
\* so: of the replicas of its own, and of the whole cluster.
Census(A) == [id \in {Identity[p] : p \in A} |-> Cardinality({p \in A : Identity[p] = id})]
Says(config, r, l, A) ==
  IF l = "replicaMembers"
  THEN /\ config.replicaSize = Cardinality(A)
       /\ config.instancePosition = Cardinality({p \in A : p < r})
  ELSE config.clusterMembers = Census(A)

\* f counts what of the subsets of S is in T, the way the folds do it.
Counts(f, S, T) ==
  f = [s \in SUBSET S |->
        IF s = {} THEN 0
        ELSE IF (CHOOSE x \in s : TRUE) \in T THEN f[s \ {CHOOSE x \in s : TRUE}] + 1
             ELSE f[s \ {CHOOSE x \in s : TRUE}]]

\* f does so one by one, whichever way it adds.
Counting(f, S, T) ==
  /\ f[{}] = 0
  /\ \A s \in SUBSET S : \A x \in s : x = (CHOOSE y \in s : TRUE) =>
       \/ f[s] = IF x \in T THEN f[s \ {x}] + 1 ELSE f[s \ {x}]
       \/ x \in T /\ f[s] = 1 + f[s \ {x}]

LEMMA CountsExist ==
  ASSUME NEW S, IsFiniteSet(S), NEW T
  PROVE  \E f : Counts(f, S, T) /\ \A s \in SUBSET S : f[s] \in Nat
<1> DEFINE f == [s \in SUBSET S |-> Cardinality(s \cap T)]
           g == [s \in SUBSET S |->
                  IF s = {} THEN 0
                  ELSE IF (CHOOSE x \in s : TRUE) \in T THEN f[s \ {CHOOSE x \in s : TRUE}] + 1
                       ELSE f[s \ {CHOOSE x \in s : TRUE}]]
<1>1. ASSUME NEW s \in SUBSET S PROVE f[s] = g[s]
  <2>1. CASE s = {}
    BY <2>1, FS_EmptySet
  <2>2. CASE s # {}
    <3>1. PICK x \in s : x = CHOOSE y \in s : TRUE
      BY <2>2
    <3>2. g[s] = IF x \in T THEN f[s \ {x}] + 1 ELSE f[s \ {x}]
      BY <2>2, <3>1
    <3>3. s \ {x} \in SUBSET S /\ f[s] = Cardinality(s \cap T) /\ f[s \ {x}] = Cardinality((s \ {x}) \cap T)
      OBVIOUS
    <3>4. IsFiniteSet(s) /\ IsFiniteSet(s \cap T)
      BY FS_Subset, FS_Intersection
    <3>5. (s \ {x}) \cap T = (s \cap T) \ {x} /\ (x \in T <=> x \in s \cap T)
      OBVIOUS
    <3>6. /\ Cardinality((s \cap T) \ {x}) =
               IF x \in s \cap T THEN Cardinality(s \cap T) - 1 ELSE Cardinality(s \cap T)
          /\ Cardinality(s \cap T) \in Nat
      BY <3>4, FS_RemoveElement, FS_CardinalityType
    <3> HIDE DEF f, g
    <3> QED BY <3>2, <3>3, <3>5, <3>6
  <2> QED BY <2>1, <2>2
<1>2. f = g
  <2>1. f = [s \in SUBSET S |-> f[s]] /\ g = [s \in SUBSET S |-> g[s]]
    OBVIOUS
  <2> HIDE DEF f, g
  <2> QED BY <1>1, <2>1
<1>3. Counts(f, S, T)
  BY <1>2 DEF Counts
<1>4. ASSUME NEW s \in SUBSET S PROVE f[s] \in Nat
  <2>1. IsFiniteSet(s \cap T)
    BY FS_Subset
  <2> QED BY <2>1, FS_CardinalityType
<1> QED BY <1>3, <1>4

LEMMA CountingUnique ==
  ASSUME NEW S, IsFiniteSet(S), NEW T, NEW f, Counting(f, S, T)
  PROVE  f[S] = Cardinality(S \cap T)
<1> DEFINE wrong == {n \in Nat : \E s \in SUBSET S : Cardinality(s) = n /\ f[s] # Cardinality(s \cap T)}
<1>1. wrong = {}
  <2> SUFFICES ASSUME wrong # {} PROVE FALSE
    OBVIOUS
  <2>1. PICK n \in wrong : \A m \in wrong : n <= m
    BY LeastNatural
  <2>2. PICK s \in SUBSET S : Cardinality(s) = n /\ f[s] # Cardinality(s \cap T)
    OBVIOUS
  <2>3. IsFiniteSet(s) /\ IsFiniteSet(s \cap T)
    BY FS_Subset, FS_Intersection
  <2>4. s # {}
    <3>1. f[{}] = 0
      BY DEF Counting
    <3> QED BY <2>2, <3>1, FS_EmptySet
  <2>5. PICK x \in s : x = CHOOSE y \in s : TRUE
    BY <2>4
  <2>6. \/ f[s] = IF x \in T THEN f[s \ {x}] + 1 ELSE f[s \ {x}]
        \/ x \in T /\ f[s] = 1 + f[s \ {x}]
    BY <2>5 DEF Counting
  <2>7. s \ {x} \in SUBSET S /\ Cardinality(s \ {x}) = n - 1 /\ n - 1 \in Nat
    <3>1. Cardinality(s \ {x}) = n - 1
      BY <2>2, <2>3, FS_RemoveElement
    <3>2. IsFiniteSet(s \ {x})
      BY <2>3, FS_RemoveElement
    <3>3. Cardinality(s \ {x}) \in Nat
      BY <3>2, FS_CardinalityType
    <3> QED BY <3>1, <3>3
  <2>8. f[s \ {x}] = Cardinality((s \ {x}) \cap T)
    <3>1. n \in Nat /\ ~(n <= n - 1)
      <4>1. n \in Nat
        OBVIOUS
      <4> HIDE DEF wrong
      <4> QED BY ONLY <4>1
    <3>2. n - 1 \notin wrong
      <4> HIDE DEF wrong
      <4> QED BY <2>1, <3>1
    <3> QED BY <2>7, <3>2
  <2>9. (s \ {x}) \cap T = (s \cap T) \ {x} /\ (x \in T <=> x \in s \cap T)
    OBVIOUS
  <2>10. /\ Cardinality((s \cap T) \ {x}) =
              IF x \in s \cap T THEN Cardinality(s \cap T) - 1 ELSE Cardinality(s \cap T)
         /\ Cardinality(s \cap T) \in Nat
    BY <2>3, FS_RemoveElement, FS_CardinalityType
  <2> HIDE DEF wrong
  <2> QED BY <2>2, <2>6, <2>8, <2>9, <2>10
<1>2. Cardinality(S) \in Nat
  BY FS_CardinalityType
<1>3. Cardinality(S) \notin wrong
  BY <1>1
<1> QED BY <1>2, <1>3

LEMMA CountsUnique ==
  ASSUME NEW S, IsFiniteSet(S), NEW T, NEW f, Counts(f, S, T)
  PROVE  f[S] = Cardinality(S \cap T)
<1>1. f[{}] = 0
  BY DEF Counts
<1>2. ASSUME NEW s \in SUBSET S, NEW x \in s, x = CHOOSE y \in s : TRUE
      PROVE  f[s] = IF x \in T THEN f[s \ {x}] + 1 ELSE f[s \ {x}]
  <2>1. s # {}
    OBVIOUS
  <2> QED BY <1>2, <2>1 DEF Counts
<1>3. Counting(f, S, T)
  BY <1>1, <1>2 DEF Counting
<1> QED BY <1>3, CountingUnique

\* Nobody is twice in an ascending list: its places are as many as their names.
LEMMA PlacesCounted ==
  ASSUME NEW keys \in Seq(Replicas), Ascending(keys), NEW P \in SUBSET DOMAIN keys
  PROVE  /\ IsFiniteSet(P) /\ IsFiniteSet({keys[i] : i \in P})
         /\ Cardinality({keys[i] : i \in P}) = Cardinality(P)
<1> DEFINE T == {keys[i] : i \in P}
           f == [i \in P |-> keys[i]]
<1>1. Len(keys) \in Nat /\ DOMAIN keys = 1..Len(keys) /\ \A i \in DOMAIN keys : keys[i] \in Nat
  BY NAssumption DEF Replicas
<1>2. IsFiniteSet(P)
  <2>1. IsFiniteSet(1..Len(keys))
    BY <1>1, FS_Interval
  <2> QED BY <1>1, <2>1, FS_Subset
<1>3. \A i, j \in P : keys[i] = keys[j] => i = j
  <2> SUFFICES ASSUME NEW i \in P, NEW j \in P, keys[i] = keys[j], i # j PROVE FALSE
    OBVIOUS
  <2>1. i \in DOMAIN keys /\ j \in DOMAIN keys /\ (i < j \/ j < i)
    BY <1>1
  <2> QED BY <1>1, <2>1 DEF Ascending
<1>4. f \in Bijection(P, T)
  <2>1. f \in [P -> T] /\ \A i, j \in DOMAIN f : f[i] = f[j] => i = j
    BY <1>3
  <2>2. \A t \in T : \E i \in P : f[i] = t
    OBVIOUS
  <2> HIDE DEF f, T
  <2> QED BY <2>1, <2>2 DEF Bijection, Injection, Surjection, IsInjective
<1>5. ExistsBijection(P, T)
  BY <1>4 DEF ExistsBijection
<1> HIDE DEF T, f
<1>6. IsFiniteSet(T) /\ Cardinality(T) = Cardinality(P)
  BY <1>2, <1>5, FS_Bijection
<1> QED BY <1>2, <1>6 DEF T

\* The length of an ascending list, and the index in it of one of its elements.
LEMMA PlaceInList ==
  ASSUME NEW list \in Seq(Replicas), Ascending(list), NEW A, A = Elements(list)
  PROVE  /\ IsFiniteSet(A) /\ Len(list) = Cardinality(A)
         /\ \A r \in A : IndexOf(r, list) = Cardinality({p \in A : p < r})
<1>1. Len(list) \in Nat /\ DOMAIN list = 1..Len(list) /\ \A i \in DOMAIN list : list[i] \in Nat
  BY NAssumption DEF Replicas
<1>2. IsFiniteSet(A) /\ Len(list) = Cardinality(A)
  <2>1. Cardinality(1..Len(list)) = Len(list)
    <3>1. PICK n \in Nat : n = Len(list)
      BY <1>1
    <3>2. Cardinality(1..n) = IF 1 > n THEN 0 ELSE n - 1 + 1
      BY FS_Interval
    <3> QED BY <3>1, <3>2
  <2>2. A = {list[i] : i \in DOMAIN list}
    BY DEF Elements
  <2>3. DOMAIN list \in SUBSET DOMAIN list
    OBVIOUS
  <2> QED BY <1>1, <2>1, <2>2, <2>3, PlacesCounted
<1>3. ASSUME NEW r \in A PROVE IndexOf(r, list) = Cardinality({p \in A : p < r})
  <2>1. PICK k \in DOMAIN list : list[k] = r
    BY DEF Elements
  <2>2. \A j \in DOMAIN list : (list[j] = r => j = k) /\ (list[j] < r <=> j < k)
    <3> SUFFICES ASSUME NEW j \in DOMAIN list
                 PROVE  (list[j] = r => j = k) /\ (list[j] < r <=> j < k)
      OBVIOUS
    <3>1. j \in Nat /\ k \in Nat /\ list[j] \in Nat /\ list[k] \in Nat
      BY <1>1
    <3>2. (j < k => list[j] < list[k]) /\ (k < j => list[k] < list[j])
      BY DEF Ascending
    <3>3. j < k \/ k < j \/ j = k
      BY <3>1
    <3> QED BY <2>1, <3>1, <3>2, <3>3
  <2>3. IndexOf(r, list) = k - 1
    <3>1. \E i \in DOMAIN list : list[i] = r
      BY <2>1
    <3>2. list[k] = r /\ \A j \in 1..(k-1) : list[j] # r
      <4>1. \A j \in 1..(k-1) : j \in DOMAIN list /\ j # k
        BY <1>1
      <4> QED BY <2>1, <2>2, <4>1
    <3>3. (CHOOSE i \in DOMAIN list : list[i] = r /\ \A j \in 1..(i - 1) : list[j] # r) = k
      BY <2>2, <3>2
    <3> QED BY <3>1, <3>3 DEF IndexOf
  <2>4. 1..(k-1) \in SUBSET DOMAIN list
    BY <1>1
  <2>5. {p \in A : p < r} = {list[i] : i \in 1..(k-1)}
    <3>1. ASSUME NEW p \in A, p < r PROVE p \in {list[i] : i \in 1..(k-1)}
      <4>1. PICK i \in DOMAIN list : list[i] = p
        BY DEF Elements
      <4>2. i \in 1..(k-1)
        BY <1>1, <2>2, <3>1, <4>1
      <4> QED BY <4>1, <4>2
    <3>2. ASSUME NEW i \in 1..(k-1) PROVE list[i] \in A /\ list[i] < r
      BY <2>2, <2>4 DEF Elements
    <3> QED BY <3>1, <3>2
  <2>6. Cardinality(1..(k-1)) = k - 1
    <3>1. PICK n \in Nat : n = k - 1
      BY <1>1
    <3>2. Cardinality(1..n) = IF 1 > n THEN 0 ELSE n - 1 + 1
      BY FS_Interval
    <3> QED BY <3>1, <3>2
  <2> QED BY <2>3, <2>4, <2>5, <2>6, PlacesCounted
<1> QED BY <1>2, <1>3

\* The intervals of a cluster in which everybody has the multiplier 1.
LEMMA IntervalsCounted ==
  ASSUME NEW cluster \in Seq(Entry({1})), Sorted("clusterMembers", cluster),
         NEW A, A = Names("clusterMembers", cluster)
  PROVE  IdentityIntervals(cluster) = Census(A)
<1>1. PICK keys \in Seq(Replicas) : /\ keys = Key("clusterMembers", cluster) /\ Ascending(keys)
                                    /\ keys = [i \in DOMAIN cluster |-> cluster[i].address]
  BY KeysOf DEF Sorted
<1>2. A = {keys[i] : i \in DOMAIN keys} /\ DOMAIN keys = DOMAIN cluster
  BY <1>1 DEF Names, Elements
<1>3. \A i \in DOMAIN cluster : cluster[i].address = keys[i] /\ cluster[i].interval = 1
  <2> TAKE i \in DOMAIN cluster
  <2>1. cluster[i] \in Entry({1})
    OBVIOUS
  <2>2. keys[i] = cluster[i].address
    BY <1>1
  <2> QED BY <2>1, <2>2 DEF Entry
<1>4. {Identity[cluster[i].address] : i \in DOMAIN cluster} = {Identity[p] : p \in A}
  BY <1>2, <1>3
<1>5. IsFiniteSet(DOMAIN cluster)
  <2>1. DOMAIN cluster \in SUBSET DOMAIN keys
    BY <1>2
  <2> QED BY <1>1, <2>1, PlacesCounted
<1>6. ASSUME NEW id \in {Identity[p] : p \in A}
      PROVE  FoldSeq(LAMBDA m, sum : IF Identity[m.address] = id THEN sum + m.interval ELSE sum,
                     0, cluster) = Cardinality({p \in A : Identity[p] = id})
  <2> DEFINE D == DOMAIN cluster
             T == {i \in D : Identity[cluster[i].address] = id}
             Folds(g) == g = [s \in SUBSET D |->
               IF s = {} THEN 0
               ELSE IF Identity[cluster[CHOOSE x \in s : TRUE].address] = id
                    THEN g[s \ {CHOOSE x \in s : TRUE}] + cluster[CHOOSE x \in s : TRUE].interval
                    ELSE g[s \ {CHOOSE x \in s : TRUE}]]
  <2>1. ASSUME NEW g PROVE Folds(g) <=> Counts(g, D, T)
    <3> DEFINE left == [s \in SUBSET D |->
               IF s = {} THEN 0
               ELSE IF Identity[cluster[CHOOSE x \in s : TRUE].address] = id
                    THEN g[s \ {CHOOSE x \in s : TRUE}] + cluster[CHOOSE x \in s : TRUE].interval
                    ELSE g[s \ {CHOOSE x \in s : TRUE}]]
              right == [s \in SUBSET D |->
               IF s = {} THEN 0
               ELSE IF (CHOOSE x \in s : TRUE) \in T THEN g[s \ {CHOOSE x \in s : TRUE}] + 1
                    ELSE g[s \ {CHOOSE x \in s : TRUE}]]
    <3>1. ASSUME NEW s \in SUBSET D PROVE left[s] = right[s]
      <4>1. CASE s = {}
        BY <4>1
      <4>2. CASE s # {}
        <5>1. PICK x \in s : x = CHOOSE y \in s : TRUE
          BY <4>2
        <5>2. x \in D /\ cluster[x].interval = 1 /\ (x \in T <=> Identity[cluster[x].address] = id)
          BY <1>3
        <5> QED BY <4>2, <5>1, <5>2
      <4> QED BY <4>1, <4>2
    <3>2. left = right
      <4>1. left = [s \in SUBSET D |-> left[s]] /\ right = [s \in SUBSET D |-> right[s]]
        OBVIOUS
      <4> HIDE DEF left, right
      <4> QED BY <3>1, <4>1
    <3> QED BY <3>2 DEF Counts
  <2>2. PICK f : f = CHOOSE g : Folds(g)
    OBVIOUS
  <2>3. FoldSeq(LAMBDA m, sum : IF Identity[m.address] = id THEN sum + m.interval ELSE sum,
                0, cluster) = f[D]
    BY <2>2 DEF FoldSeq, FoldFunction, FoldFunctionOnSet, MapThenFoldSet
  <2> HIDE DEF D, T, Folds
  <2>4. Counts(f, D, T)
    BY <1>5, <2>1, <2>2, CountsExist DEF D
  <2>5. f[D] = Cardinality(D \cap T)
    BY <1>5, <2>4, CountsUnique DEF D
  <2>6. D \cap T \in SUBSET DOMAIN keys /\ {keys[i] : i \in D \cap T} = {p \in A : Identity[p] = id}
    BY <1>2, <1>3 DEF D, T
  <2>7. Cardinality({keys[i] : i \in D \cap T}) = Cardinality(D \cap T)
    BY <1>1, <2>6, PlacesCounted
  <2> QED BY <2>3, <2>5, <2>6, <2>7
<1> QED BY <1>4, <1>6 DEF IdentityIntervals, Census

\* Counts are numbers.
LEMMA CensusCounts ==
  ASSUME NEW A \in SUBSET Replicas
  PROVE  /\ IsFiniteSet(A) /\ Cardinality(A) \in Nat
         /\ \A r \in Replicas : Cardinality({p \in A : p < r}) \in Nat
         /\ Census(A) \in [{Identity[p] : p \in A} -> Int]
<1>1. ASSUME NEW B \in SUBSET Replicas PROVE IsFiniteSet(B) /\ Cardinality(B) \in Nat
  <2>1. IsFiniteSet(Replicas)
    <3>1. 1 \in Int /\ N \in Int
      BY NAssumption
    <3> QED BY <3>1, FS_Interval DEF Replicas
  <2> QED BY <2>1, FS_Subset, FS_CardinalityType
<1>2. \A id : {p \in A : Identity[p] = id} \in SUBSET Replicas
  OBVIOUS
<1>3. \A r \in Replicas : {p \in A : p < r} \in SUBSET Replicas
  OBVIOUS
<1>4. \A id : Cardinality({p \in A : Identity[p] = id}) \in Int
  BY <1>1, <1>2
<1>5. Census(A) \in [{Identity[p] : p \in A} -> Int]
  BY <1>4 DEF Census
<1> QED BY <1>1, <1>3, <1>5

\* A list of a state that r is to adopt.
Proper(r, l, list) ==
  /\ list # Null /\ Sorted(l, list) /\ r \in Names(l, list)
  /\ l = "clusterMembers" => list \in Seq(Entry({1}))

\* The config says who is in the lists of the state it was made of; of the
\* replicas what it said before, if the state has none.
LEMMA Adopted ==
  ASSUME NEW r \in Replicas, NEW old, DOMAIN old = ConfigFields, NEW state, NEW new,
         new = SetDynamicConfig(old, NormalizeState(r, state)), NEW l \in Lists
  PROVE  /\ Proper(r, l, state[l]) => Says(new, r, l, Names(l, state[l]))
         /\ state[l] = Null /\ l = "replicaMembers" => \A A : Says(old, r, l, A) => Says(new, r, l, A)
         /\ new = [f \in ConfigFields |-> new[f]] /\ DOMAIN new = ConfigFields
         /\ SetDynamicConfig(new, NormalizeState(r, state)) = new
<1>1. PICK c : c = NormalizeState(r, state)
  OBVIOUS
<1>2. new = [f \in ConfigFields |-> IF c[f] = Null THEN old[f] ELSE c[f]]
  BY <1>1 DEF SetDynamicConfig, Overlay
<1>3. SetDynamicConfig(new, c) = new
  BY <1>2 DEF SetDynamicConfig, Overlay
<1>4. /\ new.replicaSize = IF c.replicaSize = Null THEN old.replicaSize ELSE c.replicaSize
      /\ new.instancePosition =
           IF c.instancePosition = Null THEN old.instancePosition ELSE c.instancePosition
      /\ new.clusterMembers = IF c.clusterMembers = Null THEN old.clusterMembers ELSE c.clusterMembers
  BY <1>2 DEF ConfigFields
<1>5. /\ c.replicaSize = IF state.replicaMembers = Null THEN Null ELSE Len(state.replicaMembers)
      /\ c.instancePosition =
           IF state.replicaMembers = Null THEN Null ELSE IndexOf(r, state.replicaMembers)
      /\ c.clusterMembers = IdentityIntervals(state.clusterMembers)
  BY <1>1 DEF NormalizeState
<1>6. ASSUME Proper(r, l, state[l]) PROVE Says(new, r, l, Names(l, state[l]))
  <2>1. CASE l = "replicaMembers"
    <3>1. PICK list : list = state.replicaMembers
      OBVIOUS
    <3>2. list \in Seq(Replicas) /\ Ascending(list) /\ list # Null /\ r \in Elements(list)
      BY <1>6, <2>1, <3>1, KeysOf DEF Proper, Sorted
    <3>3. PICK A : A = Elements(list)
      OBVIOUS
    <3>4. Len(list) = Cardinality(A) /\ IndexOf(r, list) = Cardinality({p \in A : p < r})
      BY ONLY <3>2, <3>3, PlaceInList
    <3>5. A \in SUBSET Replicas
      BY <3>2, <3>3 DEF Elements
    <3>6. Cardinality(A) \in Nat /\ Cardinality({p \in A : p < r}) \in Nat
      BY <3>5, CensusCounts
    <3>7. Names(l, state[l]) = A
      BY <2>1, <3>1, <3>3, KeysOf
    <3>8. c.replicaSize = Cardinality(A) /\ c.instancePosition = Cardinality({p \in A : p < r})
      BY <1>5, <3>1, <3>2, <3>4
    <3>9. new.replicaSize = c.replicaSize /\ new.instancePosition = c.instancePosition
      BY <1>4, <3>6, <3>8, NullAssumption
    <3> QED BY <2>1, <3>7, <3>8, <3>9 DEF Says
  <2>2. CASE l = "clusterMembers"
    <3>1. PICK list : list = state.clusterMembers
      OBVIOUS
    <3>2. list \in Seq(Entry({1})) /\ Sorted(l, list)
      BY <1>6, <2>2, <3>1 DEF Proper
    <3>3. PICK A : A = Names(l, list)
      OBVIOUS
    <3>4. c.clusterMembers = Census(A)
      BY <1>5, <2>2, <3>1, <3>2, <3>3, IntervalsCounted
    <3>5. A \in SUBSET Replicas
      BY <3>2, <3>3 DEF Sorted, Names, Elements
    <3>6. Census(A) # Null
      <4>1. PICK ids : ids = {Identity[p] : p \in A}
        OBVIOUS
      <4>2. ids \in SUBSET {Identity[p] : p \in Replicas}
        BY <3>5, <4>1
      <4>3. Census(A) \in [ids -> Int]
        BY <3>5, <4>1, CensusCounts
      <4>4. Null \notin [ids -> Int]
        BY <4>2, NullAssumption
      <4> QED BY <4>3, <4>4
    <3>7. new.clusterMembers = c.clusterMembers
      BY <1>4, <3>4, <3>6
    <3> QED BY <2>2, <3>1, <3>3, <3>4, <3>7 DEF Says
  <2> QED BY <2>1, <2>2 DEF Lists
<1>7. ASSUME state[l] = Null, l = "replicaMembers" PROVE \A A : Says(old, r, l, A) => Says(new, r, l, A)
  BY <1>4, <1>5, <1>7 DEF Says
<1>8. new = [f \in ConfigFields |-> new[f]] /\ DOMAIN new = ConfigFields
  BY <1>2
<1> QED BY <1>1, <1>3, <1>6, <1>7, <1>8

\* A complete config is one.
LEMMA ConfigIsThere ==
  ASSUME NEW r \in Replicas, NEW c, c = [f \in ConfigFields |-> c[f]], c.rateLimitMultiplier \in {1},
         NEW A \in SUBSET Replicas, Says(c, r, "replicaMembers", A),
         NEW B \in SUBSET Replicas, Says(c, r, "clusterMembers", B)
  PROVE  c # Null
<1>1. PICK ids : ids = {Identity[p] : p \in B}
  OBVIOUS
<1>2. ids \in SUBSET {Identity[p] : p \in Replicas}
  BY <1>1
<1>3. c.replicaSize \in Int /\ c.instancePosition \in Int /\ c.rateLimitMultiplier \in Int
  <2>1. Cardinality(A) \in Nat /\ Cardinality({p \in A : p < r}) \in Nat
    BY CensusCounts
  <2>2. c.replicaSize = Cardinality(A) /\ c.instancePosition = Cardinality({p \in A : p < r})
    BY DEF Says
  <2> QED BY <2>1, <2>2
<1>4. c.clusterMembers \in [ids -> Int]
  BY <1>1, CensusCounts DEF Says
<1>5. c \in [replicaSize : Int, instancePosition : Int, rateLimitMultiplier : Int,
              clusterMembers : [ids -> Int]]
  BY <1>3, <1>4 DEF ConfigFields
<1> QED BY <1>2, <1>5, NullAssumption

-----------------------------------------------------------------------------
(* What holds of replicas while nobody leaves.                              *)

Staying == Crashers = {} /\ SlowStart = FALSE /\ \A r \in Replicas : life[r] \in {"off", "up"}

LaunchOK(r) ==
  /\ life[r] = "off" => /\ timer[r].GREET = Off /\ ~started[r] /\ phase[r] = FreePhase
                        /\ buffer[r].SHARE = <<>>
  /\ timer[r].GREET # Off => ~started[r] /\ Wanted(phase[r]) \cap Round = {}
  /\ Up(r) /\ ~started[r] /\ timer[r].GREET = Off => "HELLO" \in Wanted(phase[r])
  /\ buffer[r].SHARE # <<>> => timer[r].SHARE # Off \/ "SHARE" \in Awaited(phase[r])
  /\ timer[r].STATUS = Off => buffer[r].STATUS = <<>>
  /\ \A call \in Elements(reloads[r]) : call.by = "SHARE"

AppliedOK(r) ==
  /\ internal[r] = [f \in ConfigFields |-> internal[r][f]]
  /\ starting[r] # <<>> => SetDynamicConfig(internal[r], NormalizeState(r, Head(starting[r]))) = internal[r]
  /\ started[r] => running[r] # Null
  /\ started[r] => internal[r] = IF reloads[r] = <<>> THEN running[r]
                                 ELSE SetDynamicConfig(running[r], Head(reloads[r]).config)

Single(queue, type) == \A i, j \in DOMAIN queue : queue[i].type = type /\ queue[j].type = type => i = j
Asks(z, q) == "HELLO" \in Types(chan[q][z])
Replies(z, q) == "STATUS" \in Types(chan[z][q])
Counted(z, q) == q \in Senders(buffer[z].STATUS)

OnceAsked(z, q) ==
  /\ Single(chan[q][z], "HELLO") /\ Single(chan[z][q], "STATUS")
  /\ ~(Asks(z, q) /\ Replies(z, q)) /\ ~(Asks(z, q) /\ Counted(z, q)) /\ ~(Replies(z, q) /\ Counted(z, q))

Patience(z) == IF timer[z].STATUS = Off THEN StatusDelay ELSE timer[z].STATUS
Stranger(z, q) == \A l \in Lists : q \notin Names(l, members[z][l])
Expected(z) ==
  InRound(phase[z]) /\ starting[z] = <<>> =>
    \A q \in Live : \/ Asks(z, q) \/ Replies(z, q) \/ Counted(z, q)
                    \/ Stranger(z, q) /\ timer[q].GREET > Patience(z)

Present ==
  /\ \A d, s \in Replicas : chan[d][s] # <<>> => Up(s)
  /\ \A z \in Replicas : \A t \in Buffered : \A m \in Elements(buffer[z][t]) : Up(m.from)

AnswerInv ==
  /\ Present /\ \A z, q \in Replicas : OnceAsked(z, q)
  /\ \A z \in Replicas : OneEach(buffer[z].STATUS) /\ Expected(z)

Fresh(state) == \A q \in Live : q \in All(state) \/ timer[q].GREET > 0
Current(s, state) == Consistent(s, state) /\ All(state) \subseteq Live

Started == {r \in Replicas : started[r]}
News(r, l) == \E s \in Scope(r, l) : "SHARE" \in Types(chan[r][s])
Launches(r, state) ==
  /\ Current(r, state) /\ Fresh(state) /\ r \in All(state)
  /\ \A l \in Lists : /\ Names(l, members[r][l]) \subseteq Names(l, state[l])
                      /\ Says(internal[r], r, l, Names(l, state[l]))
Heard(r, l) ==
  LET offered == Offered(r, l, buffer[r].SHARE)
  IN offered # {} => Started \cap Scope(r, l) \subseteq offered \/ News(r, l)
PlacedWith(r, l, A) ==
  /\ r \in A /\ A \subseteq Live \cap Scope(r, l) /\ Names(l, members[r][l]) \subseteq A
  /\ Says(internal[r], r, l, A)
  /\ \/ Started \cap Scope(r, l) \subseteq A
     \/ News(r, l)
     \/ r \in Offered(r, l, buffer[r].SHARE)
Placed(r, l) == started[r] => \E A \in SUBSET Replicas : PlacedWith(r, l, A)

LaunchInv == \A r \in Replicas : LaunchOK(r)
AppliedInv == \A r \in Replicas : AppliedOK(r)
Circulating ==
  \A d, s \in Replicas : \A m \in Elements(chan[d][s]) : m.type = "SHARE" => Current(s, m) /\ Fresh(m)
SharedOK(r) ==
  /\ \A m \in Elements(buffer[r].SHARE) : Current(m.from, m)
  /\ \A l \in Lists : Names(l, members[r][l]) \subseteq Live \cap Scope(r, l)
  /\ starting[r] # <<>> => Launches(r, Head(starting[r]))
  /\ \A l \in Lists : Heard(r, l) /\ Placed(r, l)
ShareInv == Circulating /\ \A r \in Replicas : SharedOK(r)

GatherInv == NewcomerInv /\ Staying /\ LaunchInv /\ AppliedInv /\ AnswerInv /\ ShareInv

-----------------------------------------------------------------------------
(* What the steps do while nobody leaves.                                   *)

LEMMA Gathered ==
  ASSUME GatherInv
  PROVE  /\ AllInv /\ IInv /\ RoundInv /\ PlaceInv /\ RateInv({1}) /\ JoinInv /\ NewcomerInv
         /\ Staying /\ LaunchInv /\ AppliedInv /\ AnswerInv /\ ShareInv
BY DEF GatherInv, NewcomerInv, AllInv

LEMMA NobodyLeaves ==
  ASSUME GatherInv, NEW r \in Replicas
  PROVE  /\ ~Stop(r) /\ ~Crash(r) /\ ~RateLimitExceeded(r) /\ ~CloseDue(r) /\ ~HandleClose(r)
         /\ ~PhaseTimeout(r)
<1> USE DEF GatherInv, NewcomerInv
<1>1. ~Stop(r) /\ ~Crash(r)
  BY DEF Stop, Crash, Staying, JoinInv
<1>2. ~RateLimitExceeded(r)
  <2>1. budget.failures = 0
    <3>1. {1} # Nat \ {0}
      <4>1. 2 \in Nat \ {0} /\ 2 \notin {1}
        OBVIOUS
      <4> QED BY <4>1
    <3> QED BY <3>1 DEF RateInv, Reachable
  <2> QED BY <2>1 DEF RateLimitExceeded
<1>3. ~CloseDue(r)
  BY DEF CloseDue, AwaitPhase, JoinInv, Off
<1>4. ~HandleClose(r)
  BY DEF HandleClose, Granted, JoinInv, Unclosed
<1>5. ~PhaseTimeout(r)
  BY PhaseTimeoutRound DEF AllInv
<1> QED BY <1>1, <1>2, <1>3, <1>4, <1>5

\* There is at most one reload, of a SHARE that holds the lock.
LEMMA OneReload ==
  ASSUME GatherInv, NEW r \in Replicas, Up(r), reloads[r] # <<>>
  PROVE  /\ Tail(reloads[r]) = <<>> /\ Head(reloads[r]).by = "SHARE"
         /\ phase[r].held = "SHARE" /\ phase[r].entered
<1>1. PICK calls : calls = reloads[r]
  OBVIOUS
<1>2. IsSeq(calls) /\ Covered(phase[r], calls)
  <2>1. AllInv /\ RoundInv
    BY Gathered
  <2>2. IsSeq(reloads[r])
    BY <2>1, Private
  <2>3. Covered(phase[r], reloads[r])
    BY <2>1, RoundOfUp
  <2> QED BY <1>1, <2>2, <2>3
<1>3. /\ IsSeq(Tail(calls)) /\ Head(calls) = calls[1] /\ 1 \in DOMAIN calls
      /\ \A i \in DOMAIN Tail(calls) : i \in Nat \ {0} /\ i + 1 \in DOMAIN calls
  BY <1>1, <1>2, TailElements
<1>4. \A i \in DOMAIN calls : calls[i].by = "SHARE"
  BY <1>1 DEF GatherInv, LaunchInv, LaunchOK, Elements
<1>5. DOMAIN Tail(calls) = {}
  <2> SUFFICES ASSUME NEW i \in DOMAIN Tail(calls) PROVE FALSE
    OBVIOUS
  <2>1. i + 1 \in DOMAIN calls /\ i + 1 # 1
    BY <1>3
  <2> QED BY <1>2, <1>3, <1>4, <2>1 DEF Covered
<1>6. Tail(calls) = <<>>
  BY <1>3, <1>5 DEF IsSeq
<1> QED BY <1>1, <1>2, <1>3, <1>4, <1>6 DEF Covered

\* The variables of a replica that the invariants are about, but its queues.
gatherVars == <<life, buffer, timer, phase, members, starting, started, reloads, internal, running>>

LEMMA BootDoes ==
  ASSUME GatherInv, NEW r \in Replicas, Boot(r)
  PROVE  /\ Others(r) /\ life[r] = "off" /\ life'[r] = "up"
         /\ timer'[r] = [timer[r] EXCEPT !.GREET = InitDelay]
         /\ UNCHANGED <<chan, buffer, phase, members, starting, started, reloads, internal, running>>
<1>1. AllInv
  BY Gathered
<1>2. /\ DOMAIN life = Replicas /\ DOMAIN timer = Replicas
  BY <1>1, Everywhere
<1> QED BY <1>2 DEF Boot, Others, schedVars

\* The steps that ask for the lock.
WaitsForLock(r) == Resync(r) \/ Greet(r) \/ ShareDue(r)

LEMMA WaitDoes ==
  ASSUME GatherInv, NEW r \in Replicas, WaitsForLock(r)
  PROVE  /\ Others(r) /\ Up(r) /\ Free(r)
         /\ UNCHANGED <<life, chan, buffer, members, starting, started, reloads, internal, running>>
         /\ \/ /\ started[r] /\ timer' = timer
               /\ phase'[r] = Acquired(phase[r], "HELLO")
            \/ /\ timer[r].GREET = 0 /\ timer'[r] = [timer[r] EXCEPT !.GREET = Off]
               /\ phase'[r] = Acquired(phase[r], "HELLO")
            \/ /\ timer[r].SHARE = 0 /\ timer'[r] = [timer[r] EXCEPT !.SHARE = Off]
               /\ phase'[r] = Acquired(phase[r], "SHARE")
<1>1. AllInv
  BY Gathered
<1>2. DOMAIN timer = Replicas /\ DOMAIN phase = Replicas
  BY <1>1, Everywhere
<1>3. CASE Resync(r)
  BY <1>2, <1>3 DEF Resync, Others, schedVars, Free
<1>4. CASE Greet(r)
  BY <1>2, <1>4 DEF Greet, AwaitPhase, Others, schedVars, Free
<1>5. CASE ShareDue(r)
  BY <1>2, <1>5 DEF ShareDue, AwaitPhase, Others, schedVars, Free
<1> QED BY <1>3, <1>4, <1>5 DEF WaitsForLock

LEMMA SayHelloDoes ==
  ASSUME GatherInv, NEW r \in Replicas, NEW who \in Round, SayHello(r, who)
  PROVE  /\ Others(r) /\ Up(r) /\ phase[r].held \in Round /\ ~phase[r].entered
         /\ UNCHANGED <<life, buffer, members, starting, started, reloads, internal, running>>
         /\ chan' = Broadcast(r, HelloMsg(r))
         /\ phase'[r] = [phase[r] EXCEPT !.entered = TRUE]
         /\ timer'[r] = [timer[r] EXCEPT !.PHASE = PhaseDelay]
<1>1. AllInv
  BY Gathered
<1>2. DOMAIN timer = Replicas /\ DOMAIN phase = Replicas
  BY <1>1, Everywhere
<1> QED BY <1>2 DEF SayHello, Others, Granted

\* The stages of a round, while nobody is late.
LEMMA RoundStages ==
  ASSUME GatherInv, NEW r \in Replicas, Up(r)
  PROVE  /\ timer[r].STATUS = 0 => InRound(phase[r]) /\ starting[r] = <<>> /\ ~Asking(r)
         /\ starting[r] # <<>> => /\ InRound(phase[r]) /\ Tail(starting[r]) = <<>> /\ ~Asking(r)
                                  /\ timer[r].STATUS = Off
         /\ ~InRound(phase[r]) => starting[r] = <<>> /\ timer[r].STATUS = Off /\ ~Asking(r)
         /\ InRound(phase[r]) => reloads[r] = <<>>
<1>1. RoundInv /\ AllInv
  BY Gathered
<1>2. OnTime(phase[r], timer[r], starting[r], Asking(r), OwnAnswer(r)) /\ Covered(phase[r], reloads[r])
  BY <1>1, RoundOfUp
<1>3. StatusDelay \in Nat \ {0}
  BY DelaysInOrder
<1>4. InRound(phase[r]) => reloads[r] = <<>>
  BY OneReload DEF InRound, Round
<1> QED BY <1>2, <1>3, <1>4 DEF OnTime, Asked, Debouncing, StartingUp, Between, Off

\* A replica in its round aggregates the statuses it has got, and shares the
\* state, or starts its markets with it.
LEMMA StatusDueDoes ==
  ASSUME GatherInv, NEW r \in Replicas, StatusDue(r)
  PROVE  /\ Others(r) /\ Up(r) /\ timer[r].STATUS = 0
         /\ UNCHANGED <<life, started, reloads, running>>
         /\ buffer'[r] = [buffer[r] EXCEPT !.STATUS = <<>>]
         /\ \E state \in {AggregateState(r, buffer[r].STATUS)} :
              /\ members'[r] = [l \in Lists |-> IF l \in known[r] THEN members[r][l] ELSE state[l]]
              /\ \/ /\ started[r] /\ chan' = Broadcast(r, ShareMsg(r, state))
                    /\ phase'[r] = Released(phase[r])
                    /\ timer'[r] = [[timer[r] EXCEPT !.STATUS = Off] EXCEPT !.PHASE = Off]
                    /\ UNCHANGED <<starting, internal>>
                 \/ /\ ~started[r] /\ starting'[r] = <<state>>
                    /\ internal'[r] = SetDynamicConfig(internal[r], NormalizeState(r, state))
                    /\ timer'[r] = [timer[r] EXCEPT !.STATUS = Off]
                    /\ UNCHANGED <<chan, phase>>
<1>1. AllInv
  BY Gathered
<1>2. /\ DOMAIN timer = Replicas /\ DOMAIN phase = Replicas /\ DOMAIN buffer = Replicas
      /\ DOMAIN members = Replicas /\ DOMAIN starting = Replicas /\ DOMAIN internal = Replicas
  BY <1>1, Everywhere
<1>3. Up(r) /\ timer[r].STATUS = 0
  BY DEF StatusDue, Free
<1>4. starting[r] = <<>>
  BY <1>3, RoundStages
<1>5. PICK state : state = AggregateState(r, buffer[r].STATUS)
  OBVIOUS
<1>6. /\ UNCHANGED <<life, started, reloads, running>>
      /\ buffer' = [buffer EXCEPT ![r].STATUS = <<>>]
      /\ members' = [members EXCEPT ![r] = [l \in Lists |-> IF l \in known[r] THEN members[r][l] ELSE state[l]]]
  BY <1>5 DEF StatusDue, Store
<1>7. \/ /\ started[r] /\ chan' = Broadcast(r, ShareMsg(r, state))
         /\ phase' = [phase EXCEPT ![r] = Released(phase[r])]
         /\ timer' = [[timer EXCEPT ![r].STATUS = Off] EXCEPT ![r].PHASE = Off]
         /\ UNCHANGED <<starting, internal>>
      \/ /\ ~started[r] /\ starting' = [starting EXCEPT ![r] = Append(starting[r], state)]
         /\ internal' = [internal EXCEPT ![r] = SetDynamicConfig(internal[r], NormalizeState(r, state))]
         /\ timer' = [timer EXCEPT ![r].STATUS = Off]
         /\ UNCHANGED <<chan, phase>>
  BY <1>4, <1>5 DEF StatusDue, ShareAndRelease
<1>8. buffer'[r] = [buffer[r] EXCEPT !.STATUS = <<>>]
  BY <1>2, <1>6
<1>9. members'[r] = [l \in Lists |-> IF l \in known[r] THEN members[r][l] ELSE state[l]]
  BY <1>2, <1>6
<1>10. Append(<<>>, state) = <<state>>
  OBVIOUS
<1>11. \/ /\ started[r] /\ chan' = Broadcast(r, ShareMsg(r, state))
          /\ phase'[r] = Released(phase[r])
          /\ timer'[r] = [[timer[r] EXCEPT !.STATUS = Off] EXCEPT !.PHASE = Off]
          /\ UNCHANGED <<starting, internal>>
       \/ /\ ~started[r] /\ starting'[r] = <<state>>
          /\ internal'[r] = SetDynamicConfig(internal[r], NormalizeState(r, state))
          /\ timer'[r] = [timer[r] EXCEPT !.STATUS = Off]
          /\ UNCHANGED <<chan, phase>>
  <2>1. CASE /\ started[r] /\ chan' = Broadcast(r, ShareMsg(r, state))
             /\ phase' = [phase EXCEPT ![r] = Released(phase[r])]
             /\ timer' = [[timer EXCEPT ![r].STATUS = Off] EXCEPT ![r].PHASE = Off]
             /\ UNCHANGED <<starting, internal>>
    <3>1. phase'[r] = Released(phase[r])
      BY <1>2, <2>1
    <3>2. timer'[r] = [[timer[r] EXCEPT !.STATUS = Off] EXCEPT !.PHASE = Off]
      BY <1>2, <2>1
    <3> QED BY <2>1, <3>1, <3>2
  <2>2. CASE /\ ~started[r] /\ starting' = [starting EXCEPT ![r] = Append(starting[r], state)]
             /\ internal' = [internal EXCEPT ![r] = SetDynamicConfig(internal[r], NormalizeState(r, state))]
             /\ timer' = [timer EXCEPT ![r].STATUS = Off]
             /\ UNCHANGED <<chan, phase>>
    <3>1. starting'[r] = <<state>>
      BY <1>2, <1>4, <1>10, <2>2
    <3>2. internal'[r] = SetDynamicConfig(internal[r], NormalizeState(r, state))
      BY <1>2, <2>2
    <3>3. timer'[r] = [timer[r] EXCEPT !.STATUS = Off]
      BY <1>2, <2>2
    <3> QED BY <2>2, <3>1, <3>2, <3>3
  <2> QED BY <1>7, <2>1, <2>2
<1>12. Others(r)
  BY <1>2, <1>6, <1>7 DEF Others
<1> QED BY <1>3, <1>5, <1>6, <1>8, <1>9, <1>11, <1>12

LEMMA MarketsStartedDoes ==
  ASSUME GatherInv, NEW r \in Replicas, MarketsStarted(r)
  PROVE  /\ Others(r) /\ Up(r) /\ starting[r] # <<>>
         /\ UNCHANGED <<life, buffer, members, reloads, internal>>
         /\ starting'[r] = <<>> /\ started'[r]
         /\ running'[r] = SetDynamicConfig(internal[r], NormalizeState(r, Head(starting[r])))
         /\ chan' = Broadcast(r, ShareMsg(r, Head(starting[r])))
         /\ phase'[r] = Released(phase[r]) /\ timer'[r] = [timer[r] EXCEPT !.PHASE = Off]
<1>1. AllInv
  BY Gathered
<1>2. /\ DOMAIN timer = Replicas /\ DOMAIN phase = Replicas /\ DOMAIN starting = Replicas
      /\ DOMAIN started = Replicas /\ DOMAIN running = Replicas
  BY <1>1, Everywhere
<1>3. Up(r) /\ starting[r] # <<>>
  BY DEF MarketsStarted, Free
<1>4. Tail(starting[r]) = <<>>
  BY <1>3, RoundStages
<1>5. /\ UNCHANGED <<life, buffer, members, reloads, internal>>
      /\ starting' = [starting EXCEPT ![r] = <<>>] /\ started' = [started EXCEPT ![r] = TRUE]
      /\ running' = [running EXCEPT ![r] = SetDynamicConfig(internal[r], NormalizeState(r, Head(starting[r])))]
      /\ chan' = Broadcast(r, ShareMsg(r, Head(starting[r])))
      /\ phase' = [phase EXCEPT ![r] = Released(phase[r])]
      /\ timer' = [timer EXCEPT ![r].PHASE = Off]
  BY <1>4 DEF MarketsStarted, ShareAndRelease
<1>6. Others(r)
  BY <1>2, <1>5 DEF Others
<1> QED BY <1>2, <1>3, <1>5, <1>6

\* The shares of a window bring no other multiplier; if they bring other lists,
\* these are adopted.
LEMMA HandleShareDoes ==
  ASSUME GatherInv, NEW r \in Replicas, HandleShare(r)
  PROVE  /\ Others(r) /\ Up(r) /\ phase[r].held = "SHARE" /\ ~phase[r].entered /\ reloads[r] = <<>>
         /\ UNCHANGED <<life, chan, timer, starting, started, running>>
         /\ buffer'[r] = [buffer[r] EXCEPT !.SHARE = <<>>]
         /\ \E state \in {ShareState(r, buffer[r].SHARE, internal[r].rateLimitMultiplier)} :
              \/ /\ \A l \in Lists : state[l] = Null \/ state[l] = members[r][l]
                 /\ UNCHANGED <<members, reloads, internal>>
                 /\ phase'[r] = Released(phase[r])
              \/ /\ state.clusterMembers # Null
                 /\ \A l \in Lists : members'[r][l] = IF state[l] = Null THEN members[r][l] ELSE state[l]
                 /\ reloads'[r] = <<[by |-> "SHARE", config |-> NormalizeState(r, state)]>>
                 /\ internal'[r] = SetDynamicConfig(internal[r], NormalizeState(r, state))
                 /\ phase'[r] = [phase[r] EXCEPT !.entered = TRUE]
<1>1. AllInv /\ NewcomerInv
  BY Gathered
<1>2. /\ DOMAIN timer = Replicas /\ DOMAIN phase = Replicas /\ DOMAIN buffer = Replicas
      /\ DOMAIN members = Replicas /\ DOMAIN reloads = Replicas /\ DOMAIN internal = Replicas
      /\ DOMAIN life = Replicas
  BY <1>1, Everywhere
<1>3. Up(r) /\ phase[r].held = "SHARE" /\ ~phase[r].entered
  BY DEF HandleShare, Granted
<1>4. reloads[r] = <<>>
  BY <1>3, OneReload
<1>5. life' = life
  BY <1>1, ShareIsSafe
<1>6. PICK state : state = ShareState(r, buffer[r].SHARE, internal[r].rateLimitMultiplier)
  OBVIOUS
<1>7. PICK reload \in BOOLEAN : reload <=> ShouldReload(state, members[r])
  OBVIOUS
<1>8. /\ UNCHANGED <<chan, timer, starting, started, running>>
      /\ buffer' = [buffer EXCEPT ![r].SHARE = <<>>]
      /\ members' = IF reload THEN [members EXCEPT ![r] = UpdateState(members[r], state)] ELSE members
      /\ reload /\ ~Normalizable(state) => Fail(r)
      /\ IF reload /\ Normalizable(state)
         THEN /\ CallReload(r, "SHARE", NormalizeState(r, state))
              /\ phase' = [phase EXCEPT ![r].entered = TRUE]
         ELSE phase' = [phase EXCEPT ![r] = Released(phase[r])] /\ UNCHANGED <<reloads, internal>>
  BY <1>6, <1>7 DEF HandleShare
<1>9. reload => Normalizable(state)
  <2>1. Fail(r) => life'[r] = "failing"
    BY <1>2 DEF Fail
  <2> QED BY <1>3, <1>5, <1>8, <2>1 DEF Up
<1>10. Append(<<>>, [by |-> "SHARE", config |-> NormalizeState(r, state)])
         = <<[by |-> "SHARE", config |-> NormalizeState(r, state)]>>
  OBVIOUS
<1>11. CallReload(r, "SHARE", NormalizeState(r, state)) =>
         /\ reloads' = [reloads EXCEPT ![r] = <<[by |-> "SHARE", config |-> NormalizeState(r, state)]>>]
         /\ internal' = [internal EXCEPT ![r] = SetDynamicConfig(internal[r], NormalizeState(r, state))]
  BY <1>4, <1>10 DEF CallReload
<1>12. CASE reload
  <2>1. /\ reloads' = [reloads EXCEPT ![r] = <<[by |-> "SHARE", config |-> NormalizeState(r, state)]>>]
        /\ internal' = [internal EXCEPT ![r] = SetDynamicConfig(internal[r], NormalizeState(r, state))]
        /\ phase' = [phase EXCEPT ![r].entered = TRUE]
        /\ members' = [members EXCEPT ![r] = UpdateState(members[r], state)]
        /\ state.clusterMembers # Null
    BY <1>8, <1>9, <1>11, <1>12 DEF Normalizable
  <2>2. DOMAIN members[r] = Lists
    BY <1>1, <1>3, PlaceOfUp DEF Settled, Remembers
  <2>3. \A l \in Lists : members'[r][l] = IF state[l] = Null THEN members[r][l] ELSE state[l]
    BY <1>2, <2>1, <2>2 DEF UpdateState, Overlay
  <2>4. Others(r)
    BY <1>2, <1>5, <1>8, <2>1 DEF Others
  <2>5. buffer'[r] = [buffer[r] EXCEPT !.SHARE = <<>>]
    BY <1>2, <1>8
  <2>6. /\ reloads'[r] = <<[by |-> "SHARE", config |-> NormalizeState(r, state)]>>
        /\ internal'[r] = SetDynamicConfig(internal[r], NormalizeState(r, state))
        /\ phase'[r] = [phase[r] EXCEPT !.entered = TRUE]
    BY <1>2, <2>1
  <2> QED BY <1>3, <1>4, <1>5, <1>6, <1>8, <2>1, <2>3, <2>4, <2>5, <2>6
<1>13. CASE ~reload
  <2>1. UNCHANGED <<members, reloads, internal>> /\ phase' = [phase EXCEPT ![r] = Released(phase[r])]
    BY <1>8, <1>13
  <2>2. \A l \in Lists : state[l] = Null \/ state[l] = members[r][l]
    BY <1>7, <1>13 DEF ShouldReload
  <2>3. Others(r)
    BY <1>2, <1>5, <1>8, <2>1 DEF Others
  <2>4. buffer'[r] = [buffer[r] EXCEPT !.SHARE = <<>>] /\ phase'[r] = Released(phase[r])
    BY <1>2, <1>8, <2>1
  <2> QED BY <1>3, <1>4, <1>5, <1>6, <1>8, <2>1, <2>2, <2>3, <2>4
<1> QED BY <1>12, <1>13

LEMMA ReloadedDoes ==
  ASSUME GatherInv, NEW r \in Replicas, Reloaded(r)
  PROVE  /\ Others(r) /\ Up(r) /\ reloads[r] # <<>> /\ phase[r].held = "SHARE" /\ phase[r].entered
         /\ UNCHANGED <<life, chan, buffer, members, starting, started, internal>>
         /\ reloads'[r] = <<>>
         /\ running'[r] = IF running[r] = Null THEN Null
                          ELSE SetDynamicConfig(running[r], Head(reloads[r]).config)
         /\ phase'[r] = Released(phase[r]) /\ timer'[r] = [timer[r] EXCEPT !.PHASE = Off]
<1>1. AllInv
  BY Gathered
<1>2. /\ DOMAIN timer = Replicas /\ DOMAIN phase = Replicas /\ DOMAIN reloads = Replicas
      /\ DOMAIN running = Replicas
  BY <1>1, Everywhere
<1>3. Up(r) /\ reloads[r] # <<>>
  BY DEF Reloaded, Free
<1>4. Tail(reloads[r]) = <<>> /\ Head(reloads[r]).by = "SHARE" /\ phase[r].held = "SHARE" /\ phase[r].entered
  BY <1>3, OneReload
<1>5. /\ UNCHANGED <<life, chan, buffer, members, starting, started>>
      /\ reloads' = [reloads EXCEPT ![r] = <<>>]
      /\ NextReload(r, Tail(reloads[r]))
      /\ running' = IF running[r] = Null THEN running
                    ELSE [running EXCEPT ![r] = SetDynamicConfig(running[r], Head(reloads[r]).config)]
      /\ phase' = [phase EXCEPT ![r] = Released(phase[r])]
      /\ timer' = [timer EXCEPT ![r].PHASE = Off]
  BY <1>4 DEF Reloaded
<1>6. internal' = internal
  BY <1>4, <1>5 DEF NextReload
<1>7. Others(r)
  BY <1>2, <1>5, <1>6 DEF Others
<1> QED BY <1>2, <1>3, <1>4, <1>5, <1>6, <1>7

\* The steps of the backoff policy have nothing to do.
Idles(r) == BackoffStart(r) \/ HandleRateLimit(r)

LEMMA IdleDoes ==
  ASSUME GatherInv, NEW r \in Replicas, Idles(r)
  PROVE  UNCHANGED chan /\ UNCHANGED gatherVars
<1>1. CASE BackoffStart(r)
  BY <1>1 DEF BackoffStart, roundVars, gatherVars
<1>2. CASE HandleRateLimit(r)
  <2>1. RateInv({1})
    BY Gathered
  <2>2. internal[r].rateLimitMultiplier = 1 /\ IsSeq(limits[r]) /\ Elements(limits[r]) \subseteq {1}
    BY <2>1 DEF RateInv, RatedReplica
  <2>3. PICK queue : queue = limits[r]
    OBVIOUS
  <2>4. IsSeq(queue) /\ queue # <<>> /\ Elements(queue) \subseteq {1}
    BY <1>2, <2>2, <2>3 DEF HandleRateLimit
  <2>5. Elements(queue) = {Head(queue)} \cup Elements(Tail(queue))
    BY <2>4, ElementsTail
  <2>6. Head(queue) = 1
    BY <2>4, <2>5
  <2>7. ~(Head(limits[r]) > internal[r].rateLimitMultiplier)
    BY <2>2, <2>3, <2>6
  <2> QED BY <1>2, <2>7 DEF HandleRateLimit, roundVars, gatherVars
<1> QED BY <1>1, <1>2 DEF Idles

\* What becomes of a message of s that r takes.
Taken(r, s, msg) ==
  /\ msg \in Elements(chan[r][s]) /\ msg.from = s
  /\ \/ /\ msg.type = "HELLO" /\ UNCHANGED <<buffer, timer>>
        /\ chan' = Send(Rest(r, s), r, s, StatusMsg(r, internal[r].rateLimitMultiplier))
     \/ /\ msg.type \in {"STATUS", "SHARE"} /\ chan' = Rest(r, s)
        /\ buffer'[r] = [buffer[r] EXCEPT ![msg.type] = Append(buffer[r][msg.type], msg)]
        /\ timer'[r] = [timer[r] EXCEPT ![msg.type] = DebounceDelay(msg.type)]

LEMMA DeliverDoes ==
  ASSUME GatherInv, NEW r \in Replicas, NEW s \in Replicas, Deliver(s, r)
  PROVE  /\ Others(r) /\ Up(r) /\ Up(s) /\ chan[r][s] # <<>>
         /\ UNCHANGED <<life, phase, members, starting, started, reloads, internal, running>>
         /\ \E msg \in {Head(chan[r][s])} : Taken(r, s, msg)
<1>1. AllInv /\ JoinInv /\ AnswerInv
  BY Gathered
<1>2. DOMAIN timer = Replicas /\ DOMAIN buffer = Replicas /\ ChanOK(chan) /\ MailInv
  BY SMTT(30), <1>1, Everywhere, Domains
<1>3. Up(r) /\ chan[r][s] # <<>>
  BY DEF Deliver, Free
<1>4. Up(s)
  BY <1>1, <1>3 DEF AnswerInv, Present
<1>5. PICK msg : msg = Head(chan[r][s])
  OBVIOUS
<1>6. PICK c : c = Rest(r, s)
  OBVIOUS
<1>7. msg \in Elements(chan[r][s])
  BY <1>2, <1>3, <1>5, <1>6, RestElements
<1>8. msg.from = s /\ msg.type # "CLOSE"
  BY <1>1, <1>2, <1>7 DEF MailInv, ChanMail, JoinInv
<1>9. msg.type \in {"HELLO", "STATUS", "SHARE"}
  <2>1. msg.type \in Types(chan[r][s])
    BY SMTT(30), <1>7 DEF Types, Elements
  <2> QED BY <1>2, <1>8, <2>1 DEF ChanOK, MessageTypes, Buffered
<1>10. /\ UNCHANGED <<life, phase, members, starting, started, reloads, internal, running>>
       /\ IF msg.type = "HELLO"
          THEN /\ chan' = Send(Rest(r, s), r, s, StatusMsg(r, internal[r].rateLimitMultiplier))
               /\ UNCHANGED <<buffer, timer>>
          ELSE /\ chan' = Rest(r, s)
               /\ buffer' = [buffer EXCEPT ![r][msg.type] = Append(@, msg)]
               /\ timer' = [timer EXCEPT ![r][msg.type] = DebounceDelay(msg.type)]
  BY <1>5 DEF Deliver, Rest, schedVars
<1>11. CASE msg.type = "HELLO"
  <2>1. Others(r)
    BY <1>10, <1>11 DEF Others
  <2>2. Taken(r, s, msg)
    BY <1>7, <1>8, <1>10, <1>11 DEF Taken
  <2> QED BY <1>3, <1>4, <1>5, <1>10, <2>1, <2>2
<1>12. CASE msg.type # "HELLO"
  <2>1. /\ buffer' = [buffer EXCEPT ![r][msg.type] = Append(@, msg)]
        /\ timer' = [timer EXCEPT ![r][msg.type] = DebounceDelay(msg.type)]
        /\ chan' = Rest(r, s)
    BY <1>10, <1>12
  <2>2. Others(r)
    BY <1>2, <1>10, <2>1 DEF Others
  <2>3. /\ buffer'[r] = [buffer[r] EXCEPT ![msg.type] = Append(buffer[r][msg.type], msg)]
        /\ timer'[r] = [timer[r] EXCEPT ![msg.type] = DebounceDelay(msg.type)]
    BY <1>2, <2>1
  <2>4. Taken(r, s, msg)
    BY <1>7, <1>8, <1>9, <1>12, <2>1, <2>3 DEF Taken
  <2> QED BY <1>3, <1>4, <1>5, <1>10, <2>2, <2>4
<1> QED BY <1>11, <1>12

\* Time passes when nothing is under way and nobody starts the markets.
LEMMA TickDoes ==
  ASSUME GatherInv, Tick
  PROVE  /\ UNCHANGED <<life, chan, buffer, phase, members, starting, started, reloads, internal, running>>
         /\ \A r \in Replicas : \A t \in Timers :
              timer'[r][t] = IF timer[r][t] > 0 THEN timer[r][t] - 1 ELSE timer[r][t]
         /\ \A r \in Replicas : DOMAIN timer'[r] = Timers
         /\ \A r \in Replicas : Up(r) =>
              /\ starting[r] = <<>>
              /\ \A t \in Timers : timer[r][t] # 0
              /\ \A s \in Replicas : chan[r][s] = <<>>
<1>1. AllInv /\ RoundInv /\ Staying
  BY Gathered
<1>2. DOMAIN timer = Replicas /\ \A r \in Replicas : DOMAIN timer[r] = Timers
  BY <1>1, Everywhere, Private
<1>3. budget.late = {}
  BY <1>1 DEF RoundInv, Punctual
<1>4. timer' = [r \in Replicas |->
        [t \in DOMAIN timer[r] |-> IF timer[r][t] > 0 THEN timer[r][t] - 1 ELSE timer[r][t]]]
  BY DEF Tick
<1>5. \A r \in Replicas : Up(r) =>
        /\ starting[r] = <<>>
        /\ \A t \in Timers : timer[r][t] # 0
        /\ \A s \in Replicas : chan[r][s] = <<>>
  BY <1>1, <1>2, <1>3 DEF Tick, Staying
<1>6. UNCHANGED <<life, chan, buffer, phase, members, starting, started, reloads, internal, running>>
  BY DEF Tick, schedVars
<1> QED BY <1>2, <1>4, <1>5, <1>6

LEMMA GatherCases ==
  ASSUME GatherInv, [Next]_vars
  PROVE  \/ Tick \/ UNCHANGED vars
         \/ \E r \in Replicas :
              \/ Boot(r) \/ WaitsForLock(r) \/ (\E who \in Round : SayHello(r, who)) \/ StatusDue(r)
              \/ MarketsStarted(r) \/ HandleShare(r) \/ Reloaded(r) \/ Idles(r)
              \/ \E s \in Replicas : Deliver(s, r)
<1>1. "HELLO" \in Round /\ "CLUSTER" \in Round
  BY DEF Round
<1> QED BY <1>1, NobodyLeaves DEF Next, Lifecycle, Progress, WaitsForLock, Idles

LEMMA LifeGoesOn ==
  ASSUME GatherInv, [Next]_vars
  PROVE  Staying' /\ Live \subseteq Live' /\ \A x \in Replicas : Up(x) => Up(x)'
<1>1. Staying /\ AllInv
  BY SMTT(30), Gathered
<1>2. life' = life \/ \E r \in Replicas : life' = [life EXCEPT ![r] = "up"]
  <2>1. \A r \in Replicas : HandleShare(r) => life' = life
    BY HandleShareDoes
  <2> QED BY ZenonT(40), <2>1, GatherCases DEF Tick, vars, Boot, WaitsForLock, Resync, Greet, ShareDue, AwaitPhase, SayHello,
          StatusDue, MarketsStarted, Reloaded, Idles, BackoffStart, HandleRateLimit, Deliver
<1>3. DOMAIN life = Replicas
  BY <1>1, Everywhere
<1> QED BY <1>1, <1>2, <1>3 DEF Staying, Live, Up

-----------------------------------------------------------------------------
(* The lock and the timers that lead to it.                                 *)

LEMMA LaunchStep ==
  ASSUME LaunchInv, NEW r \in Replicas, Others(r), LaunchOK(r)'
  PROVE  LaunchInv'
<1>1. ASSUME NEW x \in Replicas \ {r} PROVE LaunchOK(x)'
  BY DEF LaunchInv, Others, LaunchOK, Up
<1> QED BY <1>1 DEF LaunchInv

\* The lock of a replica that is up.
LEMMA LockOfUp ==
  ASSUME GatherInv, NEW r \in Replicas
  PROVE  /\ phase[r] \in LockType /\ (phase[r].held = "none" => phase[r].queue = <<>> /\ ~phase[r].entered)
         /\ LaunchOK(r)
         /\ timer[r] \in [Timers -> Int] /\ DOMAIN buffer[r] = Buffered
<1>1. AllInv /\ LaunchInv
  BY Gathered
<1>2. phase[r] \in LockType /\ timer[r] \in [Timers -> Int] /\ DOMAIN buffer[r] = Buffered
  BY <1>1, Private
<1>3. Sound(phase[r], timer[r].PHASE, reloads[r])
  BY <1>1 DEF AllInv, IInv, LockInv
<1> QED BY <1>1, <1>2, <1>3 DEF LaunchInv, Sound

LEMMA BootLaunch ==
  ASSUME GatherInv, NEW r \in Replicas, Boot(r)
  PROVE  LaunchInv'
<1>1. LaunchInv
  BY Gathered
<1>2. Others(r) /\ life[r] = "off" /\ life'[r] = "up"
  BY BootDoes
<1>3. timer'[r] = [timer[r] EXCEPT !.GREET = InitDelay]
  BY BootDoes
<1>4. UNCHANGED <<chan, buffer, phase, members, starting, started, reloads, internal, running>>
  BY BootDoes
<1>5. /\ LaunchOK(r) /\ timer[r] \in [Timers -> Int]
  BY LockOfUp
<1>6. timer'[r].GREET = InitDelay /\ timer'[r].STATUS = timer[r].STATUS
  BY <1>3, <1>5, Tellings
<1>7. InitDelay # Off
  BY DelaysAreNat DEF Off
<1>8. phase[r] = FreePhase /\ ~started[r] /\ buffer[r].SHARE = <<>>
  BY <1>2, <1>5 DEF LaunchOK
<1>9. Wanted(phase[r]) = {"none"}
  BY <1>8, ElementsEmpty DEF Wanted, FreePhase
<1>10. LaunchOK(r)'
  BY <1>2, <1>4, <1>5, <1>6, <1>7, <1>8, <1>9, Tellings DEF LaunchOK
<1> QED BY <1>1, <1>2, <1>10, LaunchStep

LEMMA WaitLaunch ==
  ASSUME GatherInv, NEW r \in Replicas, WaitsForLock(r)
  PROVE  LaunchInv'
<1>1. LaunchInv
  BY Gathered
<1>2. Others(r) /\ Up(r)
      /\ UNCHANGED <<life, chan, buffer, members, starting, started, reloads, internal, running>>
  BY WaitDoes
<1>3. \/ /\ started[r] /\ timer' = timer
         /\ phase'[r] = Acquired(phase[r], "HELLO")
      \/ /\ timer[r].GREET = 0 /\ timer'[r] = [timer[r] EXCEPT !.GREET = Off]
         /\ phase'[r] = Acquired(phase[r], "HELLO")
      \/ /\ timer[r].SHARE = 0 /\ timer'[r] = [timer[r] EXCEPT !.SHARE = Off]
         /\ phase'[r] = Acquired(phase[r], "SHARE")
  BY WaitDoes
<1>4. /\ phase[r] \in LockType /\ (phase[r].held = "none" => phase[r].queue = <<>> /\ ~phase[r].entered)
      /\ LaunchOK(r) /\ timer[r] \in [Timers -> Int]
  BY LockOfUp
<1>5. PICK who \in {"HELLO", "SHARE"} : phase'[r] = Acquired(phase[r], who)
  BY <1>3
<1>6. PICK q : q = phase'[r]
  OBVIOUS
<1>7. \A x \in {"HELLO", "SHARE", "CLUSTER"} :
        /\ x \in Wanted(q) <=> x \in Wanted(phase[r]) \/ x = who
        /\ x \in Awaited(q) <=> x \in Awaited(phase[r]) \/ x = who
  <2> TAKE x \in {"HELLO", "SHARE", "CLUSTER"}
  <2>1. x # "none"
    BY Tellings
  <2> QED BY <1>4, <1>5, <1>6, <2>1, AcquiredWants
<1>8. CASE started[r] /\ timer' = timer /\ phase'[r] = Acquired(phase[r], "HELLO")
  <2>1. LaunchOK(r)'
    BY <1>2, <1>4, <1>6, <1>7, <1>8, Tellings DEF LaunchOK, Up
  <2> QED BY <1>1, <1>2, <2>1, LaunchStep
<1>9. CASE timer[r].GREET = 0 /\ timer'[r] = [timer[r] EXCEPT !.GREET = Off] /\ phase'[r] = Acquired(phase[r], "HELLO")
  <2>1. who = "HELLO" \/ Acquired(phase[r], who) = Acquired(phase[r], "HELLO")
    BY <1>5, <1>9
  <2>2. "HELLO" \in Wanted(q)
    <3>1. "HELLO" # "none"
      BY Tellings
    <3> QED BY <1>4, <1>6, <1>9, <3>1, AcquiredWants
  <2>3. timer'[r].GREET = Off /\ timer'[r].STATUS = timer[r].STATUS /\ timer'[r].SHARE = timer[r].SHARE
    BY <1>4, <1>9, Tellings
  <2>4. LaunchOK(r)'
    BY <1>2, <1>4, <1>6, <1>7, <2>2, <2>3, Tellings DEF LaunchOK, Up
  <2> QED BY <1>1, <1>2, <2>4, LaunchStep
<1>10. CASE timer[r].SHARE = 0 /\ timer'[r] = [timer[r] EXCEPT !.SHARE = Off] /\ phase'[r] = Acquired(phase[r], "SHARE")
  <2>1. \A x \in {"HELLO", "SHARE", "CLUSTER"} :
          /\ x \in Wanted(q) <=> x \in Wanted(phase[r]) \/ x = "SHARE"
          /\ x \in Awaited(q) <=> x \in Awaited(phase[r]) \/ x = "SHARE"
    <3> TAKE x \in {"HELLO", "SHARE", "CLUSTER"}
    <3>1. x # "none"
      BY Tellings
    <3> QED BY <1>4, <1>6, <1>10, <3>1, AcquiredWants
  <2>2. timer'[r].GREET = timer[r].GREET /\ timer'[r].STATUS = timer[r].STATUS
    BY <1>4, <1>10, Tellings
  <2>3. LaunchOK(r)'
    BY <1>2, <1>4, <1>6, <2>1, <2>2, Tellings DEF LaunchOK, Up
  <2> QED BY <1>1, <1>2, <2>3, LaunchStep
<1> QED BY <1>3, <1>8, <1>9, <1>10

LEMMA SayHelloLaunch ==
  ASSUME GatherInv, NEW r \in Replicas, NEW who \in Round, SayHello(r, who)
  PROVE  LaunchInv'
<1>1. LaunchInv
  BY Gathered
<1>2. Others(r) /\ Up(r) /\ phase[r].held \in Round /\ ~phase[r].entered
      /\ UNCHANGED <<life, buffer, members, starting, started, reloads, internal, running>>
  BY SayHelloDoes
<1>3. phase'[r] = [phase[r] EXCEPT !.entered = TRUE] /\ timer'[r] = [timer[r] EXCEPT !.PHASE = PhaseDelay]
  BY SayHelloDoes
<1>4. phase[r] \in LockType /\ LaunchOK(r) /\ timer[r] \in [Timers -> Int]
  BY LockOfUp
<1>5. PICK q : q = phase'[r]
  OBVIOUS
<1>6. \A x : /\ x \in Wanted(q) <=> x \in Wanted(phase[r])
             /\ x \in Awaited(q) <=> x \in Elements(phase[r].queue)
  BY <1>2, <1>3, <1>4, <1>5, EnteredWants
<1>7. "SHARE" \in Awaited(phase[r]) => "SHARE" \in Elements(phase[r].queue)
  BY <1>2, Tellings DEF Awaited
<1>8. /\ timer'[r].GREET = timer[r].GREET /\ timer'[r].STATUS = timer[r].STATUS
      /\ timer'[r].SHARE = timer[r].SHARE
  BY <1>3, <1>4, Tellings
<1>9. LaunchOK(r)'
  BY <1>2, <1>4, <1>5, <1>6, <1>7, <1>8 DEF LaunchOK, Up
<1> QED BY <1>1, <1>2, <1>9, LaunchStep

\* The end of a round, of a SHARE or of its reload: those in the queue remain.
LEMMA ReleasedLaunch ==
  ASSUME GatherInv, NEW r \in Replicas, Up(r), Others(r), life' = life,
         phase'[r] = Released(phase[r]), phase[r].entered \/ buffer'[r].SHARE = <<>>,
         buffer'[r].SHARE \in {<<>>, buffer[r].SHARE},
         timer'[r].GREET = timer[r].GREET, timer'[r].SHARE = timer[r].SHARE,
         timer'[r].STATUS = Off => buffer'[r].STATUS = <<>>,
         started'[r] <=> (started[r] \/ InRound(phase[r])),
         phase[r].held # "HELLO" \/ started'[r],
         reloads'[r] \in {<<>>, reloads[r]}
  PROVE  LaunchInv'
<1>1. LaunchInv
  BY Gathered
<1>2. phase[r] \in LockType /\ LaunchOK(r) /\ timer[r] \in [Timers -> Int]
  BY LockOfUp
<1>3. PICK p, q : p = phase[r] /\ q = phase'[r]
  OBVIOUS
<1>4. \A x \in {"HELLO", "SHARE", "CLUSTER"} :
        /\ x \in Wanted(q) <=> x \in Elements(p.queue)
        /\ x \in Awaited(q) <=> x \in Elements(p.queue)
  <2> TAKE x \in {"HELLO", "SHARE", "CLUSTER"}
  <2>1. x # "none"
    BY Tellings
  <2> QED BY <1>2, <1>3, <2>1, ReleasedWants
<1>5. \A x : x \in Elements(p.queue) => x \in Wanted(p)
  BY DEF Wanted
<1>6. InRound(p) => timer[r].GREET = Off
  BY <1>2, <1>3 DEF LaunchOK, InRound, Wanted
<1>7. life'[r] = "up"
  BY DEF Up
<1>8. timer'[r].GREET # Off => ~started'[r] /\ Wanted(q) \cap Round = {}
  BY <1>2, <1>3, <1>4, <1>5, <1>6, Tellings DEF LaunchOK
<1>9. ~started'[r] /\ timer'[r].GREET = Off => "HELLO" \in Wanted(q)
  BY <1>2, <1>3, <1>4 DEF LaunchOK, Wanted
<1>10. buffer'[r].SHARE # <<>> => timer'[r].SHARE # Off \/ "SHARE" \in Awaited(q)
  BY <1>2, <1>3, <1>4 DEF LaunchOK, Awaited
<1>11. \A call \in Elements(reloads'[r]) : call.by = "SHARE"
  BY <1>2, ElementsEmpty DEF LaunchOK
<1>12. LaunchOK(r)'
  BY <1>3, <1>7, <1>8, <1>9, <1>10, <1>11 DEF LaunchOK
<1> QED BY <1>1, <1>12, LaunchStep

\* A replica that is up, and what of its queue and timers matters.
LEMMA StatusDueLaunch ==
  ASSUME GatherInv, NEW r \in Replicas, StatusDue(r)
  PROVE  LaunchInv'
<1>1. LaunchInv
  BY Gathered
<1>2. Others(r) /\ Up(r) /\ timer[r].STATUS = 0 /\ UNCHANGED <<life, started, reloads, running>>
      /\ buffer'[r] = [buffer[r] EXCEPT !.STATUS = <<>>]
  BY StatusDueDoes
<1>3. \/ /\ started[r] /\ phase'[r] = Released(phase[r])
         /\ timer'[r] = [[timer[r] EXCEPT !.STATUS = Off] EXCEPT !.PHASE = Off]
      \/ /\ ~started[r] /\ timer'[r] = [timer[r] EXCEPT !.STATUS = Off] /\ phase' = phase
  BY StatusDueDoes
<1>4. /\ phase[r] \in LockType /\ LaunchOK(r)
      /\ timer[r] \in [Timers -> Int] /\ DOMAIN buffer[r] = Buffered
  BY LockOfUp
<1>5. InRound(phase[r])
  BY <1>2, RoundStages
<1>6. buffer'[r].STATUS = <<>> /\ buffer'[r].SHARE = buffer[r].SHARE
  BY <1>2, <1>4, Tellings
<1>7. timer'[r].GREET = timer[r].GREET /\ timer'[r].SHARE = timer[r].SHARE
  <2>1. CASE timer'[r] = [[timer[r] EXCEPT !.STATUS = Off] EXCEPT !.PHASE = Off]
    BY <1>4, <2>1, Tellings
  <2>2. CASE timer'[r] = [timer[r] EXCEPT !.STATUS = Off]
    BY <1>4, <2>2, Tellings
  <2> QED BY <1>3, <2>1, <2>2
<1>8. CASE started[r] /\ phase'[r] = Released(phase[r])
  <2>1. started'[r] <=> (started[r] \/ InRound(phase[r]))
    BY <1>2, <1>8
  <2>2. phase[r].entered /\ started'[r]
    BY <1>2, <1>5, <1>8 DEF InRound
  <2> QED BY <1>2, <1>6, <1>7, <1>8, <2>1, <2>2, ReleasedLaunch
<1>9. CASE phase' = phase
  <2>1. LaunchOK(r)'
    BY <1>2, <1>4, <1>6, <1>7, <1>9 DEF LaunchOK, Up
  <2> QED BY <1>1, <1>2, <2>1, LaunchStep
<1> QED BY SMTT(30), <1>3, <1>8, <1>9

LEMMA MarketsStartedLaunch ==
  ASSUME GatherInv, NEW r \in Replicas, MarketsStarted(r)
  PROVE  LaunchInv'
<1>1. Others(r) /\ Up(r) /\ starting[r] # <<>> /\ UNCHANGED <<life, buffer, members, reloads, internal>>
      /\ started'[r]
  BY MarketsStartedDoes
<1>2. phase'[r] = Released(phase[r]) /\ timer'[r] = [timer[r] EXCEPT !.PHASE = Off]
  BY MarketsStartedDoes
<1>3. InRound(phase[r])
  BY <1>1, RoundStages
<1>4. timer[r] \in [Timers -> Int] /\ LaunchOK(r)
  BY LockOfUp
<1>5. /\ timer'[r].GREET = timer[r].GREET /\ timer'[r].SHARE = timer[r].SHARE
      /\ timer'[r].STATUS = timer[r].STATUS
  BY <1>2, <1>4, Tellings
<1>6. timer'[r].STATUS = Off => buffer'[r].STATUS = <<>>
  BY <1>1, <1>4, <1>5 DEF LaunchOK
<1>7. started'[r] <=> (started[r] \/ InRound(phase[r]))
  BY <1>1, <1>3
<1>8. phase[r].entered
  BY <1>3 DEF InRound
<1> QED BY <1>1, <1>2, <1>5, <1>6, <1>7, <1>8, ReleasedLaunch

LEMMA HandleShareLaunch ==
  ASSUME GatherInv, NEW r \in Replicas, HandleShare(r)
  PROVE  LaunchInv'
<1>1. LaunchInv
  BY Gathered
<1>2. Others(r) /\ Up(r) /\ phase[r].held = "SHARE" /\ ~phase[r].entered /\ reloads[r] = <<>>
      /\ UNCHANGED <<life, chan, timer, starting, started, running>>
      /\ buffer'[r] = [buffer[r] EXCEPT !.SHARE = <<>>]
  BY HandleShareDoes
<1>3. PICK call :
        \/ reloads' = reloads /\ phase'[r] = Released(phase[r])
        \/ /\ reloads'[r] = <<call>> /\ call.by = "SHARE"
           /\ phase'[r] = [phase[r] EXCEPT !.entered = TRUE]
  <2>1. PICK state : state = ShareState(r, buffer[r].SHARE, internal[r].rateLimitMultiplier)
    OBVIOUS
  <2>2. PICK call : call = [by |-> "SHARE", config |-> NormalizeState(r, state)]
    OBVIOUS
  <2>3. \/ reloads' = reloads /\ phase'[r] = Released(phase[r])
        \/ reloads'[r] = <<call>> /\ phase'[r] = [phase[r] EXCEPT !.entered = TRUE]
    BY <2>1, <2>2, HandleShareDoes
  <2> QED BY <2>2, <2>3
<1>4. /\ phase[r] \in LockType /\ LaunchOK(r) /\ DOMAIN buffer[r] = Buffered
  BY LockOfUp
<1>5. buffer'[r].STATUS = buffer[r].STATUS /\ buffer'[r].SHARE = <<>>
  BY <1>2, <1>4, Tellings
<1>6. CASE reloads' = reloads /\ phase'[r] = Released(phase[r])
  <2>1. started'[r] <=> (started[r] \/ InRound(phase[r]))
    BY <1>2, Tellings DEF InRound
  <2>2. timer'[r].STATUS = Off => buffer'[r].STATUS = <<>>
    BY <1>2, <1>4, <1>5 DEF LaunchOK
  <2> QED BY <1>2, <1>5, <1>6, <2>1, <2>2, ReleasedLaunch
<1>7. CASE reloads'[r] = <<call>> /\ call.by = "SHARE" /\ phase'[r] = [phase[r] EXCEPT !.entered = TRUE]
  <2>1. PICK q : q = phase'[r]
    OBVIOUS
  <2>2. \A x : x \in Wanted(q) <=> x \in Wanted(phase[r])
    BY <1>2, <1>4, <1>7, <2>1, EnteredWants
  <2>3. PICK queue : queue = reloads'[r]
    OBVIOUS
  <2>4. Elements(<<call>>) = {call}
    BY DEF Elements
  <2>5. Elements(queue) = {call}
    BY <1>7, <2>3, <2>4
  <2>6. \A c \in Elements(queue) : c.by = "SHARE"
    BY <1>7, <2>5
  <2>7. LaunchOK(r)'
    BY <1>2, <1>4, <1>5, <2>1, <2>2, <2>3, <2>6 DEF LaunchOK, Up
  <2> QED BY <1>1, <1>2, <2>7, LaunchStep
<1> QED BY <1>3, <1>6, <1>7

LEMMA ReloadedLaunch ==
  ASSUME GatherInv, NEW r \in Replicas, Reloaded(r)
  PROVE  LaunchInv'
<1>1. Others(r) /\ Up(r) /\ phase[r].held = "SHARE" /\ phase[r].entered
      /\ UNCHANGED <<life, chan, buffer, members, starting, started, internal>>
      /\ reloads'[r] = <<>>
  BY ReloadedDoes
<1>2. phase'[r] = Released(phase[r]) /\ timer'[r] = [timer[r] EXCEPT !.PHASE = Off]
  BY ReloadedDoes
<1>3. timer[r] \in [Timers -> Int] /\ LaunchOK(r)
  BY LockOfUp
<1>4. /\ timer'[r].GREET = timer[r].GREET /\ timer'[r].SHARE = timer[r].SHARE
      /\ timer'[r].STATUS = timer[r].STATUS
  BY <1>2, <1>3, Tellings
<1>5. timer'[r].STATUS = Off => buffer'[r].STATUS = <<>>
  BY <1>1, <1>3, <1>4 DEF LaunchOK
<1>6. started'[r] <=> (started[r] \/ InRound(phase[r]))
  BY <1>1, Tellings DEF InRound
<1> QED BY <1>1, <1>2, <1>4, <1>5, <1>6, ReleasedLaunch

LEMMA DebouncesAreSet ==
  ASSUME NEW type PROVE DebounceDelay(type) \in Nat /\ DebounceDelay(type) # Off
BY DelaysAreNat DEF Off

LEMMA DeliverLaunch ==
  ASSUME GatherInv, NEW r \in Replicas, NEW s \in Replicas, Deliver(s, r)
  PROVE  LaunchInv'
<1>1. LaunchInv
  BY Gathered
<1>2. Others(r) /\ Up(r)
      /\ UNCHANGED <<life, phase, members, starting, started, reloads, internal, running>>
  BY DeliverDoes
<1>3. PICK msg \in {Head(chan[r][s])} : Taken(r, s, msg)
  BY DeliverDoes
<1>4. /\ phase[r] \in LockType /\ LaunchOK(r)
      /\ timer[r] \in [Timers -> Int] /\ DOMAIN buffer[r] = Buffered
  BY LockOfUp
<1>5. /\ timer'[r].GREET = timer[r].GREET
      /\ \/ buffer'[r].STATUS = buffer[r].STATUS /\ timer'[r].STATUS = timer[r].STATUS
         \/ timer'[r].STATUS # Off
      /\ \/ buffer'[r].SHARE = buffer[r].SHARE /\ timer'[r].SHARE = timer[r].SHARE
         \/ timer'[r].SHARE # Off
  <2>1. CASE UNCHANGED <<buffer, timer>>
    BY <2>1
  <2>2. CASE /\ msg.type \in {"STATUS", "SHARE"}
             /\ buffer'[r] = [buffer[r] EXCEPT ![msg.type] = Append(buffer[r][msg.type], msg)]
             /\ timer'[r] = [timer[r] EXCEPT ![msg.type] = DebounceDelay(msg.type)]
    <3>1. PICK delay : delay = DebounceDelay(msg.type) /\ delay # Off
      BY DebouncesAreSet
    <3>2. CASE msg.type = "STATUS"
      BY <1>4, <2>2, <3>1, <3>2, Tellings
    <3>3. CASE msg.type = "SHARE"
      BY <1>4, <2>2, <3>1, <3>3, Tellings
    <3> QED BY <2>2, <3>2, <3>3
  <2> QED BY <1>3, <2>1, <2>2 DEF Taken
<1>6. LaunchOK(r)'
  BY <1>2, <1>4, <1>5 DEF LaunchOK, Up
<1> QED BY <1>1, <1>2, <1>6, LaunchStep

LEMMA SameLaunch ==
  ASSUME LaunchInv, UNCHANGED gatherVars
  PROVE  LaunchInv'
<1>1. ASSUME NEW r \in Replicas PROVE LaunchOK(r)'
  BY DEF LaunchInv, LaunchOK, gatherVars, Up
<1> QED BY <1>1 DEF LaunchInv

\* What time does to a timer.
LEMMA Ticks ==
  ASSUME GatherInv, Tick, NEW r \in Replicas, NEW t \in {"STATUS", "SHARE", "GREET", "PHASE"}
  PROVE  /\ timer[r][t] \in Int /\ timer'[r][t] = IF timer[r][t] > 0 THEN timer[r][t] - 1 ELSE timer[r][t]
         /\ timer'[r][t] = Off <=> timer[r][t] = Off
<1>1. \A x \in Timers : timer'[r][x] = IF timer[r][x] > 0 THEN timer[r][x] - 1 ELSE timer[r][x]
  BY TickDoes
<1>2. timer[r] \in [Timers -> Int]
  BY LockOfUp
<1>3. t \in Timers
  BY Tellings
<1> QED BY <1>1, <1>2, <1>3 DEF Off

LEMMA TickLaunch ==
  ASSUME GatherInv, Tick
  PROVE  LaunchInv'
<1>1. LaunchInv
  BY Gathered
<1>2. UNCHANGED <<life, chan, buffer, phase, members, starting, started, reloads, internal, running>>
  BY TickDoes
<1>3. ASSUME NEW r \in Replicas PROVE LaunchOK(r)'
  <2>1. LaunchOK(r)
    BY <1>1 DEF LaunchInv
  <2>2. \A t \in {"STATUS", "SHARE", "GREET", "PHASE"} : timer'[r][t] = Off <=> timer[r][t] = Off
    BY Ticks
  <2> QED BY <1>2, <2>1, <2>2 DEF LaunchOK, Up
<1> QED BY <1>3 DEF LaunchInv

LEMMA NextLaunch ==
  ASSUME GatherInv, [Next]_vars
  PROVE  LaunchInv'
<1>1. LaunchInv
  BY Gathered
<1>2. UNCHANGED vars => LaunchInv'
  BY <1>1, SameLaunch DEF vars, gatherVars
<1>3. \A r \in Replicas : Idles(r) => LaunchInv'
  BY <1>1, IdleDoes, SameLaunch
<1> QED BY <1>2, <1>3, GatherCases, TickLaunch, BootLaunch, WaitLaunch, SayHelloLaunch, StatusDueLaunch,
           MarketsStartedLaunch, HandleShareLaunch, ReloadedLaunch, DeliverLaunch

LEMMA InitLaunch == Init => LaunchInv
<1>1. SUFFICES ASSUME Init, NEW r \in Replicas PROVE LaunchOK(r)
  BY DEF LaunchInv
<1>2. /\ life[r] = IF r \in Founders THEN "up" ELSE "off"
      /\ timer[r] = IF r \in Founders THEN [NoTimers EXCEPT !.GREET = InitDelay] ELSE NoTimers
      /\ buffer[r] = [t \in Buffered |-> <<>>] /\ phase[r] = FreePhase /\ ~started[r] /\ reloads[r] = <<>>
  BY <1>1 DEF Init
<1>3. timer[r].GREET = IF r \in Founders THEN InitDelay ELSE Off
  BY <1>2 DEF NoTimers
<1>4. InitDelay # Off
  BY DelaysAreNat DEF Off
<1>5. Wanted(phase[r]) = {"none"} /\ Elements(reloads[r]) = {}
  BY <1>2, ElementsEmpty DEF Wanted, FreePhase
<1>6. buffer[r].SHARE = <<>> /\ buffer[r].STATUS = <<>>
  BY <1>2, Tellings
<1> QED BY <1>2, <1>3, <1>4, <1>5, <1>6, Tellings DEF LaunchOK, Up

-----------------------------------------------------------------------------
(* The configs of the schedulers.                                           *)

LEMMA AppliedStep ==
  ASSUME AppliedInv, NEW r \in Replicas, Others(r), AppliedOK(r)'
  PROVE  AppliedInv'
<1>1. ASSUME NEW x \in Replicas \ {r} PROVE AppliedOK(x)'
  BY DEF AppliedInv, Others, AppliedOK
<1> QED BY <1>1 DEF AppliedInv

LEMMA SameApplied ==
  ASSUME AppliedInv, UNCHANGED <<starting, started, reloads, internal, running>>
  PROVE  AppliedInv'
<1>1. ASSUME NEW r \in Replicas PROVE AppliedOK(r)'
  BY DEF AppliedInv, AppliedOK
<1> QED BY <1>1 DEF AppliedInv

LEMMA ConfigOf ==
  ASSUME GatherInv, NEW r \in Replicas
  PROVE  /\ AppliedOK(r) /\ internal[r] = [f \in ConfigFields |-> internal[r][f]]
         /\ DOMAIN internal[r] = ConfigFields /\ internal[r].rateLimitMultiplier \in {1}
<1>1. RateInv({1}) /\ AppliedInv
  BY Gathered
<1>2. AppliedOK(r) /\ internal[r].rateLimitMultiplier \in {1}
  BY <1>1 DEF AppliedInv, RateInv, RatedReplica
<1> QED BY <1>2 DEF AppliedOK

LEMMA NamesAreReplicas ==
  ASSUME NEW l, NEW list, Sorted(l, list)
  PROVE  Names(l, list) \in SUBSET Replicas
BY DEF Sorted, Names, Elements

\* The internal scheduler of a replica that starts or has started has a config.
LEMMA InternalIsThere ==
  ASSUME GatherInv, NEW r \in Replicas, started[r] \/ starting[r] # <<>>
  PROVE  internal[r] # Null
<1>1. ShareInv
  BY Gathered
<1>2. "replicaMembers" \in Lists /\ "clusterMembers" \in Lists
  BY DEF Lists
<1>3. \E A, B \in SUBSET Replicas : /\ Says(internal[r], r, "replicaMembers", A)
                                    /\ Says(internal[r], r, "clusterMembers", B)
  <2>1. CASE started[r]
    <3>1. Placed(r, "replicaMembers") /\ Placed(r, "clusterMembers")
      BY <1>1, <1>2 DEF ShareInv, SharedOK
    <3> QED BY <2>1, <3>1 DEF Placed, PlacedWith
  <2>2. CASE starting[r] # <<>>
    <3>1. PICK state : state = Head(starting[r])
      OBVIOUS
    <3>2. Launches(r, state)
      BY <1>1, <2>2, <3>1 DEF ShareInv, SharedOK
    <3>3. \A l \in Lists : Says(internal[r], r, l, Names(l, state[l])) /\ Sorted(l, state[l])
      BY <3>2 DEF Launches, Current, Consistent
    <3>4. \A l \in Lists : Names(l, state[l]) \in SUBSET Replicas
      BY <3>3, NamesAreReplicas
    <3> QED BY <1>2, <3>3, <3>4
  <2> QED BY <2>1, <2>2
<1>4. PICK A \in SUBSET Replicas, B \in SUBSET Replicas :
        Says(internal[r], r, "replicaMembers", A) /\ Says(internal[r], r, "clusterMembers", B)
  BY <1>3
<1>5. PICK c : c = internal[r] /\ c = [f \in ConfigFields |-> c[f]] /\ c.rateLimitMultiplier \in {1}
  BY ConfigOf
<1>6. Says(c, r, "replicaMembers", A) /\ Says(c, r, "clusterMembers", B)
  BY <1>4, <1>5
<1>7. c # Null
  BY <1>5, <1>6, ConfigIsThere
<1> QED BY <1>5, <1>7

LEMMA StatusDueApplied ==
  ASSUME GatherInv, NEW r \in Replicas, StatusDue(r)
  PROVE  AppliedInv'
<1>1. AppliedInv
  BY SMTT(30), Gathered
<1>2. Others(r) /\ UNCHANGED <<life, started, reloads, running>>
  BY StatusDueDoes
<1>3. PICK state :
      \/ UNCHANGED <<starting, internal>>
      \/ /\ ~started[r] /\ starting'[r] = <<state>>
         /\ internal'[r] = SetDynamicConfig(internal[r], NormalizeState(r, state))
  BY StatusDueDoes
<1>4. CASE UNCHANGED <<starting, internal>>
  BY <1>1, <1>2, <1>4, SameApplied
<1>5. CASE /\ ~started[r] /\ starting'[r] = <<state>>
           /\ internal'[r] = SetDynamicConfig(internal[r], NormalizeState(r, state))
  <2>1. PICK new : new = internal'[r]
    OBVIOUS
  <2>2. DOMAIN internal[r] = ConfigFields
    BY ConfigOf
  <2>3. /\ new = [f \in ConfigFields |-> new[f]]
        /\ SetDynamicConfig(new, NormalizeState(r, state)) = new
    BY <1>5, <2>1, <2>2, SetTwice
  <2>4. PICK todo : todo = starting'[r]
    OBVIOUS
  <2>5. Head(todo) = state
    BY <1>5, <2>4
  <2>6. AppliedOK(r)'
    BY <1>2, <1>5, <2>1, <2>3, <2>4, <2>5 DEF AppliedOK
  <2> QED BY <1>1, <1>2, <2>6, AppliedStep
<1> QED BY <1>3, <1>4, <1>5

LEMMA MarketsStartedApplied ==
  ASSUME GatherInv, NEW r \in Replicas, MarketsStarted(r)
  PROVE  AppliedInv'
<1>1. AppliedInv
  BY Gathered
<1>2. Others(r) /\ Up(r) /\ starting[r] # <<>>
      /\ UNCHANGED <<life, buffer, members, reloads, internal>>
      /\ starting'[r] = <<>> /\ started'[r]
      /\ running'[r] = SetDynamicConfig(internal[r], NormalizeState(r, Head(starting[r])))
  BY MarketsStartedDoes
<1>3. internal[r] # Null
  BY <1>2, InternalIsThere
<1>4. AppliedOK(r)
  BY ConfigOf
<1>5. running'[r] = internal[r]
  BY <1>2, <1>4 DEF AppliedOK
<1>6. reloads[r] = <<>>
  BY <1>2, RoundStages
<1>7. AppliedOK(r)'
  BY <1>2, <1>3, <1>4, <1>5, <1>6 DEF AppliedOK
<1> QED BY <1>1, <1>2, <1>7, AppliedStep

LEMMA HandleShareApplied ==
  ASSUME GatherInv, NEW r \in Replicas, HandleShare(r)
  PROVE  AppliedInv'
<1>1. AppliedInv
  BY Gathered
<1>2. Others(r) /\ Up(r) /\ phase[r].held = "SHARE" /\ reloads[r] = <<>>
      /\ UNCHANGED <<life, chan, timer, starting, started, running>>
  BY HandleShareDoes
<1>3. PICK state :
        \/ UNCHANGED <<members, reloads, internal>>
        \/ /\ reloads'[r] = <<[by |-> "SHARE", config |-> NormalizeState(r, state)]>>
           /\ internal'[r] = SetDynamicConfig(internal[r], NormalizeState(r, state))
  BY HandleShareDoes
<1>4. CASE UNCHANGED <<members, reloads, internal>>
  BY <1>1, <1>2, <1>4, SameApplied
<1>5. CASE /\ reloads'[r] = <<[by |-> "SHARE", config |-> NormalizeState(r, state)]>>
           /\ internal'[r] = SetDynamicConfig(internal[r], NormalizeState(r, state))
  <2>1. starting[r] = <<>>
    <3>1. ~InRound(phase[r])
      BY <1>2, Tellings DEF InRound
    <3> QED BY <1>2, <3>1, RoundStages
  <2>2. DOMAIN internal[r] = ConfigFields /\ AppliedOK(r)
    BY ConfigOf
  <2>3. PICK c, call : c = NormalizeState(r, state) /\ call = [by |-> "SHARE", config |-> c]
    OBVIOUS
  <2>4. PICK new, calls : new = internal'[r] /\ calls = reloads'[r]
    OBVIOUS
  <2>5. new = [f \in ConfigFields |-> new[f]]
    BY <1>5, <2>2, <2>4, SetTwice
  <2>6. calls = <<call>>
    BY <1>5, <2>3, <2>4
  <2>7. calls # <<>> /\ Head(calls).config = c
    BY <2>3, <2>6
  <2>8. new = SetDynamicConfig(internal[r], c)
    BY <1>5, <2>3, <2>4
  <2>9. started[r] => running[r] # Null /\ internal[r] = running[r]
    BY <1>2, <2>2 DEF AppliedOK
  <2>10. AppliedOK(r)'
    BY <1>2, <2>1, <2>4, <2>5, <2>7, <2>8, <2>9 DEF AppliedOK
  <2> QED BY <1>1, <1>2, <2>10, AppliedStep
<1> QED BY <1>3, <1>4, <1>5

LEMMA ReloadedApplied ==
  ASSUME GatherInv, NEW r \in Replicas, Reloaded(r)
  PROVE  AppliedInv'
<1>1. AppliedInv
  BY Gathered
<1>2. Others(r) /\ Up(r) /\ reloads[r] # <<>> /\ phase[r].held = "SHARE"
      /\ UNCHANGED <<life, chan, buffer, members, starting, started, internal>>
      /\ reloads'[r] = <<>>
      /\ running'[r] = IF running[r] = Null THEN Null
                       ELSE SetDynamicConfig(running[r], Head(reloads[r]).config)
  BY ReloadedDoes
<1>3. AppliedOK(r)
  BY ConfigOf
<1>4. started[r] => internal[r] # Null
  BY InternalIsThere
<1>5. started[r] => running'[r] = internal[r]
  BY <1>2, <1>3 DEF AppliedOK
<1>6. starting[r] = <<>>
  <2>1. ~InRound(phase[r])
    BY <1>2, Tellings DEF InRound
  <2> QED BY <1>2, <2>1, RoundStages
<1>7. AppliedOK(r)'
  BY <1>2, <1>3, <1>4, <1>5, <1>6 DEF AppliedOK
<1> QED BY <1>1, <1>2, <1>7, AppliedStep

LEMMA NextApplied ==
  ASSUME GatherInv, [Next]_vars
  PROVE  AppliedInv'
<1>1. AppliedInv
  BY Gathered
<1>2. UNCHANGED vars => AppliedInv'
  BY <1>1, SameApplied DEF vars
<1>3. ASSUME Tick PROVE AppliedInv'
  <2>1. UNCHANGED <<starting, started, reloads, internal, running>>
    BY <1>3, TickDoes
  <2> QED BY <1>1, <2>1, SameApplied
<1>4. ASSUME NEW r \in Replicas, Boot(r) PROVE AppliedInv'
  <2>1. UNCHANGED <<starting, started, reloads, internal, running>>
    BY <1>4, BootDoes
  <2> QED BY <1>1, <2>1, SameApplied
<1>5. ASSUME NEW r \in Replicas, WaitsForLock(r) PROVE AppliedInv'
  <2>1. UNCHANGED <<starting, started, reloads, internal, running>>
    BY <1>5, WaitDoes
  <2> QED BY <1>1, <2>1, SameApplied
<1>6. ASSUME NEW r \in Replicas, NEW who \in Round, SayHello(r, who) PROVE AppliedInv'
  <2>1. UNCHANGED <<starting, started, reloads, internal, running>>
    BY <1>6, SayHelloDoes
  <2> QED BY <1>1, <2>1, SameApplied
<1>7. ASSUME NEW r \in Replicas, Idles(r) PROVE AppliedInv'
  <2>1. UNCHANGED gatherVars
    BY <1>7, IdleDoes
  <2>2. UNCHANGED <<starting, started, reloads, internal, running>>
    BY <2>1 DEF gatherVars
  <2> QED BY <1>1, <2>2, SameApplied
<1>8. ASSUME NEW r \in Replicas, NEW s \in Replicas, Deliver(s, r) PROVE AppliedInv'
  <2>1. UNCHANGED <<starting, started, reloads, internal, running>>
    BY <1>8, DeliverDoes
  <2> QED BY <1>1, <2>1, SameApplied
<1> QED BY <1>2, <1>3, <1>4, <1>5, <1>6, <1>7, <1>8, GatherCases, StatusDueApplied,
           MarketsStartedApplied, HandleShareApplied, ReloadedApplied

LEMMA InitApplied == Init => AppliedInv
<1>1. SUFFICES ASSUME Init, NEW r \in Replicas PROVE AppliedOK(r)
  BY DEF AppliedInv
<1>2. internal[r] = DefaultConfig /\ starting[r] = <<>> /\ started[r] = FALSE
  BY <1>1 DEF Init
<1>3. DefaultConfig = [f \in ConfigFields |-> DefaultConfig[f]]
  BY DEF DefaultConfig, ConfigFields
<1> QED BY <1>2, <1>3 DEF AppliedOK

-----------------------------------------------------------------------------
(* Who has been asked and has answered.                                     *)

LEMMA SingleEmpty ==
  ASSUME NEW t PROVE Single(<<>>, t)
BY DEF Single

LEMMA SingleAppend ==
  ASSUME NEW q, IsSeq(q), NEW t, Single(q, t), NEW m, m.type # t \/ t \notin Types(q)
  PROVE  Single(Append(q, m), t)
<1>1. PICK more : more = Append(q, m)
  OBVIOUS
<1>2. /\ Len(q) \in Nat /\ DOMAIN q = 1..Len(q)
      /\ DOMAIN more = DOMAIN q \cup {Len(q) + 1} /\ Len(q) + 1 \notin DOMAIN q
      /\ \A i \in DOMAIN q : more[i] = q[i]
      /\ more[Len(q) + 1] = m
  BY <1>1, AppendElements
<1>3. m.type = t => \A i \in DOMAIN q : q[i].type # t
  BY DEF Types
<1>4. ASSUME NEW i \in DOMAIN more, NEW j \in DOMAIN more, more[i].type = t, more[j].type = t
      PROVE  i = j
  <2>1. CASE m.type = t
    BY <1>2, <1>3, <1>4, <2>1
  <2>2. CASE m.type # t
    <3>1. i \in DOMAIN q /\ j \in DOMAIN q /\ q[i].type = t /\ q[j].type = t
      BY <1>2, <1>4, <2>2
    <3> QED BY <3>1 DEF Single
  <2> QED BY <2>1, <2>2
<1> QED BY <1>1, <1>4 DEF Single

LEMMA SingleTail ==
  ASSUME NEW q, IsSeq(q), q # <<>>, NEW t, Single(q, t)
  PROVE  Single(Tail(q), t) /\ (Head(q).type = t => t \notin Types(Tail(q)))
<1>1. PICK rest : rest = Tail(q)
  OBVIOUS
<1>2. /\ Head(q) = q[1] /\ 1 \in DOMAIN q
      /\ \A i \in DOMAIN rest : i \in Nat \ {0} /\ i + 1 \in DOMAIN q /\ rest[i] = q[i + 1]
  BY <1>1, TailElements
<1>3. ASSUME NEW i \in DOMAIN rest, NEW j \in DOMAIN rest, rest[i].type = t, rest[j].type = t
      PROVE  i = j
  <2>1. i + 1 = j + 1
    BY <1>2, <1>3 DEF Single
  <2> QED BY <1>2, <2>1
<1>4. ASSUME Head(q).type = t, NEW i \in DOMAIN rest, rest[i].type = t PROVE FALSE
  <2>1. i + 1 = 1
    BY <1>2, <1>4 DEF Single
  <2> QED BY <1>2, <2>1
<1>5. Head(q).type = t => t \notin Types(rest)
  BY <1>4 DEF Types
<1> QED BY <1>1, <1>3, <1>5 DEF Single

LEMMA RestQueue ==
  ASSUME ChanOK(chan), NEW r \in Replicas, NEW s \in Replicas, chan[r][s] # <<>>,
         NEW c, c = Rest(r, s), NEW d \in Replicas, NEW x \in Replicas, NEW t, Single(chan[d][x], t)
  PROVE  /\ Single(c[d][x], t)
         /\ t \in Types(c[d][x]) => t \in Types(chan[d][x])
         /\ d # r \/ x # s \/ Head(chan[r][s]).type # t =>
              (t \in Types(chan[d][x]) => t \in Types(c[d][x]))
         /\ d = r /\ x = s /\ Head(chan[r][s]).type = t => t \notin Types(c[d][x])
<1>1. CASE d # r \/ x # s
  <2>1. c[d][x] = chan[d][x]
    BY <1>1, RestEffect
  <2> QED BY <1>1, <2>1
<1>2. CASE d = r /\ x = s
  <2>1. c[r][s] = Tail(chan[r][s])
    BY DEF Rest, ChanOK
  <2>2. PICK q, rest : q = chan[r][s] /\ rest = Tail(q)
    OBVIOUS
  <2>3. IsSeq(q) /\ q # <<>>
    BY <2>2 DEF ChanOK
  <2>4. Types(q) = {Head(q).type} \cup Types(rest)
    BY <2>2, <2>3, TypesTail
  <2>5. Single(q, t)
    BY <1>2, <2>2
  <2>6. Single(rest, t) /\ (Head(q).type = t => t \notin Types(rest))
    BY <2>2, <2>3, <2>5, SingleTail
  <2> QED BY <1>2, <2>1, <2>2, <2>4, <2>6
<1> QED BY <1>1, <1>2

Put(c, r, s, msg) == [c EXCEPT ![r][s] = Append(c[r][s], msg)]

LEMMA SentQueue ==
  ASSUME NEW c, ChanOK(c), NEW r \in Replicas, NEW s \in Replicas, NEW msg,
         NEW n, n = Put(c, r, s, msg),
         NEW d \in Replicas, NEW x \in Replicas, NEW t,
         Single(c[d][x], t), d # r \/ x # s \/ msg.type # t \/ t \notin Types(c[d][x])
  PROVE  /\ Single(n[d][x], t)
         /\ t \in Types(n[d][x]) <=> t \in Types(c[d][x]) \/ (d = r /\ x = s /\ t = msg.type)
<1>1. CASE d # r \/ x # s
  <2>1. n[d][x] = c[d][x]
    BY <1>1 DEF ChanOK, Put
  <2> QED BY <1>1, <2>1
<1>2. CASE d = r /\ x = s
  <2>1. PICK q : q = c[r][s]
    OBVIOUS
  <2>2. n[r][s] = Append(q, msg) /\ IsSeq(q)
    BY <2>1 DEF ChanOK, Put
  <2>3. Types(Append(q, msg)) = Types(q) \cup {msg.type}
    BY <2>2, TypesAppend
  <2>4. Single(Append(q, msg), t)
    BY <1>2, <2>1, <2>2, SingleAppend
  <2> QED BY <1>2, <2>1, <2>2, <2>3, <2>4
<1> QED BY <1>1, <1>2

LEMMA BroadcastQueue ==
  ASSUME ChanOK(chan), NEW s \in Replicas, NEW msg, msg.type \in MessageTypes, NEW n, n = Broadcast(s, msg),
         NEW d \in Replicas, NEW x \in Replicas, NEW t,
         Single(chan[d][x], t), x # s \/ ~Up(d) \/ msg.type # t \/ t \notin Types(chan[d][x])
  PROVE  /\ Single(n[d][x], t)
         /\ t \in Types(n[d][x]) <=> t \in Types(chan[d][x]) \/ (Up(d) /\ x = s /\ t = msg.type)
<1>1. n[d][x] = IF Up(d) /\ x = s THEN Append(chan[d][x], msg) ELSE chan[d][x]
  BY DEF Broadcast, ChanOK
<1>2. IsSeq(chan[d][x])
  BY DEF ChanOK
<1>3. PICK q : q = chan[d][x]
  OBVIOUS
<1>4. CASE Up(d) /\ x = s
  <2>1. Types(Append(q, msg)) = Types(q) \cup {msg.type}
    BY <1>2, <1>3, TypesAppend
  <2>2. Single(Append(q, msg), t)
    BY <1>2, <1>3, <1>4, SingleAppend
  <2> QED BY <1>1, <1>3, <1>4, <2>1, <2>2
<1>5. CASE ~(Up(d) /\ x = s)
  BY <1>1, <1>5
<1> QED BY <1>4, <1>5

\* A pair whose questions and answers stay where they are.
LEMMA PairKept ==
  ASSUME NEW z, NEW q, OnceAsked(z, q),
         Single(chan'[q][z], "HELLO"), Single(chan'[z][q], "STATUS"),
         Asks(z, q)' <=> Asks(z, q), Replies(z, q)' <=> Replies(z, q),
         Counted(z, q)' => Counted(z, q)
  PROVE  OnceAsked(z, q)'
BY DEF OnceAsked

LEMMA AnswersOf ==
  ASSUME GatherInv, NEW z \in Replicas
  PROVE  /\ \A q \in Replicas : OnceAsked(z, q)
         /\ OneEach(buffer[z].STATUS) /\ Expected(z)
<1>1. AnswerInv
  BY Gathered
<1> QED BY <1>1 DEF AnswerInv

LEMMA ExpectedKept ==
  ASSUME NEW z, Expected(z), InRound(phase'[z]) /\ starting'[z] = <<>> =>
           InRound(phase[z]) /\ starting[z] = <<>>,
         Live' = Live, members'[z] = members[z], timer'[z].STATUS = timer[z].STATUS,
         \A q \in Live : /\ timer'[q].GREET = timer[q].GREET \/ ~(timer[q].GREET > Patience(z))
                         /\ (Asks(z, q) => Asks(z, q)') /\ (Replies(z, q) => Replies(z, q)')
                         /\ (Counted(z, q) => Counted(z, q)')
  PROVE  Expected(z)'
<1>1. Patience(z)' = Patience(z)
  BY DEF Patience
<1>2. SUFFICES ASSUME InRound(phase'[z]) /\ starting'[z] = <<>>, NEW q \in Live
               PROVE  \/ Asks(z, q)' \/ Replies(z, q)' \/ Counted(z, q)'
                      \/ Stranger(z, q)' /\ timer'[q].GREET > Patience(z)'
  BY DEF Expected
<1>3. \/ Asks(z, q) \/ Replies(z, q) \/ Counted(z, q)
      \/ Stranger(z, q) /\ timer[q].GREET > Patience(z)
  BY <1>2 DEF Expected
<1>4. Stranger(z, q) => Stranger(z, q)'
  BY DEF Stranger
<1> QED BY <1>1, <1>2, <1>3, <1>4

LEMMA PatienceBounds ==
  ASSUME GatherInv, NEW z \in Replicas, InRound(phase[z]), starting[z] = <<>>
  PROVE  /\ Up(z) /\ Patience(z) \in 0..StatusDelay
         /\ timer[z].STATUS = Off => OwnAnswer(z)
         /\ Asking(z) => Patience(z) = StatusDelay
<1>1. RoundInv /\ Staying /\ LaunchInv
  BY Gathered
<1>2. Up(z)
  <2>1. LaunchOK(z) /\ life[z] \in {"off", "up"}
    BY <1>1 DEF LaunchInv, Staying
  <2> QED BY <2>1 DEF LaunchOK, Up, InRound, FreePhase
<1>3. OnTime(phase[z], timer[z], starting[z], Asking(z), OwnAnswer(z))
  BY <1>1, <1>2, RoundOfUp
<1>4. StatusDelay \in Nat \ {0}
  BY DelaysInOrder
<1> QED BY <1>2, <1>3, <1>4 DEF OnTime, Asked, Debouncing, StartingUp, Patience, Off

\* Whoever is up stays so, and so is whoever sends something.
LEMMA PresentStep ==
  ASSUME GatherInv, [Next]_vars,
         \A d, s \in Replicas : chan'[d][s] # <<>> => chan[d][s] # <<>> \/ Up(s),
         \A z \in Replicas : \A t \in Buffered : \A m \in Elements(buffer'[z][t]) :
            m \in Elements(buffer[z][t]) \/ (Up(m.from) /\ m.from \in Replicas)
  PROVE  Present'
<1>1. AnswerInv /\ AllInv
  BY Gathered
<1>2. \A x \in Replicas : Up(x) => Up(x)'
  BY LifeGoesOn
<1>3. MailInv
  BY <1>1, Domains
<1>4. ASSUME NEW d \in Replicas, NEW s \in Replicas, chan'[d][s] # <<>> PROVE Up(s)'
  BY <1>1, <1>2, <1>4 DEF AnswerInv, Present
<1>5. ASSUME NEW z \in Replicas, NEW t \in Buffered, NEW m \in Elements(buffer'[z][t]) PROVE Up(m.from)'
  <2>1. m \in Elements(buffer[z][t]) => Up(m.from) /\ m.from \in Replicas
    BY <1>1, <1>3 DEF AnswerInv, Present, MailInv, BufferMail, Letter
  <2>2. Up(m.from) /\ m.from \in Replicas
    BY <2>1
  <2>3. PICK f \in Replicas : f = m.from
    BY <2>2
  <2>4. Up(f)'
    BY <1>2, <2>2, <2>3
  <2> QED BY <2>3, <2>4
<1> QED BY <1>4, <1>5 DEF Present

\* A step of r that sends a SHARE, if anything, and receives nothing.
Relays(r) ==
  /\ Others(r) /\ life' = life /\ Up(r)
  /\ chan' = chan \/ \E msg : chan' = Broadcast(r, msg) /\ msg.type = "SHARE"
  /\ \A t \in Buffered : buffer'[r][t] \in {<<>>, buffer[r][t]}
  /\ InRound(phase'[r]) /\ starting'[r] = <<>> =>
       /\ InRound(phase[r]) /\ starting[r] = <<>> /\ members'[r] = members[r]
       /\ buffer'[r].STATUS = buffer[r].STATUS /\ timer'[r].STATUS = timer[r].STATUS
  /\ timer'[r].GREET = timer[r].GREET \/ timer[r].GREET = 0

LEMMA RelayedQueues ==
  ASSUME GatherInv, NEW r \in Replicas, Relays(r), NEW z \in Replicas, NEW q \in Replicas
  PROVE  /\ Single(chan'[q][z], "HELLO") /\ Single(chan'[z][q], "STATUS")
         /\ Asks(z, q)' <=> Asks(z, q)
         /\ Replies(z, q)' <=> Replies(z, q)
         /\ chan'[q][z] # <<>> => chan[q][z] # <<>> \/ Up(z)
<1>1. Single(chan[q][z], "HELLO") /\ Single(chan[z][q], "STATUS")
  BY AnswersOf DEF OnceAsked
<1>2. CASE chan' = chan
  BY <1>1, <1>2 DEF Asks, Replies
<1>3. CASE chan' # chan
  <2>1. PICK msg : chan' = Broadcast(r, msg) /\ msg.type = "SHARE"
    BY <1>3 DEF Relays
  <2>2. PICK n : n = chan'
    OBVIOUS
  <2>3. n = Broadcast(r, msg) /\ msg.type \in MessageTypes
    BY <2>1, <2>2, Tellings DEF MessageTypes
  <2>4. ChanOK(chan)
    <3>1. AllInv
      BY Gathered
    <3> QED BY <3>1, Domains
  <2>5. msg.type # "HELLO" /\ msg.type # "STATUS"
    BY <2>1
  <2>6. /\ Single(n[q][z], "HELLO")
        /\ "HELLO" \in Types(n[q][z]) <=> "HELLO" \in Types(chan[q][z])
    <3>1. Single(chan[q][z], "HELLO") /\ msg.type # "HELLO"
      BY <1>1, <2>5
    <3>2. /\ Single(n[q][z], "HELLO")
          /\ "HELLO" \in Types(n[q][z])
               <=> "HELLO" \in Types(chan[q][z]) \/ (Up(q) /\ z = r /\ "HELLO" = msg.type)
      BY ONLY <2>3, <2>4, <3>1, r \in Replicas, q \in Replicas, z \in Replicas, BroadcastQueue
    <3> QED BY <3>1, <3>2
  <2>7. /\ Single(n[z][q], "STATUS")
        /\ "STATUS" \in Types(n[z][q]) <=> "STATUS" \in Types(chan[z][q])
    <3>1. Single(chan[z][q], "STATUS") /\ msg.type # "STATUS"
      BY <1>1, <2>5
    <3>2. /\ Single(n[z][q], "STATUS")
          /\ "STATUS" \in Types(n[z][q])
               <=> "STATUS" \in Types(chan[z][q]) \/ (Up(z) /\ q = r /\ "STATUS" = msg.type)
      BY ONLY <2>3, <2>4, <3>1, r \in Replicas, q \in Replicas, z \in Replicas, BroadcastQueue
    <3> QED BY <3>1, <3>2
  <2>8. n[q][z] # <<>> => chan[q][z] # <<>> \/ z = r
    BY <2>3, <2>4 DEF Broadcast, ChanOK
  <2> QED BY <2>2, <2>6, <2>7, <2>8 DEF Asks, Replies, Relays
<1> QED BY <1>2, <1>3

LEMMA RelayAnswers ==
  ASSUME GatherInv, [Next]_vars, NEW r \in Replicas, Relays(r)
  PROVE  AnswerInv'
<1>1. /\ Others(r) /\ life' = life /\ Up(r)
      /\ \A t \in Buffered : buffer'[r][t] \in {<<>>, buffer[r][t]}
      /\ timer'[r].GREET = timer[r].GREET \/ timer[r].GREET = 0
  BY DEF Relays
<1>2. \A z \in Replicas : \A t \in Buffered : buffer'[z][t] \in {<<>>, buffer[z][t]}
  BY <1>1 DEF Others
<1>3. \A z \in Replicas : \A t \in Buffered : Elements(buffer'[z][t]) \subseteq Elements(buffer[z][t])
  BY <1>2, ElementsEmpty
<1>4. Present'
  <2>1. \A d, s \in Replicas : chan'[d][s] # <<>> => chan[d][s] # <<>> \/ Up(s)
    BY RelayedQueues
  <2> QED BY <1>3, <2>1, PresentStep
<1>5. ASSUME NEW z \in Replicas, NEW q \in Replicas PROVE OnceAsked(z, q)'
  <2>1. Counted(z, q)' => Counted(z, q)
    BY <1>3, Tellings DEF Counted, Senders
  <2>2. OnceAsked(z, q)
    BY AnswersOf
  <2>3. Single(chan'[q][z], "HELLO") /\ Single(chan'[z][q], "STATUS")
    BY RelayedQueues
  <2>4. (Asks(z, q)' <=> Asks(z, q)) /\ (Replies(z, q)' <=> Replies(z, q))
    BY RelayedQueues
  <2> QED BY <2>1, <2>2, <2>3, <2>4, PairKept
<1>6. ASSUME NEW z \in Replicas PROVE OneEach(buffer'[z].STATUS)
  <2>1. OneEach(buffer[z].STATUS)
    BY AnswersOf
  <2>2. buffer'[z].STATUS \in {<<>>, buffer[z].STATUS}
    BY <1>2, Tellings
  <2>3. OneEach(<<>>)
    BY DEF OneEach
  <2> QED BY <2>1, <2>2, <2>3
<1>7. ASSUME NEW z \in Replicas PROVE Expected(z)'
  <2>1. SUFFICES ASSUME InRound(phase'[z]) /\ starting'[z] = <<>> PROVE Expected(z)'
    BY DEF Expected
  <2>2. /\ InRound(phase[z]) /\ starting[z] = <<>> /\ members'[z] = members[z]
        /\ buffer'[z].STATUS = buffer[z].STATUS /\ timer'[z].STATUS = timer[z].STATUS
    BY <2>1 DEF Relays, Others
  <2>3. Live' = Live
    BY <1>1 DEF Live, Up
  <2>4. Expected(z)
    BY AnswersOf
  <2>5. Patience(z) \in 0..StatusDelay /\ StatusDelay \in Nat
    BY <2>2, PatienceBounds, DelaysInOrder
  <2>6. ASSUME NEW q \in Live
        PROVE  /\ timer'[q].GREET = timer[q].GREET \/ ~(timer[q].GREET > Patience(z))
               /\ (Asks(z, q) => Asks(z, q)') /\ (Replies(z, q) => Replies(z, q)')
               /\ (Counted(z, q) => Counted(z, q)')
    <3>1. q \in Replicas
      BY DEF Live
    <3>2. timer'[q].GREET = timer[q].GREET \/ timer[q].GREET = 0
      BY <1>1, <3>1 DEF Others
    <3>3. timer'[q].GREET = timer[q].GREET \/ ~(timer[q].GREET > Patience(z))
      BY <2>5, <3>2
    <3>4. (Asks(z, q)' <=> Asks(z, q)) /\ (Replies(z, q)' <=> Replies(z, q))
      BY <3>1, RelayedQueues
    <3>5. Counted(z, q) => Counted(z, q)'
      BY <2>2 DEF Counted
    <3> QED BY <3>3, <3>4, <3>5
  <2> QED BY <2>2, <2>3, <2>4, <2>6, ExpectedKept
<1> QED BY <1>4, <1>5, <1>6, <1>7 DEF AnswerInv

LEMMA WaitRelays ==
  ASSUME GatherInv, NEW r \in Replicas, WaitsForLock(r)
  PROVE  Relays(r)
<1>1. Others(r) /\ Up(r)
      /\ UNCHANGED <<life, chan, buffer, members, starting, started, reloads, internal, running>>
  BY WaitDoes
<1>2. \/ /\ timer' = timer
         /\ phase'[r] = Acquired(phase[r], "HELLO")
      \/ /\ timer[r].GREET = 0 /\ timer'[r] = [timer[r] EXCEPT !.GREET = Off]
         /\ phase'[r] = Acquired(phase[r], "HELLO")
      \/ /\ timer[r].SHARE = 0 /\ timer'[r] = [timer[r] EXCEPT !.SHARE = Off]
         /\ phase'[r] = Acquired(phase[r], "SHARE")
  BY WaitDoes
<1>3. timer[r] \in [Timers -> Int]
  BY LockOfUp
<1>4. timer'[r].STATUS = timer[r].STATUS /\ (timer'[r].GREET = timer[r].GREET \/ timer[r].GREET = 0)
  <2>1. CASE timer' = timer
    BY <2>1
  <2>2. CASE timer[r].GREET = 0 /\ timer'[r] = [timer[r] EXCEPT !.GREET = Off]
    BY <1>3, <2>2, Tellings
  <2>3. CASE timer'[r] = [timer[r] EXCEPT !.SHARE = Off]
    BY <1>3, <2>3, Tellings
  <2> QED BY <1>2, <2>1, <2>2, <2>3
<1>5. InRound(phase'[r]) => InRound(phase[r])
  <2>1. PICK who \in {"HELLO", "SHARE"} : phase'[r] = Acquired(phase[r], who)
    BY <1>2
  <2>2. who \in Holders
    BY RoundHolders
  <2>3. Sound(phase[r], timer[r].PHASE, reloads[r])
    <3>1. AllInv
      BY Gathered
    <3> QED BY <3>1 DEF AllInv, IInv, LockInv
  <2>4. PICK q : q = phase'[r]
    OBVIOUS
  <2>5. InRound(q) <=> InRound(phase[r])
    BY <2>1, <2>2, <2>3, <2>4, AcquiredKeeps
  <2> QED BY <2>4, <2>5
<1> QED BY <1>1, <1>4, <1>5 DEF Relays

LEMMA StatusDueRelays ==
  ASSUME GatherInv, NEW r \in Replicas, StatusDue(r)
  PROVE  Relays(r)
<1>1. Others(r) /\ Up(r) /\ UNCHANGED <<life, started, reloads, running>>
      /\ buffer'[r] = [buffer[r] EXCEPT !.STATUS = <<>>]
  BY StatusDueDoes
<1>2. PICK state :
      \/ /\ chan' = Broadcast(r, ShareMsg(r, state)) /\ phase'[r] = Released(phase[r])
         /\ timer'[r] = [[timer[r] EXCEPT !.STATUS = Off] EXCEPT !.PHASE = Off]
      \/ /\ starting'[r] = <<state>> /\ chan' = chan
         /\ timer'[r] = [timer[r] EXCEPT !.STATUS = Off]
  BY StatusDueDoes
<1>3. timer[r] \in [Timers -> Int] /\ DOMAIN buffer[r] = Buffered
  BY LockOfUp
<1>4. timer'[r].GREET = timer[r].GREET
  <2>1. CASE timer'[r] = [[timer[r] EXCEPT !.STATUS = Off] EXCEPT !.PHASE = Off]
    BY <1>3, <2>1, Tellings
  <2>2. CASE timer'[r] = [timer[r] EXCEPT !.STATUS = Off]
    BY <1>3, <2>2, Tellings
  <2> QED BY <1>2, <2>1, <2>2
<1>5. \A t \in Buffered : buffer'[r][t] \in {<<>>, buffer[r][t]}
  BY <1>1, <1>3
<1>6. ~(InRound(phase'[r]) /\ starting'[r] = <<>>)
  <2>1. CASE phase'[r] = Released(phase[r])
    BY <2>1, ReleasedKeeps
  <2>2. CASE starting'[r] = <<state>>
    <3>1. <<state>> # <<>>
      OBVIOUS
    <3> QED BY <2>2, <3>1
  <2> QED BY <1>2, <2>1, <2>2
<1>7. chan' = chan \/ \E msg : chan' = Broadcast(r, msg) /\ msg.type = "SHARE"
  <2>1. ShareMsg(r, state).type = "SHARE"
    BY DEF ShareMsg
  <2> QED BY <1>2, <2>1
<1> QED BY SMTT(30), <1>1, <1>4, <1>5, <1>6, <1>7 DEF Relays

LEMMA MarketsStartedRelays ==
  ASSUME GatherInv, NEW r \in Replicas, MarketsStarted(r)
  PROVE  Relays(r)
<1>1. Others(r) /\ Up(r) /\ UNCHANGED <<life, buffer, members, reloads, internal>>
      /\ chan' = Broadcast(r, ShareMsg(r, Head(starting[r])))
      /\ phase'[r] = Released(phase[r]) /\ timer'[r] = [timer[r] EXCEPT !.PHASE = Off]
  BY MarketsStartedDoes
<1>2. timer[r] \in [Timers -> Int]
  BY LockOfUp
<1>3. timer'[r].GREET = timer[r].GREET
  BY <1>1, <1>2, Tellings
<1>4. ShareMsg(r, Head(starting[r])).type = "SHARE"
  BY DEF ShareMsg
<1>5. ~InRound(phase'[r])
  BY <1>1, ReleasedKeeps
<1> QED BY <1>1, <1>3, <1>4, <1>5 DEF Relays

LEMMA HandleShareRelays ==
  ASSUME GatherInv, NEW r \in Replicas, HandleShare(r)
  PROVE  Relays(r)
<1>1. Others(r) /\ Up(r) /\ phase[r].held = "SHARE"
      /\ UNCHANGED <<life, chan, timer, starting, started, running>>
      /\ buffer'[r] = [buffer[r] EXCEPT !.SHARE = <<>>]
  BY HandleShareDoes
<1>2. phase'[r] = Released(phase[r]) \/ phase'[r] = [phase[r] EXCEPT !.entered = TRUE]
  BY HandleShareDoes
<1>3. phase[r] \in LockType /\ DOMAIN buffer[r] = Buffered
  BY LockOfUp
<1>4. \A t \in Buffered : buffer'[r][t] \in {<<>>, buffer[r][t]}
  BY <1>1, <1>3
<1>5. ~InRound(phase'[r])
  <2>1. CASE phase'[r] = Released(phase[r])
    BY <2>1, ReleasedKeeps
  <2>2. CASE phase'[r] = [phase[r] EXCEPT !.entered = TRUE]
    BY <1>1, <1>3, <2>2, Tellings DEF InRound, LockType
  <2> QED BY <1>2, <2>1, <2>2
<1> QED BY <1>1, <1>4, <1>5 DEF Relays

LEMMA ReloadedRelays ==
  ASSUME GatherInv, NEW r \in Replicas, Reloaded(r)
  PROVE  Relays(r)
<1>1. Others(r) /\ Up(r) /\ UNCHANGED <<life, chan, buffer, members, starting, started, internal>>
      /\ phase'[r] = Released(phase[r]) /\ timer'[r] = [timer[r] EXCEPT !.PHASE = Off]
  BY ReloadedDoes
<1>2. timer[r] \in [Timers -> Int]
  BY LockOfUp
<1>3. timer'[r].GREET = timer[r].GREET
  BY <1>1, <1>2, Tellings
<1>4. ~InRound(phase'[r])
  BY <1>1, ReleasedKeeps
<1> QED BY <1>1, <1>3, <1>4 DEF Relays

\* Every member of a list that a replica has is up, so that a newcomer is a stranger.
LEMMA NewcomerIsStranger ==
  ASSUME GatherInv, NEW z \in Replicas, NEW r \in Replicas, ~Up(r)
  PROVE  Stranger(z, r)
<1>1. ShareInv
  BY Gathered
<1>2. \A l \in Lists : Names(l, members[z][l]) \subseteq Live \cap Scope(z, l)
  BY <1>1 DEF ShareInv, SharedOK
<1> QED BY <1>2 DEF Stranger, Live

LEMMA BootAnswers ==
  ASSUME GatherInv, [Next]_vars, NEW r \in Replicas, Boot(r)
  PROVE  AnswerInv'
<1>1. /\ Others(r) /\ life[r] = "off" /\ life'[r] = "up"
      /\ timer'[r] = [timer[r] EXCEPT !.GREET = InitDelay]
      /\ UNCHANGED <<chan, buffer, phase, members, starting, started, reloads, internal, running>>
  BY BootDoes
<1>2. timer'[r].GREET = InitDelay
  <2>1. timer[r] \in [Timers -> Int]
    BY LockOfUp
  <2> QED BY <1>1, <2>1, Tellings
<1>3. Present'
  <2>1. \A d, s \in Replicas : chan'[d][s] # <<>> => chan[d][s] # <<>> \/ Up(s)
    BY <1>1
  <2>2. \A z \in Replicas : \A t \in Buffered : \A m \in Elements(buffer'[z][t]) : m \in Elements(buffer[z][t])
    BY <1>1
  <2> QED BY <2>1, <2>2, PresentStep
<1>4. ASSUME NEW z \in Replicas, NEW q \in Replicas PROVE OnceAsked(z, q)'
  <2>1. OnceAsked(z, q)
    BY AnswersOf
  <2> QED BY <1>1, <2>1 DEF OnceAsked, Asks, Replies, Counted
<1>5. ASSUME NEW z \in Replicas PROVE OneEach(buffer'[z].STATUS)
  BY <1>1, AnswersOf
<1>6. ASSUME NEW z \in Replicas PROVE Expected(z)'
  <2>1. SUFFICES ASSUME InRound(phase[z]), starting[z] = <<>>, NEW q \in Live'
                 PROVE  \/ Asks(z, q)' \/ Replies(z, q)' \/ Counted(z, q)'
                        \/ Stranger(z, q)' /\ timer'[q].GREET > Patience(z)'
    BY <1>1 DEF Expected
  <2>2. Up(z) /\ Patience(z) \in 0..StatusDelay
    BY <2>1, PatienceBounds
  <2>3. z # r
    BY <1>1, <2>2 DEF Up
  <2>4. Patience(z)' = Patience(z)
    BY <1>1, <2>3 DEF Patience, Others
  <2>5. CASE q = r
    <3>1. Stranger(z, r)
      BY <1>1, NewcomerIsStranger DEF Up
    <3>2. Stranger(z, r)'
      BY <1>1, <3>1 DEF Stranger
    <3>3. InitDelay > StatusDelay /\ InitDelay \in Nat /\ StatusDelay \in Nat
      BY DelaysAssumption
    <3>4. timer'[r].GREET > Patience(z)'
      BY <1>2, <2>2, <2>4, <3>3
    <3> QED BY <2>5, <3>2, <3>4
  <2>6. CASE q # r
    <3>1. q \in Live /\ timer'[q] = timer[q]
      BY <1>1, <2>1, <2>6 DEF Live, Up, Others
    <3>2. \/ Asks(z, q) \/ Replies(z, q) \/ Counted(z, q)
          \/ Stranger(z, q) /\ timer[q].GREET > Patience(z)
      BY <2>1, <3>1, AnswersOf DEF Expected
    <3>3. /\ Asks(z, q) => Asks(z, q)'
          /\ Replies(z, q) => Replies(z, q)'
          /\ Counted(z, q) => Counted(z, q)'
          /\ Stranger(z, q) => Stranger(z, q)'
      BY <1>1 DEF Asks, Replies, Counted, Stranger
    <3> QED BY <2>4, <3>1, <3>2, <3>3
  <2> QED BY <2>5, <2>6
<1> QED BY <1>3, <1>4, <1>5, <1>6 DEF AnswerInv

\* Those who are up are asked when nobody has been before.
LEMMA HelloQueues ==
  ASSUME GatherInv, NEW r \in Replicas, ~InRound(phase[r]), Up(r), chan' = Broadcast(r, HelloMsg(r)),
         NEW z \in Replicas, NEW q \in Replicas
  PROVE  /\ Single(chan'[q][z], "HELLO") /\ Single(chan'[z][q], "STATUS")
         /\ z # r => (Asks(z, q)' <=> Asks(z, q))
         /\ Up(q) => Asks(r, q)'
         /\ ~Up(q) => ~Asks(r, q)'
         /\ Replies(z, q)' <=> Replies(z, q)
         /\ ~Replies(r, q) /\ ~Counted(r, q)
         /\ chan'[q][z] # <<>> => chan[q][z] # <<>> \/ Up(z)
<1>1. Single(chan[q][z], "HELLO") /\ Single(chan[z][q], "STATUS") /\ Single(chan[q][r], "HELLO")
  BY AnswersOf DEF OnceAsked
<1>2. PICK n, msg : n = chan' /\ msg = HelloMsg(r)
  OBVIOUS
<1>3. n = Broadcast(r, msg) /\ msg.type \in MessageTypes /\ msg.type = "HELLO"
  BY <1>2 DEF MessageTypes, HelloMsg
<1>4. AllInv /\ RoundInv /\ ChanOK(chan)
  <2>1. AllInv /\ RoundInv
    BY Gathered
  <2> QED BY <2>1, Domains
<1>5. ~Asking(r) /\ timer[r].STATUS = Off
  BY RoundStages
<1>6. "STATUS" \notin Types(chan[r][q]) /\ (Up(q) => "HELLO" \notin Types(chan[q][r]))
  BY <1>5 DEF Asking
<1>7. ~Up(q) => chan[q][r] = <<>>
  <2>1. RoundOK(q) /\ life[q] \in {"off", "up"}
    <3>1. Staying
      BY Gathered
    <3> QED BY <1>4, <3>1 DEF RoundInv, Staying
  <2> QED BY <2>1 DEF RoundOK, Up
<1>8. "HELLO" \notin Types(chan[q][r])
  BY <1>6, <1>7, TypesEmpty
<1>9. /\ Single(n[q][z], "HELLO")
      /\ "HELLO" \in Types(n[q][z]) <=> "HELLO" \in Types(chan[q][z]) \/ (Up(q) /\ z = r)
  BY <1>1, <1>3, <1>4, <1>8, BroadcastQueue
<1>10. "HELLO" \in Types(n[q][r]) <=> "HELLO" \in Types(chan[q][r]) \/ Up(q)
  BY <1>1, <1>3, <1>4, <1>8, BroadcastQueue
<1>11. /\ Single(n[z][q], "STATUS")
       /\ "STATUS" \in Types(n[z][q]) <=> "STATUS" \in Types(chan[z][q])
  <2>1. msg.type # "STATUS"
    BY <1>3
  <2> QED BY <1>1, <1>3, <1>4, <2>1, BroadcastQueue
<1>12. n[q][z] # <<>> => chan[q][z] # <<>> \/ z = r
  BY <1>3, <1>4 DEF Broadcast, ChanOK
<1>13. ~Counted(r, q)
  <2>1. buffer[r].STATUS = <<>>
    BY <1>5, LockOfUp DEF LaunchOK
  <2> QED BY <2>1, ElementsEmpty DEF Counted, Senders
<1> QED BY <1>2, <1>6, <1>8, <1>9, <1>10, <1>11, <1>12, <1>13 DEF Asks, Replies

LEMMA SayHelloAnswers ==
  ASSUME GatherInv, [Next]_vars, NEW r \in Replicas, NEW who \in Round, SayHello(r, who)
  PROVE  AnswerInv'
<1>1. /\ Others(r) /\ Up(r) /\ ~phase[r].entered
      /\ UNCHANGED <<life, buffer, members, starting, started, reloads, internal, running>>
      /\ chan' = Broadcast(r, HelloMsg(r))
      /\ timer'[r] = [timer[r] EXCEPT !.PHASE = PhaseDelay]
  BY SayHelloDoes
<1>2. ~InRound(phase[r])
  BY <1>1 DEF InRound
<1>3. timer'[r].GREET = timer[r].GREET /\ timer'[r].STATUS = timer[r].STATUS
  <2>1. timer[r] \in [Timers -> Int]
    BY LockOfUp
  <2> QED BY <1>1, <2>1, Tellings
<1>4. Present'
  <2>1. \A d, s \in Replicas : chan'[d][s] # <<>> => chan[d][s] # <<>> \/ Up(s)
    BY <1>1, <1>2, HelloQueues
  <2>2. \A z \in Replicas : \A t \in Buffered : \A m \in Elements(buffer'[z][t]) : m \in Elements(buffer[z][t])
    BY <1>1
  <2> QED BY <2>1, <2>2, PresentStep
<1>5. ASSUME NEW z \in Replicas, NEW q \in Replicas PROVE OnceAsked(z, q)'
  <2>1. OnceAsked(z, q)
    BY AnswersOf
  <2>2. Single(chan'[q][z], "HELLO") /\ Single(chan'[z][q], "STATUS")
    BY <1>1, <1>2, HelloQueues
  <2>3. Replies(z, q)' <=> Replies(z, q)
    BY <1>1, <1>2, HelloQueues
  <2>4. Counted(z, q)' <=> Counted(z, q)
    BY <1>1 DEF Counted
  <2>5. CASE z # r
    <3>1. Asks(z, q)' <=> Asks(z, q)
      BY <1>1, <1>2, <2>5, HelloQueues
    <3> QED BY <2>1, <2>2, <2>3, <2>4, <3>1, PairKept
  <2>6. CASE z = r
    <3>1. ~Replies(r, q) /\ ~Counted(r, q)
      BY <1>1, <1>2, HelloQueues
    <3> QED BY <2>2, <2>3, <2>4, <2>6, <3>1 DEF OnceAsked
  <2> QED BY <2>5, <2>6
<1>6. ASSUME NEW z \in Replicas PROVE OneEach(buffer'[z].STATUS)
  BY <1>1, AnswersOf
<1>7. ASSUME NEW z \in Replicas PROVE Expected(z)'
  <2>1. Live' = Live
    BY <1>1 DEF Live, Up
  <2>2. CASE z = r
    <3>1. ASSUME NEW q \in Live PROVE Asks(r, q)'
      BY <1>1, <1>2, HelloQueues DEF Live
    <3> QED BY <2>1, <2>2, <3>1 DEF Expected
  <2>3. CASE z # r
    <3>1. ASSUME NEW q \in Live
          PROVE  /\ timer'[q].GREET = timer[q].GREET
                 /\ (Asks(z, q) => Asks(z, q)') /\ (Replies(z, q) => Replies(z, q)')
                 /\ (Counted(z, q) => Counted(z, q)')
      <4>1. q \in Replicas
        BY DEF Live
      <4>2. Asks(z, q)' <=> Asks(z, q)
        BY <1>1, <1>2, <2>3, <4>1, HelloQueues
      <4>3. Replies(z, q)' <=> Replies(z, q)
        BY <1>1, <1>2, <4>1, HelloQueues
      <4>4. timer'[q].GREET = timer[q].GREET
        BY <1>1, <1>3, <4>1 DEF Others
      <4> QED BY <1>1, <4>2, <4>3, <4>4 DEF Counted
    <3>2. /\ phase'[z] = phase[z] /\ starting'[z] = starting[z] /\ members'[z] = members[z]
          /\ timer'[z] = timer[z]
      BY <1>1, <2>3 DEF Others
    <3>3. Expected(z)
      BY AnswersOf
    <3> QED BY <2>1, <3>1, <3>2, <3>3, ExpectedKept
  <2> QED BY <2>2, <2>3
<1> QED BY <1>4, <1>5, <1>6, <1>7 DEF AnswerInv

LEMMA DeliverHello ==
  ASSUME GatherInv, NEW r \in Replicas, NEW s \in Replicas, Deliver(s, r),
         NEW msg, msg = Head(chan[r][s]), msg.type = "HELLO"
  PROVE  /\ Others(r) /\ Up(r) /\ Up(s) /\ chan[r][s] # <<>>
         /\ UNCHANGED <<life, buffer, timer, phase, members, starting, started, reloads, internal, running>>
         /\ msg \in Elements(chan[r][s]) /\ msg.from = s
         /\ chan' = Send(Rest(r, s), r, s, StatusMsg(r, internal[r].rateLimitMultiplier))
<1>1. Others(r) /\ Up(r) /\ Up(s) /\ chan[r][s] # <<>>
      /\ UNCHANGED <<life, phase, members, starting, started, reloads, internal, running>>
  BY DeliverDoes
<1>2. PICK m \in {Head(chan[r][s])} : Taken(r, s, m)
  BY DeliverDoes
<1> QED BY <1>1, <1>2 DEF Taken

LEMMA DeliverOther ==
  ASSUME GatherInv, NEW r \in Replicas, NEW s \in Replicas, Deliver(s, r), Head(chan[r][s]).type # "HELLO"
  PROVE  /\ Others(r) /\ Up(r) /\ Up(s) /\ chan[r][s] # <<>>
         /\ UNCHANGED <<life, phase, members, starting, started, reloads, internal, running>>
         /\ Head(chan[r][s]) \in Elements(chan[r][s]) /\ Head(chan[r][s]).from = s
         /\ Head(chan[r][s]).type \in {"STATUS", "SHARE"}
         /\ chan' = Rest(r, s)
<1>1. Others(r) /\ Up(r) /\ Up(s) /\ chan[r][s] # <<>>
      /\ UNCHANGED <<life, phase, members, starting, started, reloads, internal, running>>
  BY DeliverDoes
<1>2. PICK m \in {Head(chan[r][s])} : Taken(r, s, m)
  BY DeliverDoes
<1> QED BY <1>1, <1>2 DEF Taken

LEMMA DeliverBuffers ==
  ASSUME GatherInv, NEW r \in Replicas, NEW s \in Replicas, Deliver(s, r),
         Head(chan[r][s]).type # "HELLO"
  PROVE  \E msg \in {Head(chan[r][s])} :
           /\ buffer'[r] = [buffer[r] EXCEPT ![msg.type] = Append(buffer[r][msg.type], msg)]
           /\ timer'[r] = [timer[r] EXCEPT ![msg.type] = DebounceDelay(msg.type)]
<1>1. PICK m \in {Head(chan[r][s])} : Taken(r, s, m)
  BY DeliverDoes
<1> QED BY <1>1 DEF Taken

\* A HELLO is answered: the question is gone and the answer is under way.
LEMMA AnsweredQueues ==
  ASSUME GatherInv, NEW r \in Replicas, NEW s \in Replicas, Deliver(s, r),
         Head(chan[r][s]).type = "HELLO", NEW z \in Replicas, NEW q \in Replicas
  PROVE  /\ Single(chan'[q][z], "HELLO") /\ Single(chan'[z][q], "STATUS")
         /\ z # s \/ q # r => (Asks(z, q)' <=> Asks(z, q)) /\ (Replies(z, q)' <=> Replies(z, q))
         /\ Asks(s, r) /\ ~Asks(s, r)' /\ Replies(s, r)'
         /\ chan'[q][z] # <<>> => chan[q][z] # <<>> \/ Up(z)
<1>1. /\ Single(chan[q][z], "HELLO") /\ Single(chan[z][q], "STATUS")
      /\ Single(chan[r][s], "HELLO") /\ Single(chan[s][r], "STATUS")
  BY AnswersOf DEF OnceAsked
<1>2. PICK msg, reply, c, n : /\ msg = Head(chan[r][s]) /\ c = Rest(r, s) /\ n = chan'
                              /\ reply = StatusMsg(r, internal[r].rateLimitMultiplier)
  OBVIOUS
<1>3. Up(r) /\ Up(s) /\ chan[r][s] # <<>> /\ msg \in Elements(chan[r][s])
      /\ (msg.type = "HELLO" => n = Send(c, r, s, reply))
  <2>1. Up(r) /\ Up(s) /\ chan[r][s] # <<>> /\ Head(chan[r][s]) \in Elements(chan[r][s])
    BY DeliverHello
  <2>2. chan' = Send(Rest(r, s), r, s, StatusMsg(r, internal[r].rateLimitMultiplier))
    BY DeliverHello
  <2> QED BY <1>2, <2>1, <2>2
<1>4. ChanOK(chan) /\ ChanOK(c)
  <2>1. AllInv
    BY Gathered
  <2>2. ChanOK(chan)
    BY <2>1, Domains
  <2> QED BY <1>2, <1>3, <2>2, RestEffect
<1>5. n = [c EXCEPT ![s][r] = Append(c[s][r], reply)] /\ reply.type = "STATUS"
  BY <1>2, <1>3 DEF Send, StatusMsg
<1>6. Asks(s, r)
  BY <1>2, <1>3 DEF Asks, Types, Elements
<1>7. "STATUS" \notin Types(chan[s][r])
  BY <1>6, AnswersOf DEF OnceAsked, Replies
<1>8. /\ Single(c[q][z], "HELLO")
      /\ "HELLO" \in Types(c[q][z]) => "HELLO" \in Types(chan[q][z])
      /\ q # r \/ z # s => ("HELLO" \in Types(chan[q][z]) => "HELLO" \in Types(c[q][z]))
  BY <1>1, <1>2, <1>3, <1>4, RestQueue
<1>9. Single(c[r][s], "HELLO") /\ "HELLO" \notin Types(c[r][s])
  BY <1>1, <1>2, <1>3, <1>4, RestQueue
<1>10. /\ Single(c[z][q], "STATUS")
       /\ "STATUS" \in Types(c[z][q]) <=> "STATUS" \in Types(chan[z][q])
  <2>1. Head(chan[r][s]).type # "STATUS"
    OBVIOUS
  <2> QED BY ZenonT(40), <1>1, <1>2, <1>3, <1>4, <2>1, RestQueue
<1>11. Single(c[s][r], "STATUS") /\ "STATUS" \notin Types(c[s][r])
  BY <1>1, <1>2, <1>3, <1>4, <1>7, RestQueue
<1>12. n = Put(c, s, r, reply) /\ reply.type # "HELLO" /\ reply.type = "STATUS"
  BY <1>5 DEF Put
<1>13. /\ Single(n[q][z], "HELLO")
       /\ "HELLO" \in Types(n[q][z]) <=> "HELLO" \in Types(c[q][z])
  <2>1. ChanOK(c) /\ Single(c[q][z], "HELLO") /\ n = Put(c, s, r, reply) /\ reply.type # "HELLO"
    BY <1>4, <1>8, <1>12
  <2>2. q # s \/ z # r \/ reply.type # "HELLO" \/ "HELLO" \notin Types(c[q][z])
    BY <2>1
  <2>3. /\ Single(n[q][z], "HELLO")
        /\ "HELLO" \in Types(n[q][z]) <=> "HELLO" \in Types(c[q][z]) \/ (q = s /\ z = r /\ "HELLO" = reply.type)
    <3>1. CASE q # s \/ z # r
      <4>1. n[q][z] = c[q][z]
        BY <1>4, <2>1, <3>1 DEF ChanOK, Put
      <4> QED BY <2>1, <3>1, <4>1
    <3>2. CASE q = s /\ z = r
      <4>1. /\ ChanOK(c) /\ Single(c[s][r], "HELLO") /\ n = Put(c, s, r, reply)
            /\ reply.type # "HELLO"
        BY <2>1, <3>2
      <4>2. PICK old : old = c[s][r]
        OBVIOUS
      <4>3. IsSeq(old) /\ Single(old, "HELLO") /\ n[s][r] = Append(old, reply)
        BY <4>1, <4>2 DEF ChanOK, Put
      <4>4. Types(Append(old, reply)) = Types(old) \cup {reply.type}
        BY <4>3, TypesAppend
      <4>5. Single(Append(old, reply), "HELLO")
        BY <4>1, <4>3, SingleAppend
      <4> QED BY <3>2, <4>1, <4>2, <4>3, <4>4, <4>5
    <3> QED BY <3>1, <3>2
  <2> QED BY <2>1, <2>3
<1>14. "HELLO" \notin Types(n[r][s])
  BY ONLY <1>4, <1>12, <1>9, SentQueue, r \in Replicas, s \in Replicas
<1>15. /\ Single(n[z][q], "STATUS")
       /\ "STATUS" \in Types(n[z][q]) <=> "STATUS" \in Types(c[z][q]) \/ (z = s /\ q = r)
  <2>1. z # s \/ q # r \/ "STATUS" \notin Types(c[z][q])
    BY <1>11
  <2>2. ChanOK(c) /\ Single(c[z][q], "STATUS") /\ n = Put(c, s, r, reply)
    BY <1>4, <1>10, <1>12
  <2>3. reply.type = "STATUS"
    BY <1>12
  <2>4. z # s \/ q # r \/ reply.type # "STATUS" \/ "STATUS" \notin Types(c[z][q])
    BY <2>1
  <2>5. /\ Single(n[z][q], "STATUS")
        /\ "STATUS" \in Types(n[z][q]) <=> "STATUS" \in Types(c[z][q]) \/ (z = s /\ q = r /\ "STATUS" = reply.type)
    <3>1. CASE q # r \/ z # s
      <4>1. n[z][q] = c[z][q]
        BY <1>4, <2>2, <3>1 DEF ChanOK, Put
      <4> QED BY <2>2, <3>1, <4>1
    <3>2. CASE q = r /\ z = s
      <4>1. /\ ChanOK(c) /\ Single(c[s][r], "STATUS") /\ n = Put(c, s, r, reply)
            /\ "STATUS" \notin Types(c[s][r])
        BY <2>2, <2>3, <2>4, <3>2
      <4>2. /\ Single(n[s][r], "STATUS")
            /\ "STATUS" \in Types(n[s][r]) <=> "STATUS" \in Types(c[s][r]) \/ (s = s /\ r = r /\ "STATUS" = reply.type)
        BY ONLY <4>1, SentQueue, r \in Replicas, s \in Replicas
      <4> QED BY <3>2, <4>2
    <3> QED BY <3>1, <3>2
  <2> QED BY <2>3, <2>5
<1>16. "STATUS" \in Types(n[s][r])
  BY ONLY <1>4, <1>12, <1>11, SentQueue, r \in Replicas, s \in Replicas
<1>17. n[q][z] # <<>> => chan[q][z] # <<>> \/ z = r
  <2>1. q # s \/ z # r => n[q][z] = c[q][z]
    BY <1>4, <1>5 DEF ChanOK
  <2>2. q # r \/ z # s => c[q][z] = chan[q][z]
    BY <1>2, <1>3, <1>4, RestEffect
  <2> QED BY <1>3, <2>1, <2>2
<1> QED BY <1>2, <1>3, <1>6, <1>8, <1>10, <1>13, <1>14, <1>15, <1>16, <1>17 DEF Asks, Replies

\* Another message is taken: of the answers, only a STATUS.
LEMMA TakenQueues ==
  ASSUME GatherInv, NEW r \in Replicas, NEW s \in Replicas, Deliver(s, r),
         Head(chan[r][s]).type # "HELLO", NEW z \in Replicas, NEW q \in Replicas
  PROVE  /\ Single(chan'[q][z], "HELLO") /\ Single(chan'[z][q], "STATUS")
         /\ Asks(z, q)' <=> Asks(z, q)
         /\ z # r \/ q # s \/ Head(chan[r][s]).type # "STATUS" => (Replies(z, q)' <=> Replies(z, q))
         /\ Head(chan[r][s]).type = "STATUS" => Replies(r, s) /\ ~Replies(r, s)'
         /\ chan'[q][z] # <<>> => chan[q][z] # <<>> \/ Up(z)
<1>1. /\ Single(chan[q][z], "HELLO") /\ Single(chan[z][q], "STATUS") /\ Single(chan[r][s], "STATUS")
  BY AnswersOf DEF OnceAsked
<1>2. PICK msg, c, n : /\ msg = Head(chan[r][s]) /\ c = Rest(r, s) /\ n = chan'
  OBVIOUS
<1>3. Up(s) /\ chan[r][s] # <<>> /\ msg \in Elements(chan[r][s]) /\ n = c
  <2>1. msg.type # "HELLO"
    BY <1>2
  <2>2. Up(s) /\ chan[r][s] # <<>>
    BY ONLY DeliverDoes, GatherInv, Deliver(s, r), r \in Replicas, s \in Replicas
  <2>3. msg \in Elements(chan[r][s]) /\ chan' = Rest(r, s)
    BY <1>2, <2>1, DeliverOther
  <2> QED BY <1>2, <2>2, <2>3
<1>4. ChanOK(chan)
  <2>1. AllInv
    BY Gathered
  <2> QED BY <2>1, Domains
<1>5. c = Rest(r, s) /\ chan[r][s] # <<>> /\ Head(chan[r][s]).type # "HELLO"
  BY <1>2, <1>3
<1>6. /\ Single(c[q][z], "HELLO")
      /\ "HELLO" \in Types(c[q][z]) <=> "HELLO" \in Types(chan[q][z])
  BY ONLY ZenonT(40), <1>1, <1>4, <1>5, RestQueue, r \in Replicas, s \in Replicas, q \in Replicas, z \in Replicas
<1>7. /\ Single(c[z][q], "STATUS")
      /\ "STATUS" \in Types(c[z][q]) => "STATUS" \in Types(chan[z][q])
      /\ z # r \/ q # s \/ msg.type # "STATUS" =>
           ("STATUS" \in Types(chan[z][q]) => "STATUS" \in Types(c[z][q]))
  BY ONLY ZenonT(40), <1>1, <1>2, <1>4, <1>5, RestQueue, r \in Replicas, s \in Replicas, q \in Replicas, z \in Replicas
<1>8. msg.type = "STATUS" => "STATUS" \notin Types(c[r][s])
  BY ONLY <1>1, <1>2, <1>4, <1>5, RestQueue, r \in Replicas, s \in Replicas
<1>9. msg.type = "STATUS" => "STATUS" \in Types(chan[r][s])
  BY <1>3 DEF Types, Elements
<1>10. c[q][z] # <<>> => chan[q][z] # <<>> \/ z = s
  BY <1>2, <1>3, <1>4, RestEffect
<1> QED BY <1>2, <1>3, <1>6, <1>7, <1>8, <1>9, <1>10 DEF Asks, Replies

LEMMA HelloAnswers ==
  ASSUME GatherInv, [Next]_vars, NEW r \in Replicas, NEW s \in Replicas, Deliver(s, r),
         Head(chan[r][s]).type = "HELLO"
  PROVE  AnswerInv'
<1>1. /\ Up(r) /\ Up(s)
      /\ UNCHANGED <<life, buffer, timer, phase, members, starting>>
  BY DeliverHello
<1>2. Present'
  <2>1. \A d, x \in Replicas : chan'[d][x] # <<>> => chan[d][x] # <<>> \/ Up(x)
    BY AnsweredQueues
  <2>2. \A z \in Replicas : \A t \in Buffered : \A m \in Elements(buffer'[z][t]) : m \in Elements(buffer[z][t])
    BY <1>1
  <2> QED BY <2>1, <2>2, PresentStep
<1>3. ASSUME NEW z \in Replicas, NEW q \in Replicas PROVE OnceAsked(z, q)'
  <2>1. OnceAsked(z, q)
    BY AnswersOf
  <2>2. Single(chan'[q][z], "HELLO") /\ Single(chan'[z][q], "STATUS")
    BY AnsweredQueues
  <2>3. Counted(z, q)' <=> Counted(z, q)
    BY <1>1 DEF Counted
  <2>4. CASE z # s \/ q # r
    <3>1. (Asks(z, q)' <=> Asks(z, q)) /\ (Replies(z, q)' <=> Replies(z, q))
      BY <2>4, AnsweredQueues
    <3> QED BY <2>1, <2>2, <2>3, <3>1, PairKept
  <2>5. CASE z = s /\ q = r
    <3>1. Asks(s, r) /\ ~Asks(s, r)'
      BY AnsweredQueues
    <3> QED BY <2>1, <2>2, <2>3, <2>5, <3>1 DEF OnceAsked
  <2> QED BY <2>4, <2>5
<1>4. ASSUME NEW z \in Replicas PROVE OneEach(buffer'[z].STATUS)
  BY <1>1, AnswersOf
<1>5. ASSUME NEW z \in Replicas PROVE Expected(z)'
  <2>1. Live' = Live /\ Patience(z)' = Patience(z)
    BY <1>1 DEF Live, Up, Patience
  <2>2. SUFFICES ASSUME InRound(phase[z]), starting[z] = <<>>, NEW q \in Live
                 PROVE  \/ Asks(z, q)' \/ Replies(z, q)' \/ Counted(z, q)'
                        \/ Stranger(z, q)' /\ timer'[q].GREET > Patience(z)'
    BY <1>1, <2>1 DEF Expected
  <2>3. q \in Replicas
    BY DEF Live
  <2>4. \/ Asks(z, q) \/ Replies(z, q) \/ Counted(z, q)
        \/ Stranger(z, q) /\ timer[q].GREET > Patience(z)
    BY <2>2, AnswersOf DEF Expected
  <2>5. Counted(z, q)' <=> Counted(z, q)
    BY <1>1 DEF Counted
  <2>6. Stranger(z, q)' <=> Stranger(z, q)
    BY <1>1 DEF Stranger
  <2>7. Asks(z, q) \/ Replies(z, q) => Asks(z, q)' \/ Replies(z, q)'
    <3>1. CASE z # s \/ q # r
      BY <2>3, <3>1, AnsweredQueues
    <3>2. CASE z = s /\ q = r
      <4>1. Replies(s, r)'
        BY AnsweredQueues
      <4> QED BY <3>2, <4>1
    <3> QED BY <3>1, <3>2
  <2> QED BY <1>1, <2>1, <2>4, <2>5, <2>6, <2>7
<1> QED BY <1>2, <1>3, <1>4, <1>5 DEF AnswerInv

LEMMA OneEachAppend ==
  ASSUME NEW q, IsSeq(q), OneEach(q), NEW m, m.from \notin Senders(q)
  PROVE  OneEach(Append(q, m))
<1>1. PICK more : more = Append(q, m)
  OBVIOUS
<1>2. /\ DOMAIN more = DOMAIN q \cup {Len(q) + 1} /\ Len(q) + 1 \notin DOMAIN q
      /\ \A i \in DOMAIN q : more[i] = q[i]
      /\ more[Len(q) + 1] = m
  BY <1>1, AppendElements
<1>3. \A i \in DOMAIN q : q[i].from # m.from
  BY DEF Senders, Elements
<1> QED BY <1>1, <1>2, <1>3 DEF OneEach

\* What is buffered for r is that of before, and the message.
LEMMA BufferTaken ==
  ASSUME GatherInv, NEW r \in Replicas, NEW s \in Replicas, Deliver(s, r),
         NEW msg, msg = Head(chan[r][s]), msg.type # "HELLO", NEW t \in Buffered
  PROVE  /\ IsSeq(buffer[r][t])
         /\ buffer'[r][t] = IF t = msg.type THEN Append(buffer[r][t], msg) ELSE buffer[r][t]
         /\ Elements(buffer'[r][t]) \subseteq Elements(buffer[r][t]) \cup {msg}
<1>1. PICK old : old = buffer[r][t]
  OBVIOUS
<1>2. IsSeq(buffer[r][t])
  <2>1. AllInv
    BY Gathered
  <2> QED BY <2>1, Private
<1>3. buffer'[r] = [buffer[r] EXCEPT ![msg.type] = Append(buffer[r][msg.type], msg)]
  <2>1. PICK m \in {Head(chan[r][s])} :
          /\ buffer'[r] = [buffer[r] EXCEPT ![m.type] = Append(buffer[r][m.type], m)]
          /\ timer'[r] = [timer[r] EXCEPT ![m.type] = DebounceDelay(m.type)]
    BY DeliverBuffers
  <2> QED BY <2>1
<1>4. DOMAIN buffer[r] = Buffered
  BY LockOfUp
<1>5. buffer'[r][t] = IF t = msg.type THEN Append(buffer[r][t], msg) ELSE buffer[r][t]
  BY <1>3, <1>4
<1>6. Elements(Append(old, msg)) = Elements(old) \cup {msg}
  BY <1>1, <1>2, ElementsAppend
<1>7. Elements(buffer'[r][t]) \subseteq Elements(buffer[r][t]) \cup {msg}
  BY <1>1, <1>5, <1>6
<1> QED BY <1>2, <1>5, <1>7

LEMMA TimersTaken ==
  ASSUME GatherInv, NEW r \in Replicas, NEW s \in Replicas, Deliver(s, r),
         NEW msg, msg = Head(chan[r][s]), msg.type # "HELLO"
  PROVE  /\ timer'[r].GREET = timer[r].GREET
         /\ msg.type = "SHARE" => timer'[r].STATUS = timer[r].STATUS
         /\ msg.type = "STATUS" => timer'[r].STATUS = StatusDelay /\ StatusDelay # Off
<1>1. /\ msg.type \in {"STATUS", "SHARE"}
      /\ timer'[r] = [timer[r] EXCEPT ![msg.type] = DebounceDelay(msg.type)]
  <2>1. PICK m \in {Head(chan[r][s])} :
          /\ buffer'[r] = [buffer[r] EXCEPT ![m.type] = Append(buffer[r][m.type], m)]
          /\ timer'[r] = [timer[r] EXCEPT ![m.type] = DebounceDelay(m.type)]
    BY DeliverBuffers
  <2> QED BY SMTT(30), <2>1, DeliverOther
<1>2. timer[r] \in [Timers -> Int]
  BY LockOfUp
<1>3. CASE msg.type = "STATUS"
  <2>1. timer'[r] = [timer[r] EXCEPT !.STATUS = StatusDelay]
    BY <1>1, <1>3 DEF DebounceDelay
  <2>2. StatusDelay # Off
    BY DelaysInOrder DEF Off
  <2> QED BY <1>2, <1>3, <2>1, <2>2, Tellings
<1>4. CASE msg.type = "SHARE"
  <2>1. timer'[r] = [timer[r] EXCEPT !.SHARE = DebounceDelay("SHARE")]
    BY <1>1, <1>4
  <2> QED BY <1>2, <1>4, <2>1, Tellings
<1> QED BY <1>1, <1>3, <1>4

LEMMA ExpectedMoved ==
  ASSUME NEW z, Expected(z), InRound(phase'[z]) /\ starting'[z] = <<>> =>
           InRound(phase[z]) /\ starting[z] = <<>>,
         Live' = Live, members'[z] = members[z], Patience(z)' = Patience(z),
         \A q \in Live : /\ timer'[q].GREET = timer[q].GREET
                         /\ Asks(z, q) \/ Replies(z, q) \/ Counted(z, q) =>
                              Asks(z, q)' \/ Replies(z, q)' \/ Counted(z, q)'
  PROVE  Expected(z)'
<1>1. SUFFICES ASSUME InRound(phase'[z]) /\ starting'[z] = <<>>, NEW q \in Live
               PROVE  \/ Asks(z, q)' \/ Replies(z, q)' \/ Counted(z, q)'
                      \/ Stranger(z, q)' /\ timer'[q].GREET > Patience(z)'
  BY DEF Expected
<1>2. \/ Asks(z, q) \/ Replies(z, q) \/ Counted(z, q)
      \/ Stranger(z, q) /\ timer[q].GREET > Patience(z)
  BY <1>1 DEF Expected
<1>3. Stranger(z, q) => Stranger(z, q)'
  BY DEF Stranger
<1> QED BY <1>1, <1>2, <1>3

LEMMA TakenAnswers ==
  ASSUME GatherInv, [Next]_vars, NEW r \in Replicas, NEW s \in Replicas, Deliver(s, r),
         NEW msg, msg = Head(chan[r][s]), msg.type # "HELLO"
  PROVE  AnswerInv'
<1>1. /\ Others(r) /\ Up(r) /\ Up(s)
      /\ UNCHANGED <<life, phase, members, starting>>
  BY DeliverOther
<1>2. msg.from = s /\ msg.type \in {"STATUS", "SHARE"}
  BY DeliverOther
<1>3. Present'
  <2>1. \A d, x \in Replicas : chan'[d][x] # <<>> => chan[d][x] # <<>> \/ Up(x)
    BY TakenQueues
  <2>2. ASSUME NEW z \in Replicas, NEW t \in Buffered, NEW m \in Elements(buffer'[z][t])
        PROVE  m \in Elements(buffer[z][t]) \/ (Up(m.from) /\ m.from \in Replicas)
    <3>1. CASE z = r
      <4>1. Elements(buffer'[r][t]) \subseteq Elements(buffer[r][t]) \cup {msg}
        BY BufferTaken
      <4> QED BY <1>1, <1>2, <3>1, <4>1
    <3>2. CASE z # r
      BY <1>1, <3>2 DEF Others
    <3> QED BY <3>1, <3>2
  <2> QED BY <2>1, <2>2, PresentStep
<1>4. "STATUS" \in Buffered
  BY Tellings
<1>5. /\ buffer'[r].STATUS = IF msg.type = "STATUS" THEN Append(buffer[r].STATUS, msg) ELSE buffer[r].STATUS
      /\ IsSeq(buffer[r].STATUS)
  BY <1>4, BufferTaken
<1>6. /\ msg.type = "STATUS" => \A q : Counted(r, q)' <=> Counted(r, q) \/ q = s
      /\ msg.type # "STATUS" => \A q : Counted(r, q)' <=> Counted(r, q)
  <2>1. PICK old : old = buffer[r].STATUS
    OBVIOUS
  <2>2. CASE msg.type = "STATUS"
    <3>1. Elements(Append(old, msg)) = Elements(old) \cup {msg}
      BY <1>5, <2>1, ElementsAppend
    <3> QED BY <1>2, <1>5, <2>1, <2>2, <3>1 DEF Counted, Senders
  <2>3. CASE msg.type # "STATUS"
    BY <1>5, <2>3 DEF Counted
  <2> QED BY <2>2, <2>3
<1>7. \A z \in Replicas : z # r => \A q : Counted(z, q)' <=> Counted(z, q)
  BY <1>1 DEF Others, Counted
<1>8. msg.type = "STATUS" => Replies(r, s) /\ ~Replies(r, s)' /\ ~Asks(r, s) /\ ~Counted(r, s)
  <2>1. msg.type = "STATUS" => Replies(r, s) /\ ~Replies(r, s)'
    BY TakenQueues
  <2>2. OnceAsked(r, s)
    BY AnswersOf
  <2> QED BY <2>1, <2>2 DEF OnceAsked
<1>9. ASSUME NEW z \in Replicas, NEW q \in Replicas
      PROVE  /\ OnceAsked(z, q)'
             /\ Asks(z, q) \/ Replies(z, q) \/ Counted(z, q) =>
                  Asks(z, q)' \/ Replies(z, q)' \/ Counted(z, q)'
  <2>1. OnceAsked(z, q)
    BY AnswersOf
  <2>2. Single(chan'[q][z], "HELLO") /\ Single(chan'[z][q], "STATUS") /\ (Asks(z, q)' <=> Asks(z, q))
    BY TakenQueues
  <2>3. CASE z # r \/ q # s \/ msg.type # "STATUS"
    <3>1. Replies(z, q)' <=> Replies(z, q)
      BY <2>3, TakenQueues
    <3>2. Counted(z, q)' <=> Counted(z, q)
      BY <1>6, <1>7, <2>3
    <3> QED BY <2>1, <2>2, <3>1, <3>2, PairKept
  <2>4. CASE z = r /\ q = s /\ msg.type = "STATUS"
    BY <1>6, <1>8, <2>2, <2>4 DEF OnceAsked
  <2> QED BY <2>3, <2>4
<1>10. ASSUME NEW z \in Replicas PROVE OneEach(buffer'[z].STATUS)
  <2>1. CASE z = r /\ msg.type = "STATUS"
    <3>1. PICK old : old = buffer[r].STATUS
      OBVIOUS
    <3>2. IsSeq(old) /\ OneEach(old) /\ msg.from \notin Senders(old)
      BY <1>2, <1>5, <1>8, <2>1, <3>1, AnswersOf DEF Counted
    <3>3. OneEach(Append(old, msg))
      BY <3>2, OneEachAppend
    <3> QED BY <1>5, <2>1, <3>1, <3>3
  <2>2. CASE z # r \/ msg.type # "STATUS"
    <3>1. buffer'[z].STATUS = buffer[z].STATUS
      BY <1>1, <1>5, <2>2 DEF Others
    <3> QED BY <3>1, AnswersOf
  <2> QED BY <2>1, <2>2
<1>11. ASSUME NEW z \in Replicas PROVE Expected(z)'
  <2>1. SUFFICES ASSUME InRound(phase'[z]) /\ starting'[z] = <<>> PROVE Expected(z)'
    BY DEF Expected
  <2>2. Live' = Live /\ InRound(phase[z]) /\ starting[z] = <<>> /\ members'[z] = members[z]
    BY <1>1, <2>1 DEF Live, Up
  <2>3. Patience(z)' = Patience(z)
    <3>1. CASE z = r /\ msg.type = "STATUS"
      <4>1. Asking(r)
        BY <1>8, <3>1 DEF Asking, Replies
      <4>2. Patience(z) = StatusDelay
        BY <2>2, <3>1, <4>1, PatienceBounds
      <4>3. timer'[r].STATUS = StatusDelay /\ StatusDelay # Off
        BY <3>1, TimersTaken
      <4> QED BY <3>1, <4>2, <4>3 DEF Patience
    <3>2. CASE z # r \/ msg.type # "STATUS"
      <4>1. timer'[z].STATUS = timer[z].STATUS
        BY <1>1, <1>2, <3>2, TimersTaken DEF Others
      <4> QED BY <4>1 DEF Patience
    <3> QED BY <3>1, <3>2
  <2>4. ASSUME NEW q \in Live
        PROVE  /\ timer'[q].GREET = timer[q].GREET
               /\ Asks(z, q) \/ Replies(z, q) \/ Counted(z, q) =>
                    Asks(z, q)' \/ Replies(z, q)' \/ Counted(z, q)'
    <3>1. q \in Replicas
      BY DEF Live
    <3>2. timer'[q].GREET = timer[q].GREET
      BY <1>1, <3>1, TimersTaken DEF Others
    <3> QED BY <1>9, <3>1, <3>2
  <2>5. Expected(z)
    BY AnswersOf
  <2> QED BY <2>2, <2>3, <2>4, <2>5, ExpectedMoved
<1> QED BY <1>3, <1>9, <1>10, <1>11 DEF AnswerInv

LEMMA SameAnswers ==
  ASSUME AnswerInv, UNCHANGED chan, UNCHANGED gatherVars
  PROVE  AnswerInv'
<1>1. Present'
  BY DEF AnswerInv, Present, Up, gatherVars
<1>2. ASSUME NEW z \in Replicas, NEW q \in Replicas PROVE OnceAsked(z, q)'
  BY DEF AnswerInv, OnceAsked, Asks, Replies, Counted, gatherVars
<1>3. ASSUME NEW z \in Replicas PROVE OneEach(buffer'[z].STATUS)
  BY DEF AnswerInv, gatherVars
<1>4. ASSUME NEW z \in Replicas PROVE Expected(z)'
  BY DEF AnswerInv, Expected, Live, Up, Asks, Replies, Counted, Stranger, Patience, gatherVars
<1> QED BY <1>1, <1>2, <1>3, <1>4 DEF AnswerInv

\* With no message under way the answers of a round are debounced, as fast as
\* time passes for a newcomer.
LEMMA TickAnswers ==
  ASSUME GatherInv, Tick
  PROVE  AnswerInv'
<1>1. /\ UNCHANGED <<life, chan, buffer, phase, members, starting>>
      /\ \A r \in Replicas : Up(r) =>
           /\ \A t \in Timers : timer[r][t] # 0
           /\ \A s \in Replicas : chan[r][s] = <<>>
  BY TickDoes
<1>2. AnswerInv
  BY Gathered
<1>3. Present'
  BY <1>1, <1>2 DEF AnswerInv, Present, Up
<1>4. ASSUME NEW z \in Replicas, NEW q \in Replicas PROVE OnceAsked(z, q)'
  BY <1>1, <1>2 DEF AnswerInv, OnceAsked, Asks, Replies, Counted
<1>5. ASSUME NEW z \in Replicas PROVE OneEach(buffer'[z].STATUS)
  BY <1>1, <1>2 DEF AnswerInv
<1>6. ASSUME NEW z \in Replicas PROVE Expected(z)'
  <2>1. SUFFICES ASSUME InRound(phase[z]), starting[z] = <<>>, NEW q \in Live
                 PROVE  \/ Asks(z, q)' \/ Replies(z, q)' \/ Counted(z, q)'
                        \/ Stranger(z, q)' /\ timer'[q].GREET > Patience(z)'
    BY <1>1 DEF Expected, Live, Up
  <2>2. Up(z) /\ Patience(z) \in 0..StatusDelay /\ (timer[z].STATUS = Off => OwnAnswer(z))
    BY <2>1, PatienceBounds
  <2>3. ~OwnAnswer(z)
    <3>1. chan[z][z] = <<>>
      BY <1>1, <2>2
    <3> QED BY <3>1, TypesEmpty DEF OwnAnswer
  <2>4. timer[z].STATUS # 0
    BY <1>1, <2>2, Tellings
  <2>5. /\ timer[z].STATUS \in Int
        /\ timer'[z].STATUS = IF timer[z].STATUS > 0 THEN timer[z].STATUS - 1 ELSE timer[z].STATUS
        /\ timer'[z].STATUS = Off <=> timer[z].STATUS = Off
    BY Ticks
  <2>6. StatusDelay \in Nat
    BY DelaysInOrder
  <2>7. Patience(z) = timer[z].STATUS /\ Patience(z)' = timer[z].STATUS - 1 /\ timer[z].STATUS >= 1
    BY <2>2, <2>3, <2>4, <2>5, <2>6 DEF Patience
  <2>8. q \in Replicas
    BY DEF Live
  <2>9. /\ timer[q].GREET \in Int
        /\ timer'[q].GREET = IF timer[q].GREET > 0 THEN timer[q].GREET - 1 ELSE timer[q].GREET
    BY <2>8, Ticks
  <2>10. \/ Asks(z, q) \/ Replies(z, q) \/ Counted(z, q)
         \/ Stranger(z, q) /\ timer[q].GREET > Patience(z)
    BY <2>1, AnswersOf DEF Expected
  <2>11. /\ Asks(z, q) => Asks(z, q)'
         /\ Replies(z, q) => Replies(z, q)'
         /\ Counted(z, q) => Counted(z, q)'
         /\ Stranger(z, q) => Stranger(z, q)'
    BY <1>1 DEF Asks, Replies, Counted, Stranger
  <2>12. timer[q].GREET > Patience(z) => timer'[q].GREET > Patience(z)'
    BY <2>5, <2>7, <2>9
  <2> QED BY <2>10, <2>11, <2>12
<1> QED BY <1>3, <1>4, <1>5, <1>6 DEF AnswerInv

LEMMA NextAnswers ==
  ASSUME GatherInv, [Next]_vars
  PROVE  AnswerInv'
<1>1. AnswerInv
  BY Gathered
<1>2. UNCHANGED vars => AnswerInv'
  BY <1>1, SameAnswers DEF vars, gatherVars
<1>3. \A r \in Replicas : Idles(r) => AnswerInv'
  BY <1>1, IdleDoes, SameAnswers
<1>4. ASSUME NEW r \in Replicas, NEW s \in Replicas, Deliver(s, r) PROVE AnswerInv'
  BY <1>4, HelloAnswers, TakenAnswers
<1>5. \A r \in Replicas : WaitsForLock(r) \/ StatusDue(r) \/ MarketsStarted(r) \/ HandleShare(r) \/ Reloaded(r) =>
        AnswerInv'
  BY WaitRelays, StatusDueRelays, MarketsStartedRelays, HandleShareRelays, ReloadedRelays, RelayAnswers
<1> QED BY <1>2, <1>3, <1>4, <1>5, GatherCases, TickAnswers, BootAnswers, SayHelloAnswers

LEMMA InitAnswers == Init => AnswerInv
<1>1. SUFFICES ASSUME Init PROVE AnswerInv
  OBVIOUS
<1>2. /\ \A d, s \in Replicas : chan[d][s] = <<>>
      /\ \A z \in Replicas : buffer[z] = [t \in Buffered |-> <<>>] /\ phase[z] = FreePhase
  BY <1>1 DEF Init
<1>3. \A z \in Replicas : buffer[z].STATUS = <<>>
  BY <1>2, Tellings
<1>4. Present
  BY <1>2, ElementsEmpty DEF Present
<1>5. ASSUME NEW z \in Replicas, NEW q \in Replicas PROVE OnceAsked(z, q)
  <2>1. Types(chan[q][z]) = {} /\ Types(chan[z][q]) = {}
    BY <1>2, TypesEmpty
  <2>2. Single(chan[q][z], "HELLO") /\ Single(chan[z][q], "STATUS")
    BY <1>2, SingleEmpty
  <2> QED BY <2>1, <2>2 DEF OnceAsked, Asks, Replies
<1>6. ASSUME NEW z \in Replicas PROVE OneEach(buffer[z].STATUS)
  BY <1>3 DEF OneEach
<1>7. ASSUME NEW z \in Replicas PROVE Expected(z)
  <2>1. phase[z].held = "none"
    BY <1>2 DEF FreePhase
  <2> QED BY <2>1, Tellings DEF Expected, InRound
<1> QED BY <1>4, <1>5, <1>6, <1>7 DEF AnswerInv

-----------------------------------------------------------------------------
(* What is shared.                                                          *)

LEMMA SharedOf ==
  ASSUME GatherInv, NEW r \in Replicas
  PROVE  /\ SharedOK(r) /\ RoundOK(r) /\ life[r] \in {"off", "up"}
         /\ life[r] = "off" => /\ starting[r] = <<>> /\ ~started[r] /\ buffer[r].SHARE = <<>>
                               /\ \A s \in Replicas : chan[r][s] = <<>>
<1>1. ShareInv /\ RoundInv /\ Staying
  BY Gathered
<1>2. SharedOK(r) /\ RoundOK(r) /\ life[r] \in {"off", "up"}
  BY <1>1 DEF ShareInv, RoundInv, Staying
<1>3. LaunchOK(r)
  BY LockOfUp
<1>4. ASSUME life[r] = "off" PROVE starting[r] = <<>>
  <2>1. phase[r] = FreePhase
    BY <1>3, <1>4 DEF LaunchOK
  <2>2. ~InRound(phase[r])
    BY <2>1, Tellings DEF FreePhase, InRound
  <2> QED BY <1>2, <1>4, <2>2 DEF RoundOK, OnTime, Between
<1> QED BY <1>2, <1>3, <1>4 DEF LaunchOK, RoundOK

LEMMA CirculatingOf ==
  ASSUME GatherInv
  PROVE  Circulating
<1>1. ShareInv
  BY Gathered
<1> QED BY <1>1 DEF ShareInv

\* Whoever has started is up and has greeted the others.
LEMMA StartedIsUp ==
  ASSUME GatherInv, NEW q \in Replicas, started[q]
  PROVE  Up(q) /\ timer[q].GREET = Off
<1>1. LaunchOK(q) /\ life[q] \in {"off", "up"}
  BY LockOfUp, SharedOf
<1> QED BY <1>1 DEF LaunchOK, Up

\* A newcomer says HELLO when time has passed.
LEMMA Newcomers ==
  ASSUME GatherInv, [Next]_vars, ~Tick, NEW q \in Live'
  PROVE  timer'[q].GREET > 0 \/ (q \in Live /\ ~(timer[q].GREET > 0))
<1>1. q \in Replicas
  BY DEF Live
<1>2. ASSUME NEW r \in Replicas, Relays(r)
      PROVE  q \in Live /\ (timer'[q].GREET = timer[q].GREET \/ timer[q].GREET = 0)
  BY <1>1, <1>2 DEF Relays, Others, Live, Up
<1>3. ASSUME NEW r \in Replicas,
             WaitsForLock(r) \/ StatusDue(r) \/ MarketsStarted(r) \/ HandleShare(r) \/ Reloaded(r)
      PROVE  q \in Live /\ (timer'[q].GREET = timer[q].GREET \/ timer[q].GREET = 0)
  BY <1>2, <1>3, WaitRelays, StatusDueRelays, MarketsStartedRelays, HandleShareRelays, ReloadedRelays
<1>4. ASSUME NEW r \in Replicas, Boot(r)
      PROVE  timer'[q].GREET > 0 \/ (q \in Live /\ timer'[q].GREET = timer[q].GREET)
  <2>1. Others(r) /\ timer'[r] = [timer[r] EXCEPT !.GREET = InitDelay] /\ life'[r] = "up"
    BY <1>4, BootDoes
  <2>2. CASE q = r
    <3>1. timer[r] \in [Timers -> Int]
      BY LockOfUp
    <3>2. timer'[r].GREET = InitDelay
      BY <2>1, <3>1, Tellings
    <3>3. InitDelay > 0
      BY DelaysAssumption
    <3> QED BY <2>2, <3>2, <3>3
  <2>3. CASE q # r
    BY <1>1, <2>1, <2>3 DEF Others, Live, Up
  <2> QED BY <2>2, <2>3
<1>5. ASSUME NEW r \in Replicas, NEW who \in Round, SayHello(r, who)
      PROVE  q \in Live /\ timer'[q].GREET = timer[q].GREET
  <2>1. Others(r) /\ timer'[r] = [timer[r] EXCEPT !.PHASE = PhaseDelay] /\ life' = life
    BY <1>5, SayHelloDoes
  <2>2. timer[r] \in [Timers -> Int]
    BY LockOfUp
  <2>3. timer'[r].GREET = timer[r].GREET
    BY <2>1, <2>2, Tellings
  <2> QED BY <1>1, <2>1, <2>3 DEF Others, Live, Up
<1>6. ASSUME NEW r \in Replicas, NEW s \in Replicas, Deliver(s, r)
      PROVE  q \in Live /\ timer'[q].GREET = timer[q].GREET
  <2>1. CASE Head(chan[r][s]).type = "HELLO"
    <3>1. UNCHANGED <<life, timer>>
      BY <1>6, <2>1, DeliverHello
    <3> QED BY <3>1 DEF Live, Up
  <2>2. CASE Head(chan[r][s]).type # "HELLO"
    <3>1. life' = life /\ Others(r)
      BY <1>6, <2>2, DeliverOther
    <3>2. timer'[r].GREET = timer[r].GREET
      BY <1>6, <2>2, TimersTaken
    <3> QED BY <1>1, <3>1, <3>2 DEF Others, Live, Up
  <2> QED BY <2>1, <2>2
<1>7. ASSUME NEW r \in Replicas, Idles(r)
      PROVE  q \in Live /\ timer'[q].GREET = timer[q].GREET
  <2>1. UNCHANGED gatherVars
    BY <1>7, IdleDoes
  <2> QED BY <2>1 DEF gatherVars, Live, Up
<1>8. ASSUME UNCHANGED vars
      PROVE  q \in Live /\ timer'[q].GREET = timer[q].GREET
  BY <1>8 DEF vars, Live, Up
<1> QED BY <1>3, <1>4, <1>5, <1>6, <1>7, <1>8, GatherCases

LEMMA FreshKept ==
  ASSUME GatherInv, [Next]_vars, ~Tick, NEW state, Fresh(state)
  PROVE  Fresh(state)'
<1>1. SUFFICES ASSUME NEW q \in Live' PROVE q \in All(state) \/ timer'[q].GREET > 0
  BY DEF Fresh
<1>2. timer'[q].GREET > 0 \/ (q \in Live /\ ~(timer[q].GREET > 0))
  BY Newcomers
<1> QED BY <1>2 DEF Fresh

LEMMA CurrentKept ==
  ASSUME GatherInv, [Next]_vars, NEW s, NEW state, Current(s, state)
  PROVE  Current(s, state)'
<1>1. Live \subseteq Live'
  BY LifeGoesOn
<1> QED BY <1>1 DEF Current

LEMMA CirculatingKept ==
  ASSUME GatherInv, [Next]_vars,
         \A d, s \in Replicas : \A m \in Elements(chan'[d][s]) : m.type = "SHARE" =>
           m \in Elements(chan[d][s])
  PROVE  Circulating'
<1>1. Circulating
  BY CirculatingOf
<1>2. SUFFICES ASSUME NEW d \in Replicas, NEW s \in Replicas, NEW m \in Elements(chan'[d][s]), m.type = "SHARE"
               PROVE  Current(s, m)' /\ Fresh(m)'
  BY DEF Circulating
<1>3. m \in Elements(chan[d][s])
  BY <1>2
<1>4. Current(s, m) /\ Fresh(m)
  BY <1>1, <1>2, <1>3 DEF Circulating
<1>5. ~Tick
  <2>1. chan[d][s] # <<>>
    BY <1>3, ElementsEmpty
  <2>2. Up(d)
    BY <2>1, SharedOf DEF Up
  <2> QED BY <2>1, <2>2, TickDoes
<1> QED BY <1>4, <1>5, FreshKept, CurrentKept

LEMMA OfferedNothing ==
  ASSUME NEW r, NEW l PROVE Offered(r, l, <<>>) = {}
<1>1. LastReplicaMembers(r, <<>>) = Null
  BY DEF LastReplicaMembers
<1> QED BY <1>1, ElementsEmpty DEF Offered

LEMMA LaunchesKept ==
  ASSUME GatherInv, [Next]_vars, ~Tick, NEW x, NEW state, Launches(x, state),
         members'[x] = members[x], internal'[x] = internal[x]
  PROVE  Launches(x, state)'
<1>1. Current(x, state)' /\ Fresh(state)'
  BY FreshKept, CurrentKept DEF Launches
<1> QED BY <1>1 DEF Launches

\* A replica that has not adopted anything knows and awaits what it did before.
LEMMA SharedKept ==
  ASSUME GatherInv, [Next]_vars, NEW x \in Replicas,
         members'[x] = members[x], internal'[x] = internal[x], starting'[x] = starting[x],
         started'[x] = started[x], buffer'[x].SHARE = buffer[x].SHARE,
         \A s \in Replicas : "SHARE" \in Types(chan[x][s]) => "SHARE" \in Types(chan'[x][s]),
         \A p \in Replicas : started'[p] => started[p] \/ ~Up(x) \/ "SHARE" \in Types(chan'[x][p])
  PROVE  SharedOK(x)'
<1>1. SharedOK(x) /\ Live \subseteq Live'
  BY SharedOf, LifeGoesOn
<1>2. ASSUME NEW m \in Elements(buffer'[x].SHARE) PROVE Current(m.from, m)'
  <2>1. PICK f : f = m.from
    OBVIOUS
  <2>2. Current(f, m)
    BY <1>1, <2>1 DEF SharedOK
  <2>3. Current(f, m)'
    BY <2>2, CurrentKept
  <2> QED BY <2>1, <2>3
<1>3. ASSUME NEW l \in Lists PROVE Names(l, members'[x][l]) \subseteq Live' \cap Scope(x, l)
  BY <1>1 DEF SharedOK
<1>4. PICK state : state = Head(starting[x])
  OBVIOUS
<1>5. ASSUME starting[x] # <<>> PROVE Launches(x, state)'
  <2>1. Launches(x, state)
    BY <1>1, <1>5, <1>4 DEF SharedOK
  <2>2. ~Tick
    <3>1. Up(x)
      BY <1>5, SharedOf DEF Up
    <3> QED BY <1>5, <3>1, TickDoes
  <2> QED BY <2>1, <2>2, LaunchesKept
<1>6. PICK shares : shares = buffer[x].SHARE
  OBVIOUS
<1>7. ASSUME NEW l \in Lists PROVE News(x, l) => News(x, l)'
  BY DEF News, Scope, Peers
<1>8. ASSUME NEW l \in Lists, NEW A, Up(x), ~(News(x, l)'), Started \cap Scope(x, l) \subseteq A
      PROVE  Started' \cap Scope(x, l) \subseteq A
  <2>1. SUFFICES ASSUME NEW p \in Started' \cap Scope(x, l) PROVE p \in A
    OBVIOUS
  <2>2. p \in Replicas /\ started'[p] /\ "SHARE" \notin Types(chan'[x][p])
    BY <1>8 DEF News, Started
  <2>3. started[p]
    BY <1>8, <2>2
  <2> QED BY <1>8, <2>2, <2>3 DEF Started
<1>9. ASSUME NEW l \in Lists PROVE Heard(x, l)'
  <2>1. PICK offered : offered = Offered(x, l, shares)
    OBVIOUS
  <2>2. Offered(x, l, buffer'[x].SHARE) = offered
    BY <1>6, <2>1
  <2>3. SUFFICES ASSUME offered # {}, ~(News(x, l)') PROVE Started' \cap Scope(x, l) \subseteq offered
    BY <2>2 DEF Heard
  <2>4. shares # <<>>
    BY <2>1, <2>3, OfferedNothing
  <2>5. Up(x)
    BY <1>6, <2>4, SharedOf DEF Up
  <2>6. Started \cap Scope(x, l) \subseteq offered
    BY <1>1, <1>6, <1>7, <2>1, <2>3 DEF SharedOK, Heard
  <2> QED BY <1>8, <2>3, <2>5, <2>6
<1>10. ASSUME NEW l \in Lists PROVE Placed(x, l)'
  <2>1. SUFFICES ASSUME started[x] PROVE \E A \in SUBSET Replicas : PlacedWith(x, l, A)'
    BY DEF Placed
  <2>2. PICK A \in SUBSET Replicas : PlacedWith(x, l, A)
    BY <1>1, <2>1 DEF SharedOK, Placed
  <2>3. Up(x)
    BY <2>1, StartedIsUp
  <2>4. /\ x \in A /\ A \subseteq Live' \cap Scope(x, l)
        /\ Names(l, members'[x][l]) \subseteq A
        /\ Says(internal'[x], x, l, A)
    BY <1>1, <2>2 DEF PlacedWith
  <2>5. \/ Started' \cap Scope(x, l) \subseteq A
        \/ News(x, l)'
        \/ x \in Offered(x, l, buffer'[x].SHARE)
    BY <1>6, <1>7, <1>8, <2>2, <2>3 DEF PlacedWith
  <2>6. PlacedWith(x, l, A)'
    BY <2>4, <2>5 DEF PlacedWith
  <2> QED BY <2>6
<1>11. starting'[x] # <<>> => Launches(x, Head(starting[x]))'
  BY <1>5, <1>4
<1> QED BY <1>2, <1>3, <1>9, <1>10, <1>11 DEF SharedOK

\* For the replicas that a step of r does not touch.
LEMMA OthersShared ==
  ASSUME GatherInv, [Next]_vars, NEW r \in Replicas, Others(r), NEW x \in Replicas \ {r},
         \A s \in Replicas : "SHARE" \in Types(chan[x][s]) => "SHARE" \in Types(chan'[x][s]),
         started'[r] => started[r] \/ ~Up(x) \/ "SHARE" \in Types(chan'[x][r])
  PROVE  SharedOK(x)'
<1>1. \A p \in Replicas : started'[p] => started[p] \/ ~Up(x) \/ "SHARE" \in Types(chan'[x][p])
  BY DEF Others
<1> QED BY <1>1, SharedKept DEF Others

LEMMA ShareStep ==
  ASSUME GatherInv, [Next]_vars, NEW r \in Replicas, Others(r), Circulating', SharedOK(r)',
         \A x, s \in Replicas : x # r => ("SHARE" \in Types(chan[x][s]) => "SHARE" \in Types(chan'[x][s])),
         started'[r] => started[r] \/ \A x \in Replicas : Up(x) => "SHARE" \in Types(chan'[x][r])
  PROVE  ShareInv'
<1>1. ASSUME NEW x \in Replicas \ {r} PROVE SharedOK(x)'
  BY OthersShared
<1> QED BY <1>1 DEF ShareInv

\* A step of r that has nothing to do with shares.
LEMMA PlainShare ==
  ASSUME GatherInv, [Next]_vars, NEW r \in Replicas, Others(r),
         members'[r] = members[r], internal'[r] = internal[r], starting'[r] = starting[r],
         started'[r] = started[r], buffer'[r].SHARE = buffer[r].SHARE,
         \A x, s \in Replicas : "SHARE" \in Types(chan[x][s]) => "SHARE" \in Types(chan'[x][s]),
         \A d, s \in Replicas : \A m \in Elements(chan'[d][s]) : m.type = "SHARE" =>
           m \in Elements(chan[d][s])
  PROVE  ShareInv'
<1>1. Circulating'
  BY CirculatingKept
<1>2. \A p \in Replicas : started'[p] => started[p]
  BY DEF Others
<1>3. SharedOK(r)'
  BY <1>2, SharedKept
<1> QED BY <1>1, <1>2, <1>3, ShareStep

LEMMA TypesOfElements ==
  ASSUME NEW q, NEW t
  PROVE  t \in Types(q) <=> \E m \in Elements(q) : m.type = t
BY DEF Types, Elements

\* A queue that keeps its shares.
LEMMA SharesStay ==
  ASSUME NEW p, NEW q, \A m \in Elements(p) : m.type = "SHARE" => m \in Elements(q)
  PROVE  "SHARE" \in Types(p) => "SHARE" \in Types(q)
BY TypesOfElements

LEMMA RestShares ==
  ASSUME ChanOK(chan), NEW r \in Replicas, NEW s \in Replicas, chan[r][s] # <<>>,
         NEW c, c = Rest(r, s), NEW d \in Replicas, NEW x \in Replicas
  PROVE  /\ Elements(c[d][x]) \subseteq Elements(chan[d][x])
         /\ Elements(chan[d][x]) \ {Head(chan[r][s])} \subseteq Elements(c[d][x])
<1>1. Elements(c[d][x]) \subseteq Elements(chan[d][x])
  BY RestElements
<1>2. CASE d # r \/ x # s
  <2>1. c[d][x] = chan[d][x]
    BY <1>2, RestEffect
  <2> QED BY <1>1, <2>1
<1>3. CASE d = r /\ x = s
  <2>1. PICK q : q = chan[r][s]
    OBVIOUS
  <2>2. c[r][s] = Tail(q) /\ IsSeq(q)
    BY <2>1 DEF Rest, ChanOK
  <2>3. Elements(q) = {Head(q)} \cup Elements(Tail(q))
    BY <2>1, <2>2, ElementsTail
  <2> QED BY <1>1, <1>3, <2>1, <2>2, <2>3
<1> QED BY <1>2, <1>3

LEMMA ChanIsOK ==
  ASSUME GatherInv
  PROVE  ChanOK(chan)
<1>1. AllInv
  BY Gathered
<1> QED BY <1>1, Domains

LEMMA BootShare ==
  ASSUME GatherInv, [Next]_vars, NEW r \in Replicas, Boot(r)
  PROVE  ShareInv'
<1>1. Others(r) /\ UNCHANGED <<chan, buffer, phase, members, starting, started, reloads, internal, running>>
  BY BootDoes
<1> QED BY <1>1, PlainShare

LEMMA WaitShare ==
  ASSUME GatherInv, [Next]_vars, NEW r \in Replicas, WaitsForLock(r)
  PROVE  ShareInv'
<1>1. Others(r) /\ UNCHANGED <<life, chan, buffer, members, starting, started, reloads, internal, running>>
  BY WaitDoes
<1> QED BY <1>1, PlainShare

LEMMA ReloadedShare ==
  ASSUME GatherInv, [Next]_vars, NEW r \in Replicas, Reloaded(r)
  PROVE  ShareInv'
<1>1. Others(r) /\ UNCHANGED <<life, chan, buffer, members, starting, started, internal>>
  BY ReloadedDoes
<1> QED BY <1>1, PlainShare

LEMMA SayHelloShare ==
  ASSUME GatherInv, [Next]_vars, NEW r \in Replicas, NEW who \in Round, SayHello(r, who)
  PROVE  ShareInv'
<1>1. Others(r) /\ UNCHANGED <<life, buffer, members, starting, started, reloads, internal, running>>
      /\ chan' = Broadcast(r, HelloMsg(r))
  BY SayHelloDoes
<1>2. PICK n, msg : n = chan' /\ msg = HelloMsg(r)
  OBVIOUS
<1>3. ChanOK(chan) /\ n = Broadcast(r, msg) /\ msg.type = "HELLO"
  BY <1>1, <1>2, ChanIsOK DEF HelloMsg
<1>4. ASSUME NEW d \in Replicas, NEW x \in Replicas
      PROVE  /\ Elements(chan[d][x]) \subseteq Elements(n[d][x])
             /\ Elements(n[d][x]) \subseteq Elements(chan[d][x]) \cup {msg}
  <2>1. Elements(n[d][x]) =
           IF Up(d) /\ x = r THEN Elements(chan[d][x]) \cup {msg} ELSE Elements(chan[d][x])
    BY ONLY <1>3, BroadcastElements, r \in Replicas, d \in Replicas, x \in Replicas
  <2> QED BY <2>1
<1>5. \A x, s \in Replicas : "SHARE" \in Types(chan[x][s]) => "SHARE" \in Types(chan'[x][s])
  BY <1>2, <1>4, SharesStay
<1>6. \A d, s \in Replicas : \A m \in Elements(chan'[d][s]) : m.type = "SHARE" => m \in Elements(chan[d][s])
  BY <1>2, <1>3, <1>4
<1> QED BY <1>1, <1>5, <1>6, PlainShare

\* A message is taken that is not a share.
LEMMA ReplyShare ==
  ASSUME GatherInv, [Next]_vars, NEW r \in Replicas, NEW s \in Replicas, Deliver(s, r),
         Head(chan[r][s]).type # "SHARE"
  PROVE  ShareInv'
<1>1. Others(r) /\ Up(r) /\ chan[r][s] # <<>> /\ UNCHANGED <<members, starting, started, internal>>
      /\ buffer'[r].SHARE = buffer[r].SHARE
  <2>1. CASE Head(chan[r][s]).type = "HELLO"
    BY <2>1, DeliverHello
  <2>2. CASE Head(chan[r][s]).type # "HELLO"
    <3>1. Others(r) /\ Up(r) /\ chan[r][s] # <<>> /\ UNCHANGED <<members, starting, started, internal>>
      BY <2>2, DeliverOther
    <3>2. "SHARE" \in Buffered
      BY Tellings
    <3>3. PICK msg : msg = Head(chan[r][s])
      OBVIOUS
    <3>4. buffer'[r].SHARE = IF "SHARE" = msg.type THEN Append(buffer[r].SHARE, msg) ELSE buffer[r].SHARE
      BY <2>2, <3>2, <3>3, BufferTaken
    <3> QED BY <3>1, <3>3, <3>4
  <2> QED BY <2>1, <2>2
<1>2. PICK c, n, reply : c = Rest(r, s) /\ n = chan' /\ reply = StatusMsg(r, internal[r].rateLimitMultiplier)
  OBVIOUS
<1>3. ChanOK(chan) /\ chan[r][s] # <<>>
  BY <1>1, ChanIsOK
<1>4. ChanOK(c)
  BY <1>2, <1>3, RestEffect
<1>5. reply.type = "STATUS"
  BY <1>2 DEF StatusMsg
<1>6. ASSUME NEW d \in Replicas, NEW x \in Replicas
      PROVE  Elements(n[d][x]) \in {Elements(c[d][x]), Elements(c[d][x]) \cup {reply}}
  <2>1. CASE Head(chan[r][s]).type # "HELLO"
    <3>1. n = c
      BY <1>2, <2>1, DeliverOther
    <3> QED BY <3>1
  <2>2. CASE Head(chan[r][s]).type = "HELLO"
    <3>1. n = Send(c, r, s, reply)
      <4>1. chan' = Send(Rest(r, s), r, s, StatusMsg(r, internal[r].rateLimitMultiplier))
        BY <2>2, DeliverHello
      <4> QED BY <1>2, <4>1
    <3>2. PICK old : old = c[d][x]
      OBVIOUS
    <3>3. n[d][x] = old \/ n[d][x] = Append(old, reply)
      BY <1>4, <3>1, <3>2 DEF Send, ChanOK
    <3>4. Elements(Append(old, reply)) = Elements(old) \cup {reply}
      <4>1. IsSeq(old)
        BY <1>4, <3>2 DEF ChanOK
      <4> QED BY <4>1, ElementsAppend
    <3> QED BY <3>2, <3>3, <3>4
  <2> QED BY <2>1, <2>2
<1>7. ASSUME NEW d \in Replicas, NEW x \in Replicas
      PROVE  /\ \A m \in Elements(chan[d][x]) : m.type = "SHARE" => m \in Elements(n[d][x])
             /\ \A m \in Elements(n[d][x]) : m.type = "SHARE" => m \in Elements(chan[d][x])
  <2>1. /\ Elements(c[d][x]) \subseteq Elements(chan[d][x])
        /\ Elements(chan[d][x]) \ {Head(chan[r][s])} \subseteq Elements(c[d][x])
    <3>1. ChanOK(chan) /\ chan[r][s] # <<>> /\ c = Rest(r, s)
      BY <1>2, <1>3
    <3> QED BY ONLY <3>1, RestShares, r \in Replicas, s \in Replicas, d \in Replicas, x \in Replicas
  <2>2. PICK now, old, first : now = Elements(n[d][x]) /\ old = Elements(c[d][x]) /\ first = Head(chan[r][s])
    OBVIOUS
  <2>3. (now = old \/ now = old \cup {reply}) /\ first.type # "SHARE"
    BY <1>6, <2>2
  <2>4. ASSUME NEW m \in Elements(chan[d][x]), m.type = "SHARE" PROVE m \in now
    BY ONLY <2>1, <2>2, <2>3, <2>4
  <2>5. ASSUME NEW m \in now, m.type = "SHARE" PROVE m \in Elements(chan[d][x])
    BY ONLY <1>5, <2>1, <2>2, <2>3, <2>5
  <2> QED BY <2>2, <2>4, <2>5
<1>8. \A d, x \in Replicas : "SHARE" \in Types(chan[d][x]) => "SHARE" \in Types(chan'[d][x])
  BY <1>2, <1>7, SharesStay
<1>9. \A d, x \in Replicas : \A m \in Elements(chan'[d][x]) : m.type = "SHARE" => m \in Elements(chan[d][x])
  BY <1>2, <1>7
<1> QED BY <1>1, <1>8, <1>9, PlainShare

LEMMA SameShare ==
  ASSUME GatherInv, [Next]_vars, UNCHANGED chan, UNCHANGED gatherVars
  PROVE  ShareInv'
<1>1. Circulating'
  BY CirculatingKept
<1>2. ASSUME NEW x \in Replicas PROVE SharedOK(x)'
  <2>1. /\ members'[x] = members[x] /\ internal'[x] = internal[x] /\ starting'[x] = starting[x]
        /\ started'[x] = started[x] /\ buffer'[x].SHARE = buffer[x].SHARE /\ started' = started
    BY DEF gatherVars
  <2> QED BY <2>1, SharedKept
<1> QED BY <1>1, <1>2 DEF ShareInv

LEMMA TickShare ==
  ASSUME GatherInv, [Next]_vars, Tick
  PROVE  ShareInv'
<1>1. UNCHANGED <<chan, buffer, members, starting, started, internal>>
  BY TickDoes
<1>2. Circulating'
  BY <1>1, CirculatingKept
<1>3. ASSUME NEW x \in Replicas PROVE SharedOK(x)'
  BY <1>1, SharedKept
<1> QED BY <1>2, <1>3 DEF ShareInv

\* A share under way has everybody who has started.
LEMMA ShareCounts ==
  ASSUME GatherInv, NEW s \in Replicas, NEW m, Current(s, m), Fresh(m), NEW r \in Replicas, NEW l \in Lists,
         s \in Scope(r, l)
  PROVE  Started \cap Scope(r, l) \subseteq Names(l, m[l])
<1>1. Scope(s, l) = Scope(r, l)
  BY DEF Scope, Peers
<1>2. SUFFICES ASSUME NEW q \in Started \cap Scope(r, l) PROVE q \in All(m)
  BY <1>1 DEF Current, Consistent
<1>3. q \in Replicas /\ Up(q) /\ timer[q].GREET = Off
  BY StartedIsUp DEF Started
<1>4. ~(Off > 0)
  BY DEF Off
<1> QED BY <1>3, <1>4 DEF Fresh, Live

LEMMA InScope ==
  ASSUME NEW r \in Replicas, NEW l PROVE r \in Scope(r, l)
BY DEF Scope, Peers

LEMMA TakeShare ==
  ASSUME GatherInv, [Next]_vars, NEW r \in Replicas, NEW s \in Replicas, Deliver(s, r),
         Head(chan[r][s]).type = "SHARE"
  PROVE  ShareInv'
<1>1. /\ Others(r) /\ Up(r) /\ chan[r][s] # <<>>
      /\ UNCHANGED <<life, members, starting, started, internal>> /\ chan' = Rest(r, s)
  BY DeliverOther
<1>2. PICK msg : msg = Head(chan[r][s])
  OBVIOUS
<1>3. msg \in Elements(chan[r][s]) /\ msg.from = s
  BY <1>2, DeliverOther
<1>4. Current(s, msg) /\ Fresh(msg)
  <2>1. msg.type = "SHARE"
    BY <1>2
  <2> QED BY <1>3, <2>1, CirculatingOf DEF Circulating
<1>5. PICK old, new : old = buffer[r].SHARE /\ new = buffer'[r].SHARE
  OBVIOUS
<1>6. IsSeq(old) /\ new = Append(old, msg)
  <2>1. "SHARE" \in Buffered /\ msg.type # "HELLO" /\ msg.type = "SHARE"
    BY <1>2, Tellings
  <2>2. /\ IsSeq(buffer[r].SHARE)
        /\ buffer'[r].SHARE = IF "SHARE" = msg.type THEN Append(buffer[r].SHARE, msg) ELSE buffer[r].SHARE
    BY <1>2, <2>1, BufferTaken
  <2> QED BY <1>5, <2>1, <2>2
<1>7. Elements(new) = Elements(old) \cup {msg}
  BY <1>6, ElementsAppend
<1>8. PICK c : c = Rest(r, s)
  OBVIOUS
<1>9. ChanOK(chan)
  BY ChanIsOK
<1>10. \A d, x \in Replicas : d # r \/ x # s => c[d][x] = chan[d][x]
  BY <1>1, <1>8, <1>9, RestEffect
<1>11. \A d, x \in Replicas : Elements(c[d][x]) \subseteq Elements(chan[d][x])
  BY <1>1, <1>8, <1>9, RestElements
<1>12. Circulating'
  BY <1>1, <1>8, <1>11, CirculatingKept
<1>13. SharedOK(r) /\ Live' = Live
  BY <1>1, SharedOf DEF Live, Up
<1>14. ASSUME NEW m \in Elements(new) PROVE Current(m.from, m)
  <2>1. CASE m = msg
    BY <1>3, <1>4, <2>1
  <2>2. CASE m \in Elements(old)
    BY <1>5, <1>13, <2>2 DEF SharedOK
  <2> QED BY <1>7, <2>1, <2>2
<1>15. starting[r] # <<>> => Launches(r, Head(starting[r]))'
  <2>1. SUFFICES ASSUME starting[r] # <<>> PROVE Launches(r, Head(starting[r]))'
    OBVIOUS
  <2>2. PICK state : state = Head(starting[r])
    OBVIOUS
  <2>3. Launches(r, state)
    BY <1>13, <2>1, <2>2 DEF SharedOK
  <2>4. ~Tick
    BY <1>1, TickDoes
  <2>5. Launches(r, state)'
    BY <1>1, <2>3, <2>4, LaunchesKept
  <2> QED BY <1>1, <2>2, <2>5
<1>16. ASSUME NEW l \in Lists PROVE Heard(r, l)' /\ Placed(r, l)'
  <2>1. Consistent(msg.from, msg)
    BY <1>3, <1>4 DEF Current
  <2>2. PICK offered : offered = Offered(r, l, new)
    OBVIOUS
  <2>3. Heard(r, l) /\ Placed(r, l)
    BY <1>13 DEF SharedOK
  <2>4. Started' = Started
    BY <1>1 DEF Started
  <2>5. CASE s \in Scope(r, l)
    <3>1. Names(l, msg[l]) \subseteq offered
      BY <1>3, <1>6, <2>1, <2>2, <2>5, OfferedAppend
    <3>2. Started \cap Scope(r, l) \subseteq Names(l, msg[l])
      BY <1>4, <2>5, ShareCounts
    <3>3. Started \cap Scope(r, l) \subseteq offered
      BY <3>1, <3>2
    <3>4. Heard(r, l)'
      BY <1>5, <2>2, <2>4, <3>3 DEF Heard
    <3>5. started[r] => r \in offered
      BY <3>3, InScope DEF Started
    <3>6. Placed(r, l)'
      BY <1>1, <1>5, <1>13, <2>2, <2>3, <3>5 DEF Placed, PlacedWith
    <3> QED BY <3>4, <3>6
  <2>6. CASE s \notin Scope(r, l)
    <3>1. offered = Offered(r, l, old)
      BY <1>3, <1>6, <2>1, <2>2, <2>6, OfferedAppend
    <3>2. News(r, l)' <=> News(r, l)
      <4>1. \A x \in Scope(r, l) : x \in Replicas /\ chan'[r][x] = chan[r][x]
        BY <1>1, <1>8, <1>10, <2>6 DEF Scope, Peers
      <4> QED BY <4>1 DEF News
    <3>3. Heard(r, l)'
      BY <1>5, <2>2, <2>3, <2>4, <3>1, <3>2 DEF Heard
    <3>4. Placed(r, l)'
      BY <1>1, <1>5, <1>13, <2>2, <2>3, <2>4, <3>1, <3>2 DEF Placed, PlacedWith
    <3> QED BY <3>3, <3>4
  <2> QED BY <2>5, <2>6
<1>17. SharedOK(r)'
  <2>1. \A m \in Elements(buffer'[r].SHARE) : Current(m.from, m)'
    BY <1>5, <1>13, <1>14 DEF Current
  <2>2. \A l \in Lists : Names(l, members'[r][l]) \subseteq Live' \cap Scope(r, l)
    BY <1>1, <1>13 DEF SharedOK
  <2> QED BY <1>1, <1>15, <1>16, <2>1, <2>2 DEF SharedOK
<1> QED BY <1>1, <1>8, <1>10, <1>12, <1>17, ShareStep

LEMMA ShareFields ==
  ASSUME NEW r, NEW state, NEW msg, msg = ShareMsg(r, state)
  PROVE  /\ msg.type = "SHARE" /\ \A l \in Lists : msg[l] = state[l]
         /\ Current(r, state) => Current(r, msg)
         /\ Fresh(state) => Fresh(msg)
<1>1. msg.type = "SHARE" /\ \A l \in Lists : msg[l] = state[l]
  BY DEF ShareMsg, Lists
<1>2. msg.clusterMembers = state.clusterMembers
  BY DEF ShareMsg
<1>3. All(msg) = All(state)
  BY <1>2 DEF All
<1>4. Current(r, state) => Current(r, msg)
  BY <1>1, <1>3 DEF Current, Consistent
<1>5. Fresh(state) => Fresh(msg)
  BY <1>3 DEF Fresh
<1> QED BY <1>1, <1>4, <1>5

\* What the others and the queues are like when r has shared a state.
LEMMA SharedAround ==
  ASSUME GatherInv, [Next]_vars, ~Tick, NEW r \in Replicas, Others(r), NEW state, chan' = Broadcast(r, ShareMsg(r, state)),
         Current(r, state), Fresh(state), SharedOK(r)'
  PROVE  ShareInv'
<1>1. PICK n, msg : n = chan' /\ msg = ShareMsg(r, state)
  OBVIOUS
<1>2. msg.type = "SHARE" /\ Current(r, msg) /\ Fresh(msg)
  BY <1>1, ShareFields
<1>3. n = Broadcast(r, msg) /\ ChanOK(chan)
  BY <1>1, ChanIsOK
<1>4. ASSUME NEW d \in Replicas, NEW x \in Replicas
      PROVE  /\ Elements(n[d][x]) \subseteq Elements(chan[d][x]) \cup {msg}
             /\ x # r => Elements(n[d][x]) \subseteq Elements(chan[d][x])
             /\ "SHARE" \in Types(chan[d][x]) => "SHARE" \in Types(n[d][x])
             /\ Up(d) /\ x = r => "SHARE" \in Types(n[d][x])
  <2>1. Elements(n[d][x]) = IF Up(d) /\ x = r THEN Elements(chan[d][x]) \cup {msg} ELSE Elements(chan[d][x])
    BY ONLY <1>3, BroadcastElements, r \in Replicas, d \in Replicas, x \in Replicas
  <2>2. "SHARE" \in Types(chan[d][x]) => "SHARE" \in Types(n[d][x])
    <3>1. \A m \in Elements(chan[d][x]) : m.type = "SHARE" => m \in Elements(n[d][x])
      BY <2>1
    <3> QED BY <3>1, SharesStay
  <2>3. Up(d) /\ x = r => "SHARE" \in Types(n[d][x])
    BY <1>2, <2>1, TypesOfElements
  <2> QED BY <2>1, <2>2, <2>3
<1>5. ASSUME NEW d \in Replicas, NEW x \in Replicas, NEW m \in Elements(n[d][x]), m.type = "SHARE"
      PROVE  Current(x, m) /\ Fresh(m)
  <2>1. CASE m \in Elements(chan[d][x])
    BY <1>5, <2>1, CirculatingOf DEF Circulating
  <2>2. CASE m \notin Elements(chan[d][x])
    BY <1>2, <1>4, <2>2
  <2> QED BY <2>1, <2>2
<1>6. Circulating'
  <2>1. ASSUME NEW d \in Replicas, NEW x \in Replicas, NEW m \in Elements(n[d][x]), m.type = "SHARE"
        PROVE  Current(x, m)' /\ Fresh(m)'
    BY <1>5, <2>1, CurrentKept, FreshKept
  <2> QED BY <1>1, <2>1 DEF Circulating
<1> QED BY <1>1, <1>4, <1>6, ShareStep

LEMMA MarketsStartedShare ==
  ASSUME GatherInv, [Next]_vars, NEW r \in Replicas, MarketsStarted(r)
  PROVE  ShareInv'
<1>1. /\ Others(r) /\ Up(r) /\ starting[r] # <<>>
      /\ UNCHANGED <<life, buffer, members, reloads, internal>>
      /\ starting'[r] = <<>> /\ started'[r]
      /\ chan' = Broadcast(r, ShareMsg(r, Head(starting[r])))
  BY MarketsStartedDoes
<1>2. PICK state : state = Head(starting[r])
  OBVIOUS
<1>3. SharedOK(r) /\ Live' = Live
  BY <1>1, SharedOf DEF Live, Up
<1>4. Launches(r, state)
  BY <1>1, <1>2, <1>3 DEF SharedOK
<1>5. ~Tick
  BY <1>1, TickDoes
<1>6. ASSUME NEW l \in Lists PROVE News(r, l)'
  <2>1. PICK n, msg : n = chan' /\ msg = ShareMsg(r, state)
    OBVIOUS
  <2>2. n = Broadcast(r, msg) /\ ChanOK(chan) /\ msg.type = "SHARE"
    BY <1>1, <1>2, <2>1, ChanIsOK, ShareFields
  <2>3. Elements(n[r][r]) = IF Up(r) /\ r = r THEN Elements(chan[r][r]) \cup {msg} ELSE Elements(chan[r][r])
    BY ONLY <2>2, BroadcastElements, r \in Replicas
  <2>4. "SHARE" \in Types(n[r][r])
    BY <1>1, <2>2, <2>3, TypesOfElements
  <2> QED BY <2>1, <2>4, InScope DEF News
<1>7. ASSUME NEW l \in Lists PROVE Placed(r, l)'
  <2>1. PICK A : A = Names(l, state[l])
    OBVIOUS
  <2>2. A = All(state) \cap Scope(r, l) /\ All(state) \subseteq Live /\ r \in All(state)
    BY <1>4, <2>1 DEF Launches, Current, Consistent
  <2>3. r \in A /\ A \subseteq Live \cap Scope(r, l) /\ A \in SUBSET Replicas
    BY <2>2, InScope DEF Live
  <2>4. Names(l, members[r][l]) \subseteq A /\ Says(internal[r], r, l, A)
    BY <1>4, <2>1 DEF Launches
  <2>5. PlacedWith(r, l, A)'
    BY <1>1, <1>3, <1>6, <2>3, <2>4 DEF PlacedWith
  <2> QED BY <2>3, <2>5 DEF Placed
<1>8. SharedOK(r)'
  BY <1>1, <1>3, <1>6, <1>7 DEF SharedOK, Heard, Current
<1> QED BY <1>1, <1>2, <1>4, <1>5, <1>8, SharedAround DEF Launches

\* The answers to a HELLO, when they are aggregated, are those of everybody up
\* who has greeted, or is in a list already.
LEMMA EverybodyAnswered ==
  ASSUME GatherInv, NEW r \in Replicas, Up(r), timer[r].STATUS = 0
  PROVE  /\ r \in Senders(buffer[r].STATUS) /\ Senders(buffer[r].STATUS) \subseteq Live
         /\ \A q \in Live : \/ q \in Senders(buffer[r].STATUS)
                            \/ Stranger(r, q) /\ timer[q].GREET > 0
<1>1. InRound(phase[r]) /\ starting[r] = <<>> /\ ~Asking(r)
  BY RoundStages
<1>2. AllInv /\ AnswerInv /\ MailInv
  <2>1. AllInv /\ AnswerInv
    BY Gathered
  <2> QED BY <2>1, Domains
<1>3. Answered(r)
  BY <1>2, PlaceOfUp
<1>4. ~OwnAnswer(r)
  BY <1>1 DEF OwnAnswer, Asking
<1>5. r \in Senders(buffer[r].STATUS)
  BY <1>1, <1>3, <1>4 DEF Answered, Senders
<1>6. "STATUS" \in Buffered
  BY Tellings
<1>7. ASSUME NEW m \in Elements(buffer[r].STATUS) PROVE m.from \in Live
  <2>1. Up(m.from) /\ m.from \in Replicas
    BY <1>2, <1>6 DEF AnswerInv, Present, MailInv, BufferMail, Letter
  <2> QED BY <2>1 DEF Live
<1>8. ASSUME NEW q \in Live
      PROVE  q \in Senders(buffer[r].STATUS) \/ (Stranger(r, q) /\ timer[q].GREET > 0)
  <2>1. Expected(r)
    BY AnswersOf
  <2>2. ~Asks(r, q) /\ ~Replies(r, q)
    BY <1>1 DEF Asking, Asks, Replies, Live
  <2>3. Patience(r) = 0
    BY DEF Patience, Off
  <2> QED BY <1>1, <2>1, <2>2, <2>3 DEF Expected, Counted
<1> QED BY <1>5, <1>7, <1>8 DEF Senders

\* So is the state of a round.
LEMMA RoundState ==
  ASSUME GatherInv, NEW r \in Replicas, Up(r), timer[r].STATUS = 0,
         NEW state, state = AggregateState(r, buffer[r].STATUS)
  PROVE  /\ Current(r, state) /\ Fresh(state) /\ r \in All(state)
         /\ \A l \in Lists : Proper(r, l, state[l]) /\ Names(l, members[r][l]) \subseteq Names(l, state[l])
<1>1. PICK statuses, senders : statuses = buffer[r].STATUS /\ senders = Senders(statuses)
  OBVIOUS
<1>2. /\ r \in senders /\ senders \subseteq Live
      /\ \A q \in Live : q \in senders \/ (Stranger(r, q) /\ timer[q].GREET > 0)
  BY <1>1, EverybodyAnswered
<1>3. IsSeq(statuses) /\ OneEach(statuses) /\ senders \subseteq Replicas
  <2>1. AllInv
    BY Gathered
  <2>2. IsSeq(statuses)
    BY <1>1, <2>1, Private, Tellings
  <2>3. OneEach(statuses)
    BY <1>1, AnswersOf
  <2> QED BY <1>2, <2>2, <2>3 DEF Live
<1>4. ASSUME NEW l \in Lists
      PROVE  Sorted(l, state[l]) /\ Names(l, state[l]) = senders \cap Scope(r, l)
  BY <1>1, <1>3, AggregatedSorted
<1>5. All(state) = senders
  <2>1. Names("clusterMembers", state.clusterMembers) = senders \cap Scope(r, "clusterMembers")
    BY <1>4 DEF Lists
  <2> QED BY <1>3, <2>1 DEF All, Scope
<1>6. Current(r, state) /\ Fresh(state) /\ r \in All(state)
  BY <1>2, <1>4, <1>5 DEF Current, Consistent, Fresh
<1>7. state \in StateOf({1})
  <2>1. AllInv /\ RateInv({1})
    BY Gathered
  <2>2. \E m \in Elements(buffer[r].STATUS) : m.from = r
    BY <1>1, <1>2 DEF Senders
  <2>3. Rates({1})
    BY OnlyOne
  <2>4. /\ IsSeq(statuses) /\ Elements(statuses) # {}
        /\ \A m \in Elements(statuses) : m.rateLimitMultiplier \in {1} /\ m.interval \in {1}
    BY <1>1, <2>1, <2>2, <2>3, BufferedRates
  <2>5. state = AggregateState(r, statuses) /\ {1} \in SUBSET (Nat \ {0})
    BY <1>1
  <2> QED BY <2>4, <2>5, AggregatedRates
<1>8. state.replicaMembers # Null /\ state.clusterMembers # Null /\ state.clusterMembers \in Seq(Entry({1}))
  <2>1. state.replicaMembers \in Seq(Replicas) /\ state.clusterMembers \in Seq(Entry({1}))
    BY <1>7 DEF StateOf
  <2>2. Entry({1}) \subseteq [address : Replicas, interval : Int]
    BY DEF Entry
  <2>3. state.clusterMembers \in Seq([address : Replicas, interval : Int])
    BY <2>1, <2>2, SeqMonotonic
  <2> QED BY <2>1, <2>3, NullAssumption
<1>9. ASSUME NEW l \in Lists
      PROVE  Proper(r, l, state[l]) /\ Names(l, members[r][l]) \subseteq Names(l, state[l])
  <2>1. state[l] # Null /\ (l = "clusterMembers" => state[l] \in Seq(Entry({1})))
    BY <1>8 DEF Lists
  <2>2. r \in Names(l, state[l])
    BY <1>2, <1>4, InScope
  <2>3. Names(l, members[r][l]) \subseteq Live \cap Scope(r, l)
    BY SharedOf DEF SharedOK
  <2>4. ASSUME NEW q \in Names(l, members[r][l]) PROVE q \in senders
    BY <1>2, <2>3 DEF Stranger
  <2> QED BY <1>4, <2>1, <2>2, <2>3, <2>4 DEF Proper
<1> QED BY <1>6, <1>9

\* A replica that has shared has news for itself.
LEMMA ShareIsNews ==
  ASSUME GatherInv, NEW r \in Replicas, Up(r), NEW state, chan' = Broadcast(r, ShareMsg(r, state)),
         NEW l \in Lists
  PROVE  News(r, l)'
<1>1. PICK n, msg : n = chan' /\ msg = ShareMsg(r, state)
  OBVIOUS
<1>2. n = Broadcast(r, msg) /\ ChanOK(chan) /\ msg.type = "SHARE"
  BY <1>1, ChanIsOK, ShareFields
<1>3. Elements(n[r][r]) = IF Up(r) /\ r = r THEN Elements(chan[r][r]) \cup {msg} ELSE Elements(chan[r][r])
  BY ONLY <1>2, BroadcastElements, r \in Replicas
<1>4. "SHARE" \in Types(n[r][r])
  BY <1>2, <1>3, TypesOfElements
<1> QED BY <1>1, <1>4, InScope DEF News

LEMMA SharesKeptByStatus ==
  ASSUME GatherInv, NEW r \in Replicas, StatusDue(r)
  PROVE  buffer'[r].SHARE = buffer[r].SHARE
<1>1. buffer'[r] = [buffer[r] EXCEPT !.STATUS = <<>>]
  BY StatusDueDoes
<1>2. DOMAIN buffer[r] = Buffered
  BY LockOfUp
<1> QED BY <1>1, <1>2

LEMMA StatusDueShare ==
  ASSUME GatherInv, [Next]_vars, NEW r \in Replicas, StatusDue(r)
  PROVE  ShareInv'
<1>1. /\ Others(r) /\ Up(r) /\ timer[r].STATUS = 0
      /\ UNCHANGED <<life, started, reloads, running>>
      /\ buffer'[r].SHARE = buffer[r].SHARE
  BY StatusDueDoes, SharesKeptByStatus
<1>2. PICK state \in {AggregateState(r, buffer[r].STATUS)} :
        /\ members'[r] = [l \in Lists |-> IF l \in known[r] THEN members[r][l] ELSE state[l]]
        /\ \/ /\ started[r] /\ chan' = Broadcast(r, ShareMsg(r, state))
              /\ phase'[r] = Released(phase[r])
              /\ timer'[r] = [[timer[r] EXCEPT !.STATUS = Off] EXCEPT !.PHASE = Off]
              /\ UNCHANGED <<starting, internal>>
           \/ /\ ~started[r] /\ starting'[r] = <<state>>
              /\ internal'[r] = SetDynamicConfig(internal[r], NormalizeState(r, state))
              /\ timer'[r] = [timer[r] EXCEPT !.STATUS = Off]
              /\ UNCHANGED <<chan, phase>>
  BY StatusDueDoes
<1>3. /\ Current(r, state) /\ Fresh(state) /\ r \in All(state)
      /\ \A l \in Lists : Proper(r, l, state[l]) /\ Names(l, members[r][l]) \subseteq Names(l, state[l])
  BY <1>1, <1>2, RoundState
<1>4. SharedOK(r) /\ Live' = Live /\ Started' = Started /\ ~Tick
  <2>1. ~Tick
    <3>1. "STATUS" \in Timers
      BY Tellings
    <3> QED BY <1>1, <3>1, TickDoes
  <2> QED BY <1>1, <2>1, SharedOf DEF Live, Up, Started
<1>5. \A m \in Elements(buffer'[r].SHARE) : Current(m.from, m)'
  BY <1>1, <1>4 DEF SharedOK, Current
<1>6. starting[r] = <<>>
  BY <1>1, RoundStages
<1>7. \A l \in Lists : members'[r][l] = members[r][l] \/ members'[r][l] = state[l]
  BY <1>2
<1>8. CASE /\ started[r] /\ chan' = Broadcast(r, ShareMsg(r, state)) /\ UNCHANGED <<starting, internal>>
  <2>1. known[r] = Lists
    <3>1. AllInv
      BY Gathered
    <3> QED BY <1>8, <3>1 DEF AllInv, IInv, ListInv, StartedKnowsMembers
  <2>2. \A l \in Lists : members'[r][l] = members[r][l]
    BY <1>2, <2>1
  <2>3. \A l \in Lists : News(r, l)'
    BY <1>1, <1>8, ShareIsNews
  <2>4. ASSUME NEW l \in Lists PROVE Heard(r, l)' /\ Placed(r, l)'
    <3>1. Heard(r, l)'
      BY <2>3 DEF Heard
    <3>2. PICK A \in SUBSET Replicas : PlacedWith(r, l, A)
      BY <1>4, <1>8 DEF SharedOK, Placed
    <3>3. PlacedWith(r, l, A)'
      BY <1>4, <1>8, <2>2, <2>3, <3>2 DEF PlacedWith
    <3> QED BY <3>1, <3>3 DEF Placed
  <2>5. \A l \in Lists : Names(l, members'[r][l]) \subseteq Live' \cap Scope(r, l)
    BY <1>4, <2>2 DEF SharedOK
  <2>6. SharedOK(r)'
    BY <1>5, <1>6, <1>8, <2>4, <2>5 DEF SharedOK
  <2> QED BY <1>1, <1>3, <1>4, <1>8, <2>6, SharedAround
<1>9. CASE /\ ~started[r] /\ starting'[r] = <<state>> /\ UNCHANGED chan
           /\ internal'[r] = SetDynamicConfig(internal[r], NormalizeState(r, state))
  <2>1. PICK todo, new : todo = starting'[r] /\ new = internal'[r]
    OBVIOUS
  <2>2. Head(todo) = state
    BY <1>9, <2>1
  <2>3. DOMAIN internal[r] = ConfigFields
    BY ConfigOf
  <2>4. ASSUME NEW l \in Lists PROVE Says(new, r, l, Names(l, state[l]))
    BY <1>3, <1>9, <2>1, <2>3, Adopted
  <2>5. Current(r, state)' /\ Fresh(state)'
    BY <1>3, <1>4, CurrentKept, FreshKept
  <2>6. Launches(r, state)'
    BY <1>3, <1>7, <2>1, <2>4, <2>5 DEF Launches
  <2>7. ASSUME NEW l \in Lists PROVE Heard(r, l)' /\ Placed(r, l)'
    <3>1. Heard(r, l)'
      BY <1>1, <1>4, <1>9 DEF SharedOK, Heard, News
    <3> QED BY <1>1, <1>9, <3>1 DEF Placed
  <2>8. ASSUME NEW l \in Lists PROVE Names(l, members'[r][l]) \subseteq Live' \cap Scope(r, l)
    <3>1. Names(l, members[r][l]) \subseteq Live \cap Scope(r, l)
      BY <1>4 DEF SharedOK
    <3>2. Names(l, state[l]) \subseteq Live \cap Scope(r, l)
      BY <1>3 DEF Current, Consistent
    <3> QED BY <1>4, <1>7, <3>1, <3>2
  <2>9. SharedOK(r)'
    BY <1>5, <2>1, <2>2, <2>6, <2>7, <2>8 DEF SharedOK
  <2>10. Circulating'
    BY <1>9, CirculatingKept
  <2> QED BY <1>1, <1>9, <2>9, <2>10, ShareStep
<1> QED BY <1>2, <1>8, <1>9

LEMMA SharesWindow ==
  ASSUME GatherInv, NEW r \in Replicas
  PROVE  Window(buffer[r].SHARE)
<1>1. AllInv /\ MailInv /\ RateInv({1}) /\ "SHARE" \in Buffered
  <2>1. AllInv /\ RateInv({1})
    BY Gathered
  <2> QED BY <2>1, Domains, Tellings
<1>2. PICK shares : shares = buffer[r].SHARE
  OBVIOUS
<1>3. IsSeq(shares)
  BY <1>1, <1>2, Private
<1>4. ASSUME NEW m \in Elements(shares)
      PROVE  m.from \in Replicas /\ m.clusterMembers \in Seq(Entry({1})) /\ Consistent(m.from, m)
  <2>1. m.from \in Replicas /\ m.type = "SHARE"
    BY <1>1, <1>2 DEF MailInv, BufferMail, Letter
  <2>2. m \in Post({1})
    BY <1>1, <1>2 DEF RateInv, RatedMail
  <2>3. Consistent(m.from, m)
    BY <1>2, SharedOf DEF SharedOK, Current
  <2> QED BY <2>1, <2>2, <2>3, PostFields
<1> QED BY <1>2, <1>3, <1>4 DEF Window

\* Whom the shares that wait offer to a replica.
LEMMA OfferedAreUp ==
  ASSUME GatherInv, NEW r \in Replicas, NEW l \in Lists
  PROVE  Offered(r, l, buffer[r].SHARE) \subseteq Live \cap Scope(r, l)
<1>1. PICK shares : shares = buffer[r].SHARE
  OBVIOUS
<1>2. Window(shares) /\ \A m \in Elements(shares) : Current(m.from, m)
  BY <1>1, SharesWindow, SharedOf DEF SharedOK
<1>3. CASE l = "clusterMembers"
  <2>1. Offered(r, l, shares) = UNION {All(m) : m \in Elements(shares)}
    BY <1>3 DEF Offered
  <2> QED BY <1>1, <1>2, <1>3, <2>1 DEF Current, Live, Scope
<1>4. CASE l = "replicaMembers"
  <2> DEFINE own == {i \in DOMAIN shares : shares[i].from \in Peers(r)}
  <2>1. CASE own = {}
    <3>1. LastReplicaMembers(r, shares) = Null
      BY <2>1 DEF LastReplicaMembers
    <3>2. Offered(r, l, shares) = {}
      BY <1>4, <3>1 DEF Offered
    <3> QED BY <1>1, <3>2
  <2>2. CASE own # {}
    <3>1. Max(own) \in own
      BY <1>2, <2>2, LastShare DEF Window
    <3>2. PICK m : m = shares[Max(own)]
      OBVIOUS
    <3>3. m \in Elements(shares) /\ m.from \in Peers(r)
      BY <3>1, <3>2 DEF Elements
    <3>4. LastReplicaMembers(r, shares) = m.replicaMembers
      BY <2>2, <3>2 DEF LastReplicaMembers
    <3>5. Offered(r, l, shares) \subseteq Elements(m.replicaMembers)
      BY <1>4, <3>4 DEF Offered
    <3>6. Elements(m.replicaMembers) = All(m) \cap Peers(m.from)
      BY <1>2, <3>3, ConsistentLists DEF Window
    <3>7. All(m) \subseteq Live
      BY <1>2, <3>3 DEF Current
    <3>8. Peers(m.from) = Peers(r)
      BY <3>3 DEF Peers
    <3> QED BY <1>1, <1>4, <3>5, <3>6, <3>7, <3>8 DEF Scope
  <2> QED BY <2>1, <2>2
<1> QED BY <1>3, <1>4 DEF Lists

\* What a replica believes after it has handled its shares.
LEMMA HandledPlace ==
  ASSUME GatherInv, NEW r \in Replicas, HandleShare(r), started[r], NEW l \in Lists
  PROVE  \E A \in SUBSET Replicas :
           /\ r \in A /\ A \subseteq Live \cap Scope(r, l) /\ Names(l, members'[r][l]) \subseteq A
           /\ Says(internal'[r], r, l, A)
           /\ Started \cap Scope(r, l) \subseteq A \/ News(r, l)
<1>1. PICK shares, mult : shares = buffer[r].SHARE /\ mult = internal[r].rateLimitMultiplier
  OBVIOUS
<1>2. PICK state \in {ShareState(r, shares, mult)} :
        \/ /\ \A x \in Lists : state[x] = Null \/ state[x] = members[r][x]
           /\ UNCHANGED <<members, reloads, internal>>
        \/ /\ state.clusterMembers # Null
           /\ \A x \in Lists : members'[r][x] = IF state[x] = Null THEN members[r][x] ELSE state[x]
           /\ internal'[r] = SetDynamicConfig(internal[r], NormalizeState(r, state))
  BY <1>1, HandleShareDoes
<1>3. PICK offered : offered = Offered(r, l, shares)
  OBVIOUS
<1>4. Window(shares) /\ offered \subseteq Live \cap Scope(r, l) /\ offered \in SUBSET Replicas
  BY <1>1, <1>3, SharesWindow, OfferedAreUp DEF Live
<1>5. /\ r \notin offered => state[l] = Null
      /\ r \in offered => /\ state[l] # Null /\ Sorted(l, state[l]) /\ Names(l, state[l]) = offered
                          /\ l = "clusterMembers" => state[l] \in Seq(Entry({1}))
  BY <1>2, <1>3, <1>4, SharedSorted
<1>6. Heard(r, l) /\ Placed(r, l)
  BY SharedOf DEF SharedOK
<1>7. PICK A \in SUBSET Replicas : PlacedWith(r, l, A)
  BY <1>6 DEF Placed
<1>8. /\ r \in A /\ A \subseteq Live \cap Scope(r, l) /\ Names(l, members[r][l]) \subseteq A
      /\ Says(internal[r], r, l, A)
      /\ Started \cap Scope(r, l) \subseteq A \/ News(r, l) \/ r \in offered
  BY <1>1, <1>3, <1>7 DEF PlacedWith
<1>9. r \in offered => Started \cap Scope(r, l) \subseteq offered \/ News(r, l)
  BY <1>1, <1>3, <1>6 DEF Heard
<1>10. CASE /\ \A x \in Lists : state[x] = Null \/ state[x] = members[r][x]
            /\ UNCHANGED <<members, reloads, internal>>
  <2>1. Started \cap Scope(r, l) \subseteq A \/ News(r, l)
    <3>1. r \in offered => offered \subseteq A
      BY <1>5, <1>8, <1>10
    <3> QED BY <1>8, <1>9, <3>1
  <2> QED BY <1>8, <1>10, <2>1
<1>11. CASE /\ state.clusterMembers # Null
            /\ \A x \in Lists : members'[r][x] = IF state[x] = Null THEN members[r][x] ELSE state[x]
            /\ internal'[r] = SetDynamicConfig(internal[r], NormalizeState(r, state))
  <2>1. PICK old, new : old = internal[r] /\ new = internal'[r]
    OBVIOUS
  <2>2. DOMAIN old = ConfigFields /\ new = SetDynamicConfig(old, NormalizeState(r, state))
    BY <1>11, <2>1, ConfigOf
  <2>3. CASE r \in offered
    <3>1. Proper(r, l, state[l]) /\ Names(l, state[l]) = offered
      BY <1>5, <2>3 DEF Proper
    <3>2. Says(new, r, l, offered)
      BY <2>2, <3>1, Adopted
    <3>3. members'[r][l] = state[l]
      BY <1>5, <1>11, <2>3
    <3> QED BY <1>4, <1>9, <2>1, <2>3, <3>1, <3>2, <3>3
  <2>4. CASE r \notin offered
    <3>1. state[l] = Null /\ l = "replicaMembers"
      BY <1>5, <1>11, <2>4 DEF Lists
    <3>2. \A B : Says(old, r, l, B) => Says(new, r, l, B)
      BY <2>2, <3>1, Adopted
    <3>3. members'[r][l] = members[r][l]
      BY <1>11, <3>1
    <3> QED BY <1>8, <2>1, <2>4, <3>2, <3>3
  <2> QED BY <2>3, <2>4
<1> QED BY <1>2, <1>10, <1>11

LEMMA HandledMembers ==
  ASSUME GatherInv, NEW r \in Replicas, HandleShare(r), NEW l \in Lists
  PROVE  Names(l, members'[r][l]) \subseteq Live \cap Scope(r, l)
<1>1. PICK shares, mult : shares = buffer[r].SHARE /\ mult = internal[r].rateLimitMultiplier
  OBVIOUS
<1>2. PICK state \in {ShareState(r, shares, mult)} :
        members'[r][l] = members[r][l] \/ (state[l] # Null /\ members'[r][l] = state[l])
  BY <1>1, HandleShareDoes
<1>3. Window(shares) /\ Offered(r, l, shares) \subseteq Live \cap Scope(r, l)
  BY <1>1, SharesWindow, OfferedAreUp
<1>4. CASE members'[r][l] = members[r][l]
  BY <1>4, SharedOf DEF SharedOK
<1>5. CASE state[l] # Null /\ members'[r][l] = state[l]
  <2>1. Names(l, state[l]) = Offered(r, l, shares)
    BY <1>2, <1>3, <1>5, SharedSorted
  <2> QED BY <1>3, <1>5, <2>1
<1> QED BY <1>2, <1>4, <1>5

LEMMA HandleShareShare ==
  ASSUME GatherInv, [Next]_vars, NEW r \in Replicas, HandleShare(r)
  PROVE  ShareInv'
<1>1. /\ Others(r) /\ Up(r) /\ phase[r].held = "SHARE"
      /\ UNCHANGED <<life, chan, timer, starting, started, running>>
      /\ buffer'[r] = [buffer[r] EXCEPT !.SHARE = <<>>]
  BY HandleShareDoes
<1>2. buffer'[r].SHARE = <<>>
  <2>1. DOMAIN buffer[r] = Buffered
    BY LockOfUp
  <2> QED BY <1>1, <2>1, Tellings
<1>3. starting[r] = <<>>
  <2>1. ~InRound(phase[r])
    BY <1>1, Tellings DEF InRound
  <2> QED BY <1>1, <2>1, RoundStages
<1>4. Live' = Live /\ Started' = Started
  BY <1>1 DEF Live, Up, Started
<1>5. ASSUME NEW l \in Lists PROVE Heard(r, l)' /\ Placed(r, l)'
  <2>1. Heard(r, l)'
    BY <1>2, OfferedNothing DEF Heard
  <2>2. Placed(r, l)'
    <3>1. SUFFICES ASSUME started[r] PROVE \E A \in SUBSET Replicas : PlacedWith(r, l, A)'
      BY <1>1 DEF Placed
    <3>2. PICK A \in SUBSET Replicas :
             /\ r \in A /\ A \subseteq Live \cap Scope(r, l) /\ Names(l, members'[r][l]) \subseteq A
             /\ Says(internal'[r], r, l, A)
             /\ Started \cap Scope(r, l) \subseteq A \/ News(r, l)
      BY <3>1, HandledPlace
    <3>3. News(r, l)' <=> News(r, l)
      BY <1>1 DEF News
    <3>4. PlacedWith(r, l, A)'
      BY <1>4, <3>2, <3>3 DEF PlacedWith
    <3> QED BY <3>4
  <2> QED BY <2>1, <2>2
<1>6. ASSUME NEW l \in Lists PROVE Names(l, members'[r][l]) \subseteq Live' \cap Scope(r, l)
  BY <1>4, HandledMembers
<1>7. \A m \in Elements(buffer'[r].SHARE) : Current(m.from, m)'
  BY <1>2, ElementsEmpty
<1>8. SharedOK(r)'
  BY <1>1, <1>3, <1>5, <1>6, <1>7 DEF SharedOK
<1>9. Circulating'
  BY <1>1, CirculatingKept
<1> QED BY <1>1, <1>8, <1>9, ShareStep

LEMMA NextShare ==
  ASSUME GatherInv, [Next]_vars
  PROVE  ShareInv'
<1>1. UNCHANGED vars => ShareInv'
  BY SameShare DEF vars, gatherVars
<1>2. \A r \in Replicas : Idles(r) => ShareInv'
  BY IdleDoes, SameShare
<1>3. ASSUME NEW r \in Replicas, NEW s \in Replicas, Deliver(s, r) PROVE ShareInv'
  BY <1>3, ReplyShare, TakeShare
<1>4. \A r \in Replicas : Boot(r) \/ WaitsForLock(r) \/ Reloaded(r) => ShareInv'
  BY BootShare, WaitShare, ReloadedShare
<1>5. \A r \in Replicas : StatusDue(r) \/ MarketsStarted(r) \/ HandleShare(r) => ShareInv'
  BY StatusDueShare, MarketsStartedShare, HandleShareShare
<1> QED BY <1>1, <1>2, <1>3, <1>4, <1>5, GatherCases, TickShare, SayHelloShare

LEMMA InitShare == Init => ShareInv
<1>1. SUFFICES ASSUME Init PROVE ShareInv
  OBVIOUS
<1>2. /\ \A d, s \in Replicas : chan[d][s] = <<>>
      /\ \A r \in Replicas : /\ buffer[r] = [t \in Buffered |-> <<>>] /\ members[r] = [l \in Lists |-> <<>>]
                             /\ starting[r] = <<>> /\ ~started[r]
  BY <1>1 DEF Init
<1>3. \A r \in Replicas : buffer[r].SHARE = <<>>
  BY <1>2, Tellings
<1>4. Circulating
  BY <1>2, ElementsEmpty DEF Circulating
<1>5. ASSUME NEW r \in Replicas PROVE SharedOK(r)
  <2>1. \A m \in Elements(buffer[r].SHARE) : Current(m.from, m)
    BY <1>3, ElementsEmpty
  <2>2. ASSUME NEW l \in Lists PROVE Names(l, members[r][l]) \subseteq Live \cap Scope(r, l)
    <3>1. members[r][l] = <<>>
      BY <1>2
    <3>2. Names(l, <<>>) = {}
      BY ElementsEmpty, KeysOf DEF Lists
    <3> QED BY <3>1, <3>2
  <2>3. \A l \in Lists : Heard(r, l) /\ Placed(r, l)
    BY <1>2, <1>3, OfferedNothing DEF Heard, Placed
  <2> QED BY <1>2, <2>1, <2>2, <2>3 DEF SharedOK
<1> QED BY <1>4, <1>5 DEF ShareInv

LEMMA InitGather ==
  Init /\ budget.late = {} /\ budget.failures = 0 /\ Stoppers = {} /\ Crashers = {} /\ SlowStart = FALSE
    => GatherInv
<1> SUFFICES ASSUME Init, budget.late = {}, budget.failures = 0, Stoppers = {}, Crashers = {}, SlowStart = FALSE
             PROVE  GatherInv
  OBVIOUS
<1>1. NewcomerInv
  <2>1. Reachable({1})
    BY DEF Reachable
  <2> QED BY <2>1, InitIInv, InitRound, InitPlace, InitRates, InitJoin, OnlyOne DEF AllInv, NewcomerInv
<1>2. Staying
  BY DEF Init, Staying
<1> QED BY <1>1, <1>2, InitLaunch, InitApplied, InitAnswers, InitShare DEF GatherInv

LEMMA NextGather == GatherInv /\ [Next]_vars => GatherInv'
<1> SUFFICES ASSUME GatherInv, [Next]_vars PROVE GatherInv'
  OBVIOUS
<1>1. NewcomerInv'
  <2>1. NewcomerInv
    BY Gathered
  <2> QED BY <2>1, NextIInv, NextRound, NextPlace, NextRates, NextJoin, OnlyOne DEF AllInv, NewcomerInv
<1>2. Staying'
  BY LifeGoesOn
<1> QED BY <1>1, <1>2, NextLaunch, NextApplied, NextAnswers, NextShare DEF GatherInv

\* Where nothing is under way everybody up has started, and runs with what it
\* has been told, which is everybody up.
LEMMA AtRest ==
  ASSUME GatherInv, Quiet, NEW r \in Live
  PROVE  /\ r \in Replicas /\ running[r] # Null /\ running[r] = internal[r]
         /\ running[r].rateLimitMultiplier = 1
         /\ \A l \in Lists : Says(running[r], r, l, Live \cap Scope(r, l))
<1>1. ASSUME NEW q \in Live
      PROVE  /\ q \in Replicas /\ Up(q) /\ started[q] /\ buffer[q].SHARE = <<>>
             /\ reloads[q] = <<>> /\ \A s \in Replicas : chan[q][s] = <<>>
  <2>1. q \in Replicas /\ Up(q)
    BY DEF Live
  <2>2. timer[q] = NoTimers /\ phase[q] = FreePhase /\ reloads[q] = <<>> /\ \A s \in Replicas : chan[q][s] = <<>>
    BY DEF Quiet
  <2>3. timer[q].GREET = Off /\ timer[q].SHARE = Off
    BY <2>2 DEF NoTimers, Buffered
  <2>4. "HELLO" \notin Wanted(phase[q]) /\ "SHARE" \notin Awaited(phase[q])
    BY <2>2, ElementsEmpty, Tellings DEF FreePhase, Wanted, Awaited
  <2>5. LaunchOK(q)
    BY <2>1, LockOfUp
  <2> QED BY <2>1, <2>2, <2>3, <2>4, <2>5 DEF LaunchOK
<1>2. r \in Replicas /\ AppliedOK(r) /\ internal[r].rateLimitMultiplier = 1
  BY <1>1, ConfigOf
<1>3. running[r] # Null /\ running[r] = internal[r]
  BY <1>1, <1>2 DEF AppliedOK
<1>4. ASSUME NEW l \in Lists PROVE Says(internal[r], r, l, Live \cap Scope(r, l))
  <2>1. Placed(r, l)
    BY <1>2, SharedOf DEF SharedOK
  <2>2. PICK A \in SUBSET Replicas : PlacedWith(r, l, A)
    BY <1>1, <2>1 DEF Placed
  <2>3. ~News(r, l)
    <3>1. Types(<<>>) = {}
      BY TypesEmpty
    <3> QED BY <1>1, <3>1 DEF News, Scope, Peers
  <2>4. r \notin Offered(r, l, buffer[r].SHARE)
    BY <1>1, OfferedNothing
  <2>5. A = Live \cap Scope(r, l)
    <3>1. Started \cap Scope(r, l) \subseteq A /\ A \subseteq Live \cap Scope(r, l)
      BY <2>2, <2>3, <2>4 DEF PlacedWith
    <3>2. Live \subseteq Started
      BY <1>1 DEF Started
    <3> QED BY <3>1, <3>2
  <2> QED BY <2>2, <2>5 DEF PlacedWith
<1> QED BY <1>2, <1>3, <1>4

LEMMA RestIsSplit ==
  ASSUME GatherInv PROVE SlotsSplit
<1> SUFFICES ASSUME Quiet, NEW r \in Live
             PROVE  /\ running[r] # Null
                    /\ running[r].replicaSize = Cardinality(LivePeers(r))
                    /\ running[r].instancePosition = Cardinality({p \in LivePeers(r) : p < r})
  BY DEF SlotsSplit
<1>1. running[r] # Null /\ Says(running[r], r, "replicaMembers", Live \cap Scope(r, "replicaMembers"))
  BY AtRest DEF Lists
<1>2. Live \cap Scope(r, "replicaMembers") = LivePeers(r)
  BY DEF Scope, LivePeers
<1> QED BY <1>1, <1>2 DEF Says

\* The multipliers are added up: each is 1.
LEMMA OnesCounted ==
  ASSUME GatherInv, Quiet, NEW S \in SUBSET Live
  PROVE  MapThenSumSet(LAMBDA p : running[p].rateLimitMultiplier, S) = Cardinality(S)
<1>1. \A p \in S : running[p].rateLimitMultiplier = 1
  BY AtRest
<1>2. IsFiniteSet(S)
  <2>1. S \in SUBSET Replicas
    BY DEF Live
  <2> QED BY <2>1, CensusCounts
<1> DEFINE Folds(g) == g = [s \in SUBSET S |->
             IF s = {} THEN 0
             ELSE running[CHOOSE x \in s : TRUE].rateLimitMultiplier + g[s \ {CHOOSE x \in s : TRUE}]]
<1>3. \E g : Folds(g)
  <2>1. PICK g : Counts(g, S, S) /\ \A s \in SUBSET S : g[s] \in Nat
    BY <1>2, CountsExist
  <2> DEFINE h == [s \in SUBSET S |->
               IF s = {} THEN 0
               ELSE running[CHOOSE x \in s : TRUE].rateLimitMultiplier + g[s \ {CHOOSE x \in s : TRUE}]]
  <2>2. g = [s \in SUBSET S |-> g[s]]
    BY <2>1 DEF Counts
  <2>3. ASSUME NEW s \in SUBSET S PROVE g[s] = h[s]
    <3>1. CASE s = {}
      BY <2>1, <3>1 DEF Counts
    <3>2. CASE s # {}
      <4>1. PICK x \in s : x = CHOOSE y \in s : TRUE
        BY <3>2
      <4>2. g[s] = IF x \in S THEN g[s \ {x}] + 1 ELSE g[s \ {x}]
        BY <2>1, <3>2, <4>1 DEF Counts
      <4>3. h[s] = running[x].rateLimitMultiplier + g[s \ {x}]
        BY <3>2, <4>1
      <4>4. running[x].rateLimitMultiplier = 1 /\ x \in S /\ g[s \ {x}] \in Nat
        BY <1>1, <2>1
      <4> HIDE DEF h
      <4> QED BY <4>2, <4>3, <4>4
    <3> QED BY <3>1, <3>2
  <2>4. g = h
    <3>1. h = [s \in SUBSET S |-> h[s]]
      OBVIOUS
    <3> HIDE DEF h
    <3> QED BY <2>2, <2>3, <3>1
  <2> QED BY <2>4
<1>4. PICK f : f = CHOOSE g : Folds(g)
  OBVIOUS
<1>5. MapThenSumSet(LAMBDA p : running[p].rateLimitMultiplier, S) = f[S]
  BY <1>4 DEF MapThenSumSet, MapThenFoldSet
<1>6. Folds(f)
  <2> HIDE DEF Folds
  <2> QED BY <1>3, <1>4
<1>7. Counting(f, S, S)
  <2>1. f[{}] = 0
    BY <1>6
  <2>2. ASSUME NEW s \in SUBSET S, NEW x \in s, x = CHOOSE y \in s : TRUE
        PROVE  x \in S /\ f[s] = 1 + f[s \ {x}]
    <3>1. s # {} /\ x \in S
      OBVIOUS
    <3>2. f[s] = running[x].rateLimitMultiplier + f[s \ {x}]
      BY <1>6, <2>2, <3>1
    <3>3. running[x].rateLimitMultiplier = 1
      BY <1>1, <3>1
    <3> QED BY <3>1, <3>2, <3>3
  <2> HIDE DEF Folds
  <2> QED BY <2>1, <2>2 DEF Counting
<1> HIDE DEF Folds
<1>8. f[S] = Cardinality(S \cap S) /\ S \cap S = S
  BY <1>2, <1>7, CountingUnique
<1> QED BY <1>5, <1>8

LEMMA RestIsExact ==
  ASSUME GatherInv PROVE ClusterExact
<1>1. SlotsSplit
  BY RestIsSplit
<1>2. ASSUME Quiet, NEW r \in Live
      PROVE  running[r].clusterMembers =
               [id \in {Identity[p] : p \in Live} |->
                  MapThenSumSet(LAMBDA p : running[p].rateLimitMultiplier,
                                {p \in Live : Identity[p] = id})]
  <2>1. Says(running[r], r, "clusterMembers", Live \cap Scope(r, "clusterMembers"))
    BY <1>2, AtRest DEF Lists
  <2>2. Live \cap Scope(r, "clusterMembers") = Live
    BY DEF Scope, Live
  <2>3. running[r].clusterMembers = Census(Live)
    BY <2>1, <2>2 DEF Says
  <2>4. ASSUME NEW id
        PROVE  MapThenSumSet(LAMBDA p : running[p].rateLimitMultiplier, {p \in Live : Identity[p] = id})
                 = Cardinality({p \in Live : Identity[p] = id})
    BY <1>2, OnesCounted
  <2> QED BY ZenonT(40), <2>3, <2>4 DEF Census
<1> QED BY <1>1, <1>2 DEF ClusterExact

\* As long as no message is late, nobody exceeds a rate limit and nobody leaves,
\* discovery comes to rest only with the markets of every exchange split exactly
\* among the replicas that are up, whoever joins, whenever, and however the rounds
\* and the shares of the replicas interleave.
THEOREM SlotsSplitHolds ==
  Spec /\ budget.late = {} /\ budget.failures = 0 /\ Stoppers = {} /\ Crashers = {} /\ SlowStart = FALSE
    => []SlotsSplit
<1>1. GatherInv => SlotsSplit
  BY RestIsSplit
<1> QED BY <1>1, InitGather, NextGather, PTL DEF Spec

\* And with every replica of the cluster, of whichever identity, counting all the
\* others in the windows it computes.
THEOREM ClusterExactHolds ==
  Spec /\ budget.late = {} /\ budget.failures = 0 /\ Stoppers = {} /\ Crashers = {} /\ SlowStart = FALSE
    => []ClusterExact
<1>1. GatherInv => ClusterExact
  BY RestIsExact
<1> QED BY <1>1, InitGather, NextGather, PTL DEF Spec

=============================================================================
