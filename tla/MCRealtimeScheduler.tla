------------------------ MODULE MCRealtimeScheduler ------------------------
(* RealtimeScheduler on small clusters.  A second has 960 units. *)
EXTENDS RealtimeScheduler

Window(rate, markets, operations, replicas) ==
  [baseRateLimit |-> rate, queueSize |-> markets, operations |-> operations, replicaSize |-> replicas]

\* Intervals of seconds and of minutes, full, almost empty and in between.
OneIdentity ==
  {<<Window(192, n[1], n[2], n[3])>> : n \in {m \in (1..2) \X (1..2) \X (1..2) : m[1] * m[2] * m[3] <= 4}}
    \cup {<<Window(480, 2, 2, 1)>>, <<Window(960, 3, 2, 1)>>}
TwoIdentities ==
  {<<Window(192, 2, 1, 1), Window(288, 1, 1, 2)>>, <<Window(480, 1, 1, 2), Window(96, 1, 2, 1)>>}
\* Two slots; these stop twice, back off and learn of it from each other.
TwoSlots == {<<Window(384, 2, 1, 1)>>, <<Window(480, 1, 1, 1), Window(96, 1, 1, 1)>>}
AllLayouts == OneIdentity \cup TwoIdentities \cup TwoSlots

StopsOf(l) == IF l \in TwoSlots THEN 2 ELSE 1
MultiplierOf(l) == IF l \in TwoSlots THEN 2 ELSE 1
Two(l) == 2

ThreeMarkets == {<<Window(320, 3, 1, 1)>>}

\* An interval of a minute, of an hour when the multiplier is 2.
AnHour == {<<Window(5760, 1, 1, 1)>>}
=============================================================================
