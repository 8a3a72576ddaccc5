------------------------- MODULE MCReplicaDiscovery -------------------------
(* ReplicaDiscovery on small instances: what kinds of collectors there are. *)
EXTENDS ReplicaDiscovery

OneIdentity == [r \in Replicas |-> "rt"]
TwoIdentities == [r \in Replicas |-> IF r = 2 THEN "hist" ELSE "rt"]

Calm == {[late |-> {}, failures |-> 0]}
OneFailure == {[late |-> {}, failures |-> 1]}
FailureOrLate == OneFailure \cup {[late |-> {"STATUS"}, failures |-> 0]}
=============================================================================
