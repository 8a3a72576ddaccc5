--------------------------- MODULE RecordDelivery ---------------------------
(***************************************************************************)
(* What the pipeline from a collector to the database promises: a record   *)
(* that has been sent is stored, for good, or given up after it has failed *)
(* more often than the retry limit, or after the one who had it died when  *)
(* the broker did not wait for it any more; it is never just gone.         *)
(***************************************************************************)
EXTENDS Integers

CONSTANTS
  Keys,        \* what identifies a record: interval and market
  RetryLimit

VARIABLES
  status,      \* "unknown", "queued", "stored" or "given up"
  failures,    \* how often it could not be stored
  abandoned    \* records whose handler died so

vars == <<status, failures, abandoned>>

Init ==
  /\ status = [k \in Keys |-> "unknown"] /\ failures = [k \in Keys |-> 0] /\ abandoned = {}

Send(k) ==
  /\ status[k] \in {"unknown", "given up"}
  /\ status' = [status EXCEPT ![k] = "queued"]
  /\ UNCHANGED <<failures, abandoned>>

Store(k) ==
  /\ status[k] = "queued"
  /\ status' = [status EXCEPT ![k] = "stored"]
  /\ UNCHANGED <<failures, abandoned>>

Fail(k) ==
  /\ status[k] \in {"queued", "stored"}
  /\ failures' = [failures EXCEPT ![k] = @ + 1]
  /\ UNCHANGED <<status, abandoned>>

\* A handler ends, or a process dies, with several records perhaps.
GiveUp(over, lost) ==
  /\ abandoned' = abandoned \cup lost
  /\ \A k \in over : status[k] = "queued" /\ (failures[k] > RetryLimit \/ k \in abandoned')
  /\ status' = [k \in Keys |-> IF k \in over THEN "given up" ELSE status[k]]
  /\ UNCHANGED failures

Next ==
  \/ \E k \in Keys : Send(k) \/ Store(k) \/ Fail(k)
  \/ \E over, lost \in SUBSET Keys : GiveUp(over, lost)

Spec == Init /\ [][Next]_vars

=============================================================================
