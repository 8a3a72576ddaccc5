----------------------------- MODULE MCServices -----------------------------
(***************************************************************************)
(* What is done with the data of the collectors, in three parts, each on a *)
(* small instance of its own: the workers behind the queues, the readers   *)
(* of candles and the cache.  They share nothing, so a behaviour is one of *)
(* one part while the others have nothing to do.  What is not named after  *)
(* a part is of QueueWorkers, which this module extends.                   *)
(***************************************************************************)
EXTENDS MCCandleInputs, QueueWorkers, TLC

CONSTANTS
  Null, k1, a, b, t1, w1, w2, c1, c2,
  MaxFaults     \* bound: faults of the workers in one behaviour, of whatever kinds

VARIABLES
  part,
  request, records, reader, read, answered,
  index, stored, client, clock, used, disturbed

queueVars == vars
readVars == <<request, records, reader, read, answered>>
cacheVars == <<index, stored, client, clock, used, disturbed>>
MCvars == <<part, queueVars, readVars, cacheVars>>

\* Two workers, and two records that are one, sent by two collectors, or a task.
MCKey == a :> k1 @@ b :> k1
MCLoads == {{}, {a, b}, {t1}}

MCKeys == 1..4

Faults ==
  (MaxCrashes - budget.crashes) + (MaxFailures - budget.failures) + (MaxLostAcks - budget.acks)

\* Workers that nothing has happened to are alike, and so are the two records
\* that nobody has sent: w1 and a are the first.
Unused(w) == link[w] = "up" /\ channel[w] = 0 /\ ~\E c \in copies : c.by = w
FirstOnesFirst == /\ Unused(w1) /\ Unused(w2) => Unused(w2)'
                  /\ sent' # {b}

Reads == INSTANCE CandleReads
  WITH Requests <- AllRequests, Tables <- SmallTables, News <- Present, table <- records
Cache == INSTANCE RedisLRU
  WITH Clients <- {c1, c2}, Keys <- MCKeys, MaxCacheSize <- 2, MaxCalls <- 4, MaxDisturbed <- 1
\* Clients at rest are alike, and so are keys of which there is no trace.
Traced(k) == k \in stored \cup DOMAIN index \cup DOMAIN used \cup client[c1].keys \cup client[c2].keys
LeastOnesFirst == /\ Cache!AtRest => client[c2] = client'[c2]
                  /\ \A k \in MCKeys : ~Traced(k) /\ Traced(k)' => \A j \in 1..(k - 1) : Traced(j)

MCInit ==
  /\ part \in {"queues", "reads", "cache"}
  /\ Init /\ (part = "queues") = (load # {})
  /\ Reads!Init /\ (part = "reads" \/ (records = <<>> /\ request = CHOOSE r \in AllRequests : TRUE))
  /\ Cache!Init

Queue ==
  /\ part = "queues" /\ Next /\ Faults' <= MaxFaults /\ FirstOnesFirst
  /\ UNCHANGED <<part, readVars, cacheVars>>
Read == part = "reads" /\ Reads!Next /\ UNCHANGED <<part, queueVars, cacheVars>>
Use == part = "cache" /\ Cache!Next /\ LeastOnesFirst /\ UNCHANGED <<part, queueVars, readVars>>

MCNext == Queue \/ Read \/ Use

MCSpec == MCInit /\ [][MCNext]_MCvars /\ WF_MCvars(Queue /\ Progress)

-----------------------------------------------------------------------------

\* What the other parts promise, as their modules state it.
AnswersExact == Reads!AnswersExact
CacheKept == Cache!CacheKept

=============================================================================
