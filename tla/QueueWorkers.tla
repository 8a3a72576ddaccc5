---------------------------- MODULE QueueWorkers ----------------------------
(***************************************************************************)
(* The workers behind the queues: BaseAMQPWorker.js with the two kinds of  *)
(* handlers it has, BaseMarketRecordWriter.js for what collectors send and *)
(* CandlesDiscreteAggregator.js for the tasks of the API, and the emitter  *)
(* of the prices that have been recorded.                                  *)
(*                                                                         *)
(* A handler that failed sends a copy to the retry queue, from where it    *)
(* comes back.  When a connection is lost the broker delivers again what   *)
(* it waits for, while the process, if it lives, goes on with what it has  *)
(* begun.  Such a handler acknowledges on the channel of the moment, where *)
(* its delivery tag is stale: the broker closes that channel, and the      *)
(* worker is deaf until it connects again, or takes the tag for that of    *)
(* another delivery.  Without a channel an acknowledgement is not sent,    *)
(* and what is published is kept in memory for the next channel.           *)
(*                                                                         *)
(* The broker keeps what it was given; consumers compete for the queues,   *)
(* so any message may be next.                                             *)
(***************************************************************************)
EXTENDS Integers, FiniteSetsExt, Functions

CONSTANTS
  Loads,         \* which messages are sent in a behaviour: records and tasks
  Key,           \* what identifies the record of a message
  Workers,       \* processes that consume
  Prefetch,      \* messages a worker handles at a time
  RetryLimit,
  MaxCrashes,    \* bound: connections lost, with the process or without
  MaxFailures,   \* bound: handlers that fail, and saves whose outcome is lost
  MaxLostAcks    \* bound: acknowledgements of the emitter that do not arrive

VARIABLES
  load,      \* what is to be sent
  sent,      \* which of it has been
  copies,    \* messages, in queues and in the memory of processes: where each
             \* is, with its retryCount; by whom and over which channel it was
             \* received; was it acknowledged by the tag of another
  link,      \* of each worker: "up", "down", "deaf"
  channel,   \* channels that each worker has lost
  table,     \* keys of the records in the database
  pricing,   \* events of each key in the queue of the emitter
  emitted,   \* events of each key that have been emitted
  tasks,     \* status of each task, its sets of results and those of them
             \* that are associated with their exchanges
  failed,    \* history: how often a message of this key or task has failed
  repeated,  \* history: events that were sent or emitted again because no
             \* confirmation or acknowledgement of them had come
  silent,    \* history: keys whose creator failed or died with the event
  abandoned, \* history: keys and tasks whose handler died while the broker
             \* did not wait for it
  budget     \* what is left of the bounds

netVars == <<link, channel>>
dbVars == <<table, tasks>>
eventVars == <<pricing, emitted, repeated>>
lossVars == <<silent, abandoned>>
vars == <<load, sent, copies, netVars, dbVars, eventVars, failed, lossVars, budget>>

IsTask(b) == b \notin DOMAIN Key
Subject(b) == IF IsTask(b) THEN b ELSE Key[b]
Keys == Range(Key)
Tasks == {b \in UNION Loads : IsTask(b)}
Subjects == Keys \cup Tasks

Nobody == "nobody"

\* Two copies of a message may agree in everything but this.
FreshId == Min({n \in 1..(Cardinality(copies) + 1) : \A c \in copies : c.id # n})
Copy(body, count, at) ==
  [id |-> FreshId, body |-> body, count |-> count, at |-> at, by |-> Nobody, of |-> 0, acked |-> FALSE]
Moved(c, at) == (copies \ {c}) \cup {[c EXCEPT !.at = at]}

\* A handler that has ended, but for its acknowledgement; it may have published
\* what is not confirmed yet.
Ended == {"announced", "retried", "done"}

\* What an AMQPClient keeps for the next channel.
KeptEvents == {"event kept", "event again"}
KeptPlaces == {"retry kept"} \cup KeptEvents

\* The deliveries that the broker waits for.
Held(c) == c.by # Nobody /\ c.of = channel[c.by] /\ ~c.acked
HeldBy(w) == {c \in copies : c.by = w /\ Held(c)}

\* It queues them again when their channel is lost.
QueuedAgain(w) == {[c EXCEPT !.at = "queue", !.by = Nobody, !.of = 0] : c \in HeldBy(w)}

\* What the constants are to be: no worker is called nobody, and tasks are not
\* named as records are.
Reasonable ==
  /\ RetryLimit \in Nat /\ MaxCrashes \in Nat /\ MaxFailures \in Nat /\ MaxLostAcks \in Nat
  /\ Nobody \notin Workers /\ Keys \cap Tasks = {}

ASSUME ReasonableAssumption == Reasonable

Init ==
  /\ load \in Loads /\ sent = {} /\ copies = {} /\ table = {}
  /\ link = [w \in Workers |-> "up"] /\ channel = [w \in Workers |-> 0]
  /\ pricing = [k \in Keys |-> 0] /\ emitted = pricing /\ repeated = pricing
  /\ tasks = [t \in Tasks |-> [status |-> "none", results |-> 0, linked |-> 0]]
  /\ failed = [s \in Subjects |-> 0] /\ silent = {} /\ abandoned = {}
  /\ budget = [crashes |-> MaxCrashes, failures |-> MaxFailures, acks |-> MaxLostAcks]

-----------------------------------------------------------------------------
(* Who sends. *)

\* A collector has its data.
PublishRecord(b) ==
  /\ b \in load \ sent /\ ~IsTask(b)
  /\ sent' = sent \cup {b}
  /\ copies' = copies \cup {Copy(b, 1, "queue")}
  /\ UNCHANGED <<load, netVars, dbVars, eventVars, failed, lossVars, budget>>

\* The API creates a task, then sends it.
CreateTask(t) ==
  /\ t \in load /\ IsTask(t) /\ tasks[t].status = "none"
  /\ tasks' = [tasks EXCEPT ![t].status = "PENDING"]
  /\ UNCHANGED <<load, sent, copies, netVars, table, eventVars, failed, lossVars, budget>>

SendTask(t) ==
  /\ t \in load \ sent /\ IsTask(t) /\ tasks[t].status = "PENDING"
  /\ sent' = sent \cup {t}
  /\ copies' = copies \cup {Copy(t, 1, "queue")}
  /\ UNCHANGED <<load, netVars, dbVars, eventVars, failed, lossVars, budget>>

-----------------------------------------------------------------------------
(* The broker. *)

Deliver(w, c) ==
  /\ c \in copies /\ c.at = "queue" /\ link[w] = "up" /\ Cardinality(HeldBy(w)) < Prefetch
  /\ copies' = (copies \ {c}) \cup {[c EXCEPT !.at = "received", !.by = w, !.of = channel[w]]}
  /\ UNCHANGED <<load, sent, netVars, dbVars, eventVars, failed, lossVars, budget>>

\* The ttl of the retry queue ends; it dead-letters to the primary one.
RetryPeriodEnds(c) ==
  /\ c \in copies /\ c.at = "retry"
  /\ copies' = Moved(c, "queue")
  /\ UNCHANGED <<load, sent, netVars, dbVars, eventVars, failed, lossVars, budget>>

\* A worker loses its connection and lives.
Disconnect(w) ==
  /\ budget.crashes > 0 /\ link[w] # "down"
  /\ budget' = [budget EXCEPT !.crashes = @ - 1]
  /\ link' = [link EXCEPT ![w] = "down"] /\ channel' = [channel EXCEPT ![w] = @ + 1]
  /\ copies' = copies \cup QueuedAgain(w)
  /\ UNCHANGED <<load, sent, dbVars, eventVars, failed, lossVars>>

\* A handler that nobody would take up again if its process died: the broker
\* has the acknowledgement, or had the task done by another, perhaps before
\* this one set it to PROCESSING.
Irreplaceable(c) ==
  /\ ~Held(c) /\ c.at \notin Ended
  /\ c.acked \/ (IsTask(c.body) /\ c.at # "received")

\* Its process dies, with what it kept.
Die(w) ==
  LET mine == {c \in copies : c.by = w}
  IN  /\ budget.crashes > 0
      /\ budget' = [budget EXCEPT !.crashes = @ - 1]
      /\ link' = [link EXCEPT ![w] = "down"] /\ channel' = [channel EXCEPT ![w] = @ + 1]
      /\ copies' = (copies \ mine) \cup QueuedAgain(w)
      /\ abandoned' = abandoned \cup {Subject(c.body) : c \in {c \in mine : Irreplaceable(c)}}
      /\ silent' = silent \cup {Key[c.body] : c \in {c \in mine : c.at \in {"created", "event kept"}}}
      /\ UNCHANGED <<load, sent, dbVars, eventVars, failed>>

\* A worker connects again.  What ended before has been acknowledged in vain.
Connect(w) ==
  /\ link[w] = "down" /\ ~\E c \in copies : c.by = w /\ c.at \in Ended
  /\ link' = [link EXCEPT ![w] = "up"]
  /\ UNCHANGED <<load, sent, copies, channel, dbVars, eventVars, failed, lossVars, budget>>

-----------------------------------------------------------------------------
(* BaseAMQPWorker. *)

CanRetry(c) == c.count <= RetryLimit

\* Mutated form of HandleRetry: the error gets past the acknowledgement.
HandleRetryUnacknowledged(c) ==
  /\ failed' = [failed EXCEPT ![Subject(c.body)] = @ + 1]
  /\ copies' = Moved(c, "failed") \cup (IF CanRetry(c) THEN {Copy(c.body, c.count + 1, "retry")} ELSE {})

\* process() of a handler that failed: it publishes a copy, or has one kept.
HandleRetry(c) ==
  /\ failed' = [failed EXCEPT ![Subject(c.body)] = @ + 1]
  /\ copies' = CASE ~CanRetry(c) -> Moved(c, "done")
                  [] CanRetry(c) /\ link[c.by] = "up" -> Moved(c, "retried") \cup {Copy(c.body, c.count + 1, "retry")}
                  [] OTHER -> Moved(c, "retry kept")

\* Mutated form of Fails: the message is acknowledged first, and the process
\* dies before it has sent the copy.
FailsUnretried(c) ==
  /\ c \in copies /\ budget.failures > 0
  /\ budget' = [budget EXCEPT !.failures = @ - 1]
  /\ c.at \in {"received", "created", "found"}
  /\ failed' = [failed EXCEPT ![Subject(c.body)] = @ + 1]
  /\ copies' = copies \ {c}
  /\ UNCHANGED <<load, sent, netVars, dbVars, eventVars, lossVars>>

\* The database cannot be reached, or what it answered is lost.  A handler of
\* tasks catches that once it has begun (see TaskFails).
Fails(c) ==
  /\ c \in copies /\ budget.failures > 0
  /\ budget' = [budget EXCEPT !.failures = @ - 1]
  /\ c.at \in {"received", "created", "found"} /\ HandleRetry(c)
  /\ silent' = IF c.at = "created" THEN silent \cup {Key[c.body]} ELSE silent
  /\ UNCHANGED <<load, sent, netVars, dbVars, eventVars, abandoned>>

\* The acknowledgement of a delivery of this channel, or of none at all.
Acknowledge(c) ==
  /\ c \in copies /\ c.at \in Ended /\ (link[c.by] = "up" => Held(c))
  /\ copies' = copies \ {c}
  /\ UNCHANGED <<load, sent, netVars, dbVars, eventVars, failed, lossVars, budget>>

\* That of a delivery of another channel, or one that this channel has had.
AcknowledgeStale(c) ==
  /\ c \in copies /\ c.at \in Ended /\ link[c.by] = "up" /\ ~Held(c)
  /\ \/ /\ link' = [link EXCEPT ![c.by] = "deaf"] /\ channel' = [channel EXCEPT ![c.by] = @ + 1]
        /\ copies' = (copies \ {c}) \cup QueuedAgain(c.by)
     \/ /\ c.of # channel[c.by]
        /\ \E d \in HeldBy(c.by) : copies' = (copies \ {c, d}) \cup {[d EXCEPT !.acked = TRUE]}
        /\ UNCHANGED netVars
  /\ UNCHANGED <<load, sent, dbVars, eventVars, failed, lossVars, budget>>

\* The connection went before the confirmation came: it is published again.
Unconfirmed(c) ==
  /\ c \in copies /\ c.at \in {"announced", "retried"} /\ link[c.by] # "up"
  /\ copies' = Moved(c, IF c.at = "announced" THEN "event again" ELSE "retry kept")
  /\ UNCHANGED <<load, sent, netVars, dbVars, eventVars, failed, lossVars, budget>>

\* What was kept is published.
Flush(c) ==
  /\ c \in copies /\ c.at \in KeptPlaces /\ link[c.by] = "up"
  /\ copies' = (copies \ {c}) \cup (IF c.at = "retry kept" THEN {Copy(c.body, c.count + 1, "retry")} ELSE {})
  /\ pricing' = IF c.at \in KeptEvents THEN [pricing EXCEPT ![Key[c.body]] = @ + 1] ELSE pricing
  /\ repeated' = IF c.at = "event again" THEN [repeated EXCEPT ![Key[c.body]] = @ + 1] ELSE repeated
  /\ UNCHANGED <<load, sent, netVars, dbVars, emitted, failed, lossVars, budget>>

-----------------------------------------------------------------------------
(* BaseMarketRecordWriter. *)

\* Mutated form of FindOrCreate: nobody looks whether it is there.
CreateAgain(c) ==
  /\ c \in copies /\ c.at = "received" /\ ~IsTask(c.body)
  /\ table' = table \cup {Key[c.body]}
  /\ copies' = Moved(c, "created")
  /\ UNCHANGED <<load, sent, netVars, tasks, eventVars, failed, lossVars, budget>>

\* findOrCreate() in the database; the unique index decides a race.
FindOrCreate(c) ==
  /\ c \in copies /\ c.at = "received" /\ ~IsTask(c.body)
  /\ table' = table \cup {Key[c.body]}
  /\ copies' = Moved(c, IF Key[c.body] \in table THEN "found" ELSE "created")
  /\ UNCHANGED <<load, sent, netVars, tasks, eventVars, failed, lossVars, budget>>

\* The rest of execute(): the event is published, or kept.
Announce(c) ==
  /\ c \in copies /\ c.at \in {"created", "found"}
  /\ LET now == c.at = "created" /\ link[c.by] = "up"
     IN  /\ pricing' = IF now THEN [pricing EXCEPT ![Key[c.body]] = @ + 1] ELSE pricing
         /\ copies' = Moved(c, IF now THEN "announced" ELSE IF c.at = "created" THEN "event kept" ELSE "done")
  /\ UNCHANGED <<load, sent, netVars, dbVars, emitted, repeated, failed, lossVars, budget>>

\* PricingEmitter.process(), acknowledged.
EmitPrice(k) ==
  /\ pricing[k] > 0
  /\ pricing' = [pricing EXCEPT ![k] = @ - 1]
  /\ emitted' = [emitted EXCEPT ![k] = @ + 1]
  /\ UNCHANGED <<load, sent, copies, netVars, dbVars, repeated, failed, lossVars, budget>>

\* The same, but the connection or the process is lost before the broker has
\* the acknowledgement: the event is delivered again.
EmitUnacknowledged(k) ==
  /\ pricing[k] > 0 /\ budget.acks > 0
  /\ budget' = [budget EXCEPT !.acks = @ - 1]
  /\ emitted' = [emitted EXCEPT ![k] = @ + 1]
  /\ repeated' = [repeated EXCEPT ![k] = @ + 1]
  /\ UNCHANGED <<load, sent, copies, netVars, dbVars, pricing, failed, lossVars>>

-----------------------------------------------------------------------------
(* CandlesDiscreteAggregator. *)

Task(c) == tasks[c.body]

\* initiateTaskStatus().
Initiate(c) ==
  /\ c \in copies /\ c.at = "received" /\ IsTask(c.body)
  /\ tasks' = [tasks EXCEPT ![c.body].status = "PROCESSING"]
  /\ copies' = Moved(c, "processing")
  /\ UNCHANGED <<load, sent, netVars, table, eventVars, failed, lossVars, budget>>

\* executeUseCase() and the first half of saveTaskResults().
SaveResults(c) ==
  /\ c \in copies /\ c.at = "processing"
  /\ tasks' = [tasks EXCEPT ![c.body].results = @ + 1]
  /\ copies' = Moved(c, "saved")
  /\ UNCHANGED <<load, sent, netVars, table, eventVars, failed, lossVars, budget>>

\* setResultsAssociations().
Associate(c) ==
  /\ c \in copies /\ c.at = "saved"
  /\ tasks' = [tasks EXCEPT ![c.body].linked = @ + 1]
  /\ copies' = Moved(c, "linked")
  /\ UNCHANGED <<load, sent, netVars, table, eventVars, failed, lossVars, budget>>

\* Mutated form of Complete: a task is complete when its results are saved.
CompleteEarly(c) ==
  /\ c \in copies /\ c.at \in {"saved", "linked"}
  /\ tasks' = [tasks EXCEPT ![c.body].status = "COMPLETED"]
  /\ copies' = Moved(c, "done")
  /\ UNCHANGED <<load, sent, netVars, table, eventVars, failed, lossVars, budget>>

Complete(c) ==
  /\ c \in copies /\ c.at = "linked"
  /\ tasks' = [tasks EXCEPT ![c.body].status = "COMPLETED"]
  /\ copies' = Moved(c, "done")
  /\ UNCHANGED <<load, sent, netVars, table, eventVars, failed, lossVars, budget>>

\* Mutated form of TaskFails: the error is kept to the worker.
TaskFailsSilently(c) ==
  /\ c \in copies /\ budget.failures > 0
  /\ budget' = [budget EXCEPT !.failures = @ - 1]
  /\ c.at \in {"processing", "saved", "linked"}
  /\ copies' = Moved(c, "done")
  /\ UNCHANGED <<load, sent, netVars, dbVars, eventVars, failed, lossVars>>

\* execute() catches an error and records it in the task, which may fail too.
TaskFails(c) ==
  /\ c \in copies /\ budget.failures > 0
  /\ budget' = [budget EXCEPT !.failures = @ - 1]
  /\ c.at \in {"processing", "saved", "linked"}
  /\ \/ tasks' = [tasks EXCEPT ![c.body].status = "ERROR"] /\ copies' = Moved(c, "done")
        /\ UNCHANGED failed
     \/ HandleRetry(c) /\ UNCHANGED tasks
  /\ UNCHANGED <<load, sent, netVars, table, eventVars, lossVars>>

-----------------------------------------------------------------------------

Work(c) ==
  \/ RetryPeriodEnds(c) \/ Acknowledge(c) \/ AcknowledgeStale(c) \/ Flush(c)
  \/ FindOrCreate(c) \/ Announce(c) \/ Initiate(c) \/ SaveResults(c) \/ Associate(c) \/ Complete(c)
  \/ \E w \in Workers : Deliver(w, c)

Progress ==
  \/ \E c \in copies : Work(c)
  \/ \E w \in Workers : Connect(w)
  \/ \E k \in Keys : EmitPrice(k)

Next ==
  \/ Progress
  \/ \E b \in load : PublishRecord(b) \/ CreateTask(b) \/ SendTask(b)
  \/ \E c \in copies : Fails(c) \/ TaskFails(c) \/ Unconfirmed(c)
  \/ \E w \in Workers : Disconnect(w) \/ Die(w)
  \/ \E k \in Keys : EmitUnacknowledged(k)

Spec == Init /\ [][Next]_vars

\* The broker delivers, connections are made again and the workers' promises
\* are kept going.
FairSpec == Spec /\ WF_vars(Progress)

-----------------------------------------------------------------------------
(* Properties. *)

InHand(s) == \E c \in copies : Subject(c.body) = s
SentOnes == {Subject(b) : b \in sent}

DeliveryStatus ==
  [k \in Keys |-> IF k \in table THEN "stored"
                  ELSE IF InHand(k) THEN "queued"
                  ELSE IF k \in SentOnes THEN "given up" ELSE "unknown"]

Delivery == INSTANCE RecordDelivery
  WITH status <- DeliveryStatus, failures <- [k \in Keys |-> failed[k]], abandoned <- abandoned \cap Keys

\* However processes die, connections are lost and handlers fail, a record
\* that was sent is stored, or has failed more often than the limit, or its
\* handler died after the stale tag of another had acknowledged it.
RecordsDelivered == Delivery!Spec

\* What GetDiscreteAggregationTask answers to the user who asked for the task.
Answer(t) == tasks[t].status

\* A task that was sent is in the hands of a worker or a queue, or its user
\* sees how it ended, or it failed too often to even begin, or its handler was
\* irreplaceable and died; and that takes two losses: first a connection, then
\* the process.  No other task is PENDING or PROCESSING for ever.
NoTaskForgotten ==
  /\ \A t \in Tasks \cap sent :
       \/ InHand(t)
       \/ Answer(t) \in {"COMPLETED", "ERROR"}
       \/ failed[t] > RetryLimit
       \/ t \in abandoned
  /\ abandoned # {} => budget.crashes <= MaxCrashes - 2

\* Who is told that a task is complete finds its results by their exchanges,
\* although they are written in three steps, perhaps by two workers at once.
CompleteTasksHaveResults ==
  \A t \in Tasks : Answer(t) = "COMPLETED" => tasks[t].linked \in 1..tasks[t].results

\* The one who is to announce a record.
Announcing(k) == \E c \in copies : c.at \in {"created", "event kept"} /\ Key[c.body] = k

\* A record is announced once, whoever else sends, stores or handles it again,
\* but for what nobody confirmed: never before it is stored, and always, in the
\* end, unless the one who stored it failed or died with the event.
AnnouncedOnce ==
  \A k \in Keys :
    LET announced == pricing[k] + emitted[k] - repeated[k]
    IN  /\ announced \in {0, 1}
        /\ announced = 1 => k \in table
        /\ k \in table \ silent => announced = 1 \/ Announcing(k)

\* What cannot go on: a message that all workers are deaf to, and what a deaf
\* worker has kept.
Stuck(c) == IF c.by = Nobody THEN \A w \in Workers : link[w] = "deaf" ELSE link[c.by] = "deaf" /\ c.at \in KeptPlaces

\* The queues run empty: every failure is retried a limited number of times,
\* and everything that was sent is handled in the end, if not all workers have
\* gone deaf with a connection that is never lost again.
EventuallyHandled == <>[]((\A c \in copies : Stuck(c)) /\ \A k \in Keys : pricing[k] = 0)

=============================================================================
