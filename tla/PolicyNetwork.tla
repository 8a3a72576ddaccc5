---------------------------- MODULE PolicyNetwork ----------------------------
(***************************************************************************)
(* The AMQP network under a policy of the control plane, from start() to   *)
(* stop(): the set-up of the channel, which amqp-connection-manager runs   *)
(* again after a reconnection, the private queue and its retry queue,      *)
(* which the broker deletes with the connection they belong to, the        *)
(* consumer with its retries, and the teardown of a policy that            *)
(* says goodbye (BaseAMQPNetwork.js, BroadcastAMQPNetwork.js,              *)
(* wrapAMQPNetwork.js, AMQPClient.js, and of ReplicaDiscoveryPolicy.js     *)
(* start, stop and handleChannelTeardown).                                 *)
(*                                                                         *)
(* One replica; its peers only publish.  A queue is named after the        *)
(* channel that asserted it: generatePrivateQueueName never gives the same *)
(* name twice.  No connection comes up again once stop() has begun.        *)
(***************************************************************************)
EXTENDS Integers, Sequences, FiniteSets

CONSTANTS
  Messages,      \* broadcasts of the peers
  Policies,      \* the policies: [prefetch : Nat, prepares : BOOLEAN]; one that prepares
                 \* cannot handle a message before initPolicy(), and says goodbye
  RetryLimit,
  MaxLosses,     \* bound on lost connections
  MaxFailures    \* bound on handlers that fail of themselves

VARIABLES
  policy,
  life,          \* "new", "starting", "started", "running", "stopping", "stopped"
  link,          \* "none", "up", "down"
  channel,       \* the channels there have been
  pending,       \* steps of the set-up still to be done on this channel
  rabbitQueueId,
  broker,        \* what exists of the present channel's: [queue, bound, retry, consumed]
  deaf,          \* the broker has closed the channel and left the connection
  place,         \* of each message: [at, count, of, address]
  closes,        \* goodbyes
  losses, failures

vars == <<policy, life, link, channel, pending, rabbitQueueId, broker, deaf, place, closes, losses, failures>>

NoQueue == 0
Nothing == [queue |-> NoQueue, bound |-> FALSE, retry |-> NoQueue, consumed |-> FALSE]

Configure == <<"queue", "bind", "retry queue", "consume">>

Init ==
  /\ policy \in Policies /\ life = "new" /\ link = "none" /\ channel = 0 /\ pending = <<>>
  /\ rabbitQueueId = NoQueue /\ broker = Nothing /\ deaf = FALSE
  /\ place = [m \in Messages |-> [at |-> "nowhere", count |-> 0, of |-> 0, address |-> NoQueue]]
  /\ closes = 0 /\ losses = 0 /\ failures = 0

-----------------------------------------------------------------------------
(* The channel. *)

Handling == {m \in Messages : place[m].at = "handling"}

\* The messages this channel delivered, not yet acknowledged.
Unacknowledged == {m \in Handling : place[m].of = channel}

\* Where a message goes when the queues it may be in are deleted.
Dropped == [m \in Messages |->
  IF place[m].at \in {"queue", "retry queue"} THEN [place[m] EXCEPT !.at = "dropped"] ELSE place[m]]

Start ==
  /\ life = "new"
  /\ life' = "starting" /\ link' = "down"
  /\ UNCHANGED <<policy, channel, pending, rabbitQueueId, broker, deaf, place, closes, losses, failures>>

\* Mutated form of Connect: the set-up is done once.
ConnectOnly ==
  /\ link = "down" /\ life # "stopping"
  /\ link' = "up" /\ channel' = channel + 1
  /\ pending' = IF channel = 0 THEN Configure ELSE <<>>
  /\ UNCHANGED <<policy, life, rabbitQueueId, broker, deaf, place, closes, losses, failures>>

\* The connection is made, or made again: a channel, and the set-up on it.
Connect ==
  /\ link = "down" /\ life # "stopping"
  /\ link' = "up" /\ channel' = channel + 1
  /\ pending' = Configure
  /\ UNCHANGED <<policy, life, rabbitQueueId, broker, deaf, place, closes, losses, failures>>

\* The connection is lost, with its queues.  A teardown under way fails, and
\* the process ends with it.
Disconnect ==
  /\ link = "up" /\ losses < MaxLosses
  /\ losses' = losses + 1
  /\ IF life = "stopping" /\ pending # <<>>
       THEN life' = "stopped" /\ link' = "none"
       ELSE link' = "down" /\ UNCHANGED life
  /\ pending' = <<>> /\ broker' = Nothing /\ deaf' = FALSE /\ place' = Dropped
  /\ UNCHANGED <<policy, channel, rabbitQueueId, closes, failures>>

Doing(step) == link = "up" /\ ~deaf /\ pending # <<>> /\ Head(pending) = step /\ pending' = Tail(pending)

\* setPrefetchCount, assertExchange, assertQueue.
AssertQueue ==
  /\ Doing("queue")
  /\ rabbitQueueId' = channel
  /\ broker' = [broker EXCEPT !.queue = channel]
  /\ UNCHANGED <<policy, life, link, channel, deaf, place, closes, losses, failures>>

BindQueue ==
  /\ Doing("bind")
  /\ broker' = [broker EXCEPT !.bound = TRUE]
  /\ UNCHANGED <<policy, life, link, channel, rabbitQueueId, deaf, place, closes, losses, failures>>

AssertAndBindRetryQueue ==
  /\ Doing("retry queue")
  /\ broker' = [broker EXCEPT !.retry = rabbitQueueId]
  /\ UNCHANGED <<policy, life, link, channel, rabbitQueueId, deaf, place, closes, losses, failures>>

\* Mutated form of SetupConsumer: only the first channel resolves the promise.
SetupFirstConsumer ==
  /\ Doing("consume")
  /\ broker' = [broker EXCEPT !.consumed = TRUE]
  /\ life' = IF life = "starting" /\ channel = 1 THEN "started" ELSE life
  /\ UNCHANGED <<policy, link, channel, rabbitQueueId, deaf, place, closes, losses, failures>>

\* With it start()'s promise is resolved; once more after a reconnection,
\* to no effect.
SetupConsumer ==
  /\ Doing("consume")
  /\ broker' = [broker EXCEPT !.consumed = TRUE]
  /\ life' = IF life = "starting" THEN "started" ELSE life
  /\ UNCHANGED <<policy, link, channel, rabbitQueueId, deaf, place, closes, losses, failures>>

\* initPolicy(), when start() goes on.
InitPolicy ==
  /\ life = "started"
  /\ life' = "running"
  /\ UNCHANGED <<policy, link, channel, pending, rabbitQueueId, broker, deaf, place, closes, losses, failures>>

\* Mutated form of Teardown: the goodbye goes first.
TeardownReversed == IF policy.prepares THEN <<"goodbye", "cancel">> ELSE <<"cancel">>

\* handleChannelTeardown() of a plain policy, and of ReplicaDiscoveryPolicy.
Teardown == IF policy.prepares THEN <<"cancel", "goodbye">> ELSE <<"cancel">>

\* stop() hands the teardown to the channel, which has none to run it on
\* while the connection is down.
Stop ==
  /\ life = "running"
  /\ life' = "stopping"
  /\ pending' = IF link = "up" /\ ~deaf THEN pending \o Teardown ELSE pending
  /\ UNCHANGED <<policy, link, channel, rabbitQueueId, broker, deaf, place, closes, losses, failures>>

CancelConsumer ==
  /\ Doing("cancel")
  /\ broker' = Nothing   \* a queue of no consumer is deleted (autoDelete)
  /\ place' = Dropped
  /\ UNCHANGED <<policy, life, link, channel, rabbitQueueId, deaf, closes, losses, failures>>

BroadcastClose ==
  /\ Doing("goodbye")
  /\ closes' = closes + 1
  /\ UNCHANGED <<policy, life, link, channel, rabbitQueueId, broker, deaf, place, losses, failures>>

CloseConnection ==
  /\ life = "stopping" /\ (link = "down" \/ deaf \/ pending = <<>>)
  /\ life' = "stopped" /\ link' = "none" /\ pending' = <<>> /\ broker' = Nothing /\ place' = Dropped
  /\ UNCHANGED <<policy, channel, rabbitQueueId, deaf, closes, losses, failures>>

-----------------------------------------------------------------------------
(* The consumer. *)

\* A peer broadcasts; an unbound queue gets nothing.
Publish(m) ==
  /\ place[m].at = "nowhere"
  /\ place' = [place EXCEPT ![m].at = IF broker.bound THEN "queue" ELSE "missed", ![m].count = 1]
  /\ UNCHANGED <<policy, life, link, channel, pending, rabbitQueueId, broker, deaf, closes, losses, failures>>

\* The broker delivers as many unacknowledged messages as the prefetch
\* count allows, 0 for any number.
MayDeliver == policy.prefetch = 0 \/ Cardinality(Unacknowledged) < policy.prefetch

Deliver(m) ==
  /\ place[m].at = "queue" /\ broker.consumed /\ MayDeliver
  /\ place' = [place EXCEPT ![m].at = "handling", ![m].of = channel]
  /\ UNCHANGED <<policy, life, link, channel, pending, rabbitQueueId, broker, deaf, closes, losses, failures>>

\* ack() of m on the channel of now.  The delivery of an earlier channel is
\* either unknown to this one, and the broker closes the channel, or has the
\* number of another, which counts as acknowledged from then on.
Acknowledged(m, moved) ==
  \/ /\ link # "up" \/ deaf \/ place[m].of = channel
     /\ place' = moved
     /\ UNCHANGED <<broker, deaf, pending>>
  \/ /\ link = "up" /\ ~deaf /\ place[m].of # channel
     /\ \/ /\ place' = [n \in Messages |->
                 IF moved[n].at \in {"queue", "retry queue"} THEN [moved[n] EXCEPT !.at = "dropped"] ELSE moved[n]]
           /\ broker' = Nothing /\ deaf' = TRUE /\ pending' = <<>>
        \/ \E other \in Unacknowledged \ {m} :
             /\ place' = [moved EXCEPT ![other].of = 0]
             /\ UNCHANGED <<broker, deaf, pending>>

\* Before initPolicy() there is no state and no buffer to handle it with.
MayHandle == policy.prepares => life \in {"running", "stopping", "stopped"}

\* process() succeeds.
Process(m) ==
  /\ place[m].at = "handling" /\ MayHandle
  /\ Acknowledged(m, [place EXCEPT ![m].at = "handled"])
  /\ UNCHANGED <<policy, life, link, channel, rabbitQueueId, closes, losses, failures>>

\* Published to the retry queue of the address of the moment, or, while there
\* is no channel, kept for the next.
Retried(m) ==
  [place[m] EXCEPT
     !.count = @ + 1, !.address = rabbitQueueId,
     !.at = CASE link # "up" \/ deaf \/ pending # <<>> -> "outbox"
              [] broker.retry = rabbitQueueId -> "retry queue"
              [] OTHER -> "dropped"]

\* Mutated form of HandleRetry: the limit is one less.
HandleRetryShort(m) ==
  Acknowledged(m, [place EXCEPT ![m] =
    IF place[m].count < RetryLimit THEN Retried(m) ELSE [place[m] EXCEPT !.at = "discarded"]])

HandleRetry(m) ==
  Acknowledged(m, [place EXCEPT ![m] =
    IF place[m].count <= RetryLimit THEN Retried(m) ELSE [place[m] EXCEPT !.at = "discarded"]])

\* process() throws: of itself, or for want of initPolicy().
ProcessFails(m) ==
  /\ place[m].at = "handling"
  /\ IF MayHandle
       THEN failures < MaxFailures /\ failures' = failures + 1
       ELSE UNCHANGED failures
  /\ HandleRetry(m)
  /\ UNCHANGED <<policy, life, link, channel, rabbitQueueId, closes, losses>>

\* What was kept is published; to a queue that is gone it is lost.
Flush(m) ==
  /\ place[m].at = "outbox" /\ link = "up" /\ ~deaf /\ pending = <<>>
  /\ place' = [place EXCEPT ![m].at = IF broker.retry = place[m].address THEN "retry queue" ELSE "dropped"]
  /\ UNCHANGED <<policy, life, link, channel, pending, rabbitQueueId, broker, deaf, closes, losses, failures>>

\* After retryPeriodMs the retry queue gives the message back.
RetryPeriodEnds(m) ==
  /\ place[m].at = "retry queue"
  /\ place' = [place EXCEPT ![m].at = "queue"]
  /\ UNCHANGED <<policy, life, link, channel, pending, rabbitQueueId, broker, deaf, closes, losses, failures>>

\* The client reconnects, the broker answers, and promises are kept going.
Progress ==
  \/ Connect \/ AssertQueue \/ BindQueue \/ AssertAndBindRetryQueue \/ SetupConsumer \/ InitPolicy

Next ==
  \/ Progress \/ Start \/ Disconnect
  \/ Stop \/ CancelConsumer \/ BroadcastClose \/ CloseConnection
  \/ \E m \in Messages :
       Publish(m) \/ Deliver(m) \/ Process(m) \/ ProcessFails(m) \/ Flush(m) \/ RetryPeriodEnds(m)

Spec == Init /\ [][Next]_vars

-----------------------------------------------------------------------------

\* A message that reached the queue is handled, or given up after one try and
\* RetryLimit retries, whether the handlers fail of themselves or because
\* start() has not come to initPolicy() (ReplicaDiscoveryPolicy.start lets
\* the consumer begin first).  It is dropped only with a connection that was
\* lost or closed.
NothingVanishes ==
  \A m \in Messages :
    /\ place[m].at = "discarded" => place[m].count = RetryLimit + 1
    /\ place[m].at = "dropped" => losses > 0 \/ life \in {"stopping", "stopped"}

\* BackoffPolicy handles one message at a time (PREFETCH_COUNT 1), as long as
\* no connection is lost: a multiplier is compared with the one that the
\* reload before it has set.
OneAtATime == policy.prefetch = 1 /\ losses = 0 => Cardinality(Handling) <= 1

\* So every message of a policy is handled, each with its retries, and those
\* of BackoffPolicy one after the other.
MessagesHandled == NothingVanishes /\ OneAtATime

\* A policy that runs on a connection that stands consumes from the queue it
\* gives as its address and retries through that queue's retry queue, or is
\* being set up for it; except after a handler that outlived a lost
\* connection made the broker close the channel.
NeverDeaf ==
  life = "running" /\ link = "up" =>
    \/ pending # <<>>
    \/ broker.consumed /\ broker.queue = rabbitQueueId /\ broker.retry = rabbitQueueId
    \/ deaf /\ losses > 0

\* Whenever connections are lost, also in the middle of start(), a policy
\* that was started comes to run and to consume; but for the same exception.
EventuallyConsuming ==
  <>[](life \notin {"starting", "started"} /\ (life = "running" => broker.consumed \/ deaf))

\* The goodbye is the last word: it is said at most once, and after it no
\* message is taken up, which would be answered with the place the peers
\* have just given away (handleChannelTeardown cancels the consumer first).
GoodbyeIsLast ==
  [][/\ closes' <= 1
     /\ closes = 1 => \A m \in Messages : place'[m].at = "handling" => place[m].at = "handling"]_vars

=============================================================================
