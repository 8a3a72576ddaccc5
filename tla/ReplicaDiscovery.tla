-------------------------- MODULE ReplicaDiscovery --------------------------
(***************************************************************************)
(* How the replicas of the collectors find each other and split the rate   *)
(* limit: ReplicaDiscoveryPolicy.js with its message buffers and its phase *)
(* lock, BackoffPolicy.js, the lifecycle of MarketsAMQPManager.js and the  *)
(* part of MarketsManager.js they drive (start, reloadActive).             *)
(*                                                                         *)
(* A replica takes its phase lock and broadcasts HELLO; everybody answers  *)
(* it with STATUS; when the answers have stopped for statusDebounceDelay   *)
(* it starts its schedulers if it has not, broadcasts what it learnt as a  *)
(* SHARE and frees the lock.  Shares, and the CLOSE of a leaving replica,  *)
(* are debounced too and applied under the lock by reloading the           *)
(* schedulers.  A collector hitting the exchange's rate limit makes every  *)
(* replica back off: reload with a higher multiplier, then a new round.    *)
(*                                                                         *)
(* Time passes in Ticks.  A timer that is due fires before the next one,   *)
(* and so is a message delivered unless its type may be late.              *)
(***************************************************************************)
EXTENDS ReplicaState

CONSTANTS
  InitDelay, StatusDelay, ShareDelay, CloseDelay, PhaseDelay,  \* in ticks
  Founders,       \* replicas launched together at the beginning
  SlowStart,      \* may marketsManager.start outlast the present tick?
  Stoppers,       \* replicas that may be asked to terminate
  Crashers,       \* replicas that may die without a word
  MaxMultiplier,  \* bound: rate limit multipliers
  MaxRounds,      \* bound: periodic rounds, all replicas together
  Trials          \* what may go wrong: "late", the types of message that may be
                  \* delayed for any time, together with "failures", a bound of
                  \* the rate limit failures, all replicas together

\* system.config-schema.json demands these of the delays.
ASSUME DelaysAssumption ==
  /\ {InitDelay, StatusDelay, ShareDelay, CloseDelay, PhaseDelay} \subseteq Nat \ {0}
  /\ InitDelay > StatusDelay
  /\ CloseDelay > ShareDelay
  /\ PhaseDelay > InitDelay + StatusDelay + ShareDelay + CloseDelay

ASSUME SlowStartAssumption == SlowStart \in BOOLEAN

ASSUME BoundsAssumption ==
  /\ MaxMultiplier \in Nat \ {0} /\ MaxRounds \in Nat
  /\ Trials \subseteq [late : SUBSET {"HELLO", "STATUS", "SHARE", "CLOSE"}, failures : Nat]

VARIABLES
  life,      \* "off", "up", "failing" (shutting down after an error) or "gone"
  chan,      \* chan[d][s]: what s has sent to d's queue and is under way
  buffer,    \* the three MessageBuffers of a replica
  timer,     \* its pending timers: ticks left, Off when not pending
  phase,     \* interPhaseMutex: who was granted it, whether the code after
             \* acquire() has run, and who waits
  members,   \* the two lists the reducers have stored
  known,     \* which of them are not null
  starting,  \* states the pending marketsManager.start calls were given
  started,   \* hasStarted
  reloads,   \* pending reloadActive calls, the first holds reloadMutex
  internal,  \* dynamic config of the internal scheduler
  running,   \* dynamic config the collectors' schedulers run with, Null before
  backoff,   \* BackoffPolicy: "off", "idle", or what process() waits for
  limits,    \* BackoffPolicy's queue
  budget,    \* the trial at hand; what is left of MaxRounds and its failures
  missed     \* history: departures the others may not know of yet

vars == <<life, chan, buffer, timer, phase, members, known, starting, started, reloads,
          internal, running, backoff, limits, budget, missed>>

\* What a replica keeps of the round it is in, and of its schedulers.
roundVars == <<buffer, timer, phase, members, known, starting, started>>
schedVars == <<reloads, internal, running, backoff, limits>>
bookVars == <<budget, missed>>

Off == -1
Buffered == {"STATUS", "SHARE", "CLOSE"}
DebounceDelay(type) ==
  CASE type = "STATUS" -> StatusDelay [] type = "SHARE" -> ShareDelay [] OTHER -> CloseDelay

Up(r) == life[r] = "up"

\* BaseScheduler.SINGLE_REPLICA_CONFIG and the default multiplier.
DefaultConfig ==
  [replicaSize |-> 1, instancePosition |-> 0, rateLimitMultiplier |-> 1, clusterMembers |-> Null]

NoTimers == [t \in Buffered \cup {"GREET", "PHASE"} |-> Off]
FreePhase == [held |-> "none", entered |-> FALSE, queue |-> <<>>]

Init ==
  /\ life = [r \in Replicas |-> IF r \in Founders THEN "up" ELSE "off"]
  /\ chan = [d \in Replicas |-> [s \in Replicas |-> <<>>]]
  /\ buffer = [r \in Replicas |-> [t \in Buffered |-> <<>>]]
  /\ timer = [r \in Replicas |-> IF r \in Founders THEN [NoTimers EXCEPT !.GREET = InitDelay]
                                                   ELSE NoTimers]
  /\ phase = [r \in Replicas |-> FreePhase] /\ members = [r \in Replicas |-> [l \in Lists |-> <<>>]]
  /\ known = [r \in Replicas |-> {}] /\ starting = [r \in Replicas |-> <<>>]
  /\ started = [r \in Replicas |-> FALSE] /\ reloads = [r \in Replicas |-> <<>>]
  /\ internal = [r \in Replicas |-> DefaultConfig] /\ running = [r \in Replicas |-> Null]
  /\ backoff = [r \in Replicas |-> "off"] /\ limits = [r \in Replicas |-> <<>>]
  /\ \E t \in Trials : budget = [rounds |-> MaxRounds, failures |-> t.failures, late |-> t.late]
  /\ missed = {}

-----------------------------------------------------------------------------
(* The network: private queues exist while their replica is up.             *)

\* The fanout exchange copies msg to every bound queue, the sender's too.
Broadcast(s, msg) ==
  [d \in Replicas |-> IF Up(d) THEN [chan[d] EXCEPT ![s] = Append(@, msg)] ELSE chan[d]]

\* Mutated form of Send: a replica does not answer itself.
SendToOthers(channels, s, d, msg) ==
  IF Up(d) /\ d # s THEN [channels EXCEPT ![d][s] = Append(@, msg)] ELSE channels

Send(channels, s, d, msg) ==
  IF Up(d) THEN [channels EXCEPT ![d][s] = Append(@, msg)] ELSE channels

HelloMsg(r) == [type |-> "HELLO", from |-> r]
CloseMsg(r) == [type |-> "CLOSE", from |-> r]
ShareMsg(r, state) ==
  [type |-> "SHARE", from |-> r, replicaMembers |-> state.replicaMembers,
   rateLimitMultiplier |-> state.rateLimitMultiplier, clusterMembers |-> state.clusterMembers]

-----------------------------------------------------------------------------
(* The locks.  Both are first come, first served.  A granted phase lock is  *)
(* entered in a step of its own; release() of the phase lock takes it from  *)
(* whoever holds it, and drops the timer that watched that holder.          *)

Acquired(p, who) ==
  IF p.held = "none" THEN [p EXCEPT !.held = who]
                     ELSE [p EXCEPT !.queue = Append(@, who)]

Released(p) ==
  IF p.queue = <<>> THEN FreePhase
  ELSE [held |-> Head(p.queue), entered |-> FALSE, queue |-> Tail(p.queue)]

Granted(r, who) == Up(r) /\ phase[r].held = who /\ ~phase[r].entered

\* The code after acquire() is a promise continuation: it runs before any
\* timer, message or reply is looked at.
Free(r) == Up(r) /\ (phase[r].held = "none" \/ phase[r].entered)

\* The process can continue, or an error no one catches makes it shut down.
Fail(r) == life' = [life EXCEPT ![r] = "failing"]

\* marketsManager.reloadActive(config): the first caller sets the internal
\* scheduler at once, the others when it is their turn.
CallReload(r, by, config) ==
  /\ reloads' = [reloads EXCEPT ![r] = Append(@, [by |-> by, config |-> config])]
  /\ internal' = IF reloads[r] = <<>>
                 THEN [internal EXCEPT ![r] = SetDynamicConfig(@, config)]
                 ELSE internal

-----------------------------------------------------------------------------
(* A replica's life.                                                        *)

\* start(): the private queue is bound, HELLO is due after initializationDelay.
Boot(r) ==
  /\ life[r] = "off"
  /\ life' = [life EXCEPT ![r] = "up"]
  /\ timer' = [timer EXCEPT ![r].GREET = InitDelay]
  /\ UNCHANGED <<chan, buffer, phase, members, known, starting, started, schedVars, bookVars>>

\* The queues and the memory of r are gone; messages it sent remain.
Forget(r) ==
  /\ life' = [life EXCEPT ![r] = "gone"]
  /\ buffer' = [buffer EXCEPT ![r] = [t \in Buffered |-> <<>>]]
  /\ timer' = [timer EXCEPT ![r] = NoTimers]
  /\ phase' = [phase EXCEPT ![r] = FreePhase]
  /\ members' = [members EXCEPT ![r] = [l \in Lists |-> <<>>]]
  /\ known' = [known EXCEPT ![r] = {}]
  /\ starting' = [starting EXCEPT ![r] = <<>>]
  /\ started' = [started EXCEPT ![r] = FALSE]
  /\ reloads' = [reloads EXCEPT ![r] = <<>>]
  /\ internal' = [internal EXCEPT ![r] = DefaultConfig]
  /\ running' = [running EXCEPT ![r] = Null]
  /\ backoff' = [backoff EXCEPT ![r] = "off"]
  /\ limits' = [limits EXCEPT ![r] = <<>>]
  /\ UNCHANGED budget

\* Lists of members are being gathered, sent or about to be adopted.
SharingUnderWay ==
  \E r \in Replicas :
    \/ phase[r].held \in {"HELLO", "CLUSTER", "SHARE"}
    \/ timer[r].STATUS # Off \/ timer[r].SHARE # Off
    \/ \E s \in Replicas : \E i \in DOMAIN chan[r][s] : chan[r][s][i].type = "SHARE"

\* The runner records a manager only when its start() has returned.
Recorded(r) == backoff[r] # "off"

\* Termination, on request or after an error.  The runner stops the policies
\* of the managers it has recorded: a replica that is still starting says no
\* CLOSE.
Stop(r) ==
  LET left == IF Recorded(r) THEN Broadcast(r, CloseMsg(r)) ELSE chan
  IN  /\ life[r] = "failing" \/ (Up(r) /\ r \in Stoppers)
      /\ chan' = [left EXCEPT ![r] = [s \in Replicas |-> <<>>]]
      /\ missed' = IF Recorded(r) /\ ~SharingUnderWay THEN missed ELSE missed \cup {r}
      /\ Forget(r)

Crash(r) ==
  /\ life[r] \in {"up", "failing"}
  /\ r \in Crashers
  /\ chan' = [chan EXCEPT ![r] = [s \in Replicas |-> <<>>]]
  /\ missed' = missed \cup {r}
  /\ Forget(r)

-----------------------------------------------------------------------------
(* Messages and timers.                                                     *)

\* process(): HELLO is answered with the current state, the others wait in
\* their buffer and restart its debounce timer.
Deliver(s, r) ==
  LET msg == Head(chan[r][s])
      rest == [chan EXCEPT ![r][s] = Tail(@)]
  IN  /\ Free(r)
      /\ chan[r][s] # <<>>
      /\ IF msg.type = "HELLO"
         THEN /\ chan' = Send(rest, r, s, StatusMsg(r, internal[r].rateLimitMultiplier))
              /\ UNCHANGED <<buffer, timer>>
         ELSE /\ chan' = rest
              /\ buffer' = [buffer EXCEPT ![r][msg.type] = Append(@, msg)]
              /\ timer' = [timer EXCEPT ![r][msg.type] = DebounceDelay(msg.type)]
      /\ UNCHANGED <<life, phase, members, known, starting, started, schedVars, bookVars>>

\* Mutated form of AwaitPhase: acquire() is not awaited.
AwaitNothing(r, t, who) ==
  /\ Free(r)
  /\ timer[r][t] = 0
  /\ timer' = [timer EXCEPT ![r][t] = Off]
  /\ phase' = [phase EXCEPT ![r].held = who, ![r].entered = FALSE]
  /\ UNCHANGED <<life, chan, buffer, members, known, starting, started, schedVars, bookVars>>

\* The three timers whose callbacks begin with interPhaseMutex.acquire().
AwaitPhase(r, t, who) ==
  /\ Free(r)
  /\ timer[r][t] = 0
  /\ timer' = [timer EXCEPT ![r][t] = Off]
  /\ phase' = [phase EXCEPT ![r] = Acquired(@, who)]
  /\ UNCHANGED <<life, chan, buffer, members, known, starting, started, schedVars, bookVars>>

Greet(r) == AwaitPhase(r, "GREET", "HELLO")
ShareDue(r) == AwaitPhase(r, "SHARE", "SHARE")
CloseDue(r) == AwaitPhase(r, "CLOSE", "CLOSE")

\* scheduleResyncTask: set up once start() has returned.
Resync(r) ==
  /\ Free(r) /\ started[r] /\ budget.rounds > 0
  /\ budget' = [budget EXCEPT !.rounds = @ - 1] /\ UNCHANGED missed
  /\ phase' = [phase EXCEPT ![r] = Acquired(@, "HELLO")]
  /\ UNCHANGED <<life, chan, buffer, timer, members, known, starting, started, schedVars>>

\* The phase timer: the lock is released and the error reaches the process.
PhaseTimeout(r) ==
  /\ Free(r)
  /\ timer[r].PHASE = 0
  /\ timer' = [timer EXCEPT ![r].PHASE = Off]
  /\ phase' = [phase EXCEPT ![r] = Released(@)]
  /\ Fail(r)
  /\ UNCHANGED <<chan, buffer, members, known, starting, started, schedVars, bookVars>>

-----------------------------------------------------------------------------
(* A discovery round.                                                       *)

\* Mutated form of SayHello: no timer watches the round.
SayHelloUntimed(r, who) ==
  /\ Granted(r, who)
  /\ chan' = Broadcast(r, HelloMsg(r))
  /\ phase' = [phase EXCEPT ![r].entered = TRUE]
  /\ missed' = missed \ Peers(r)
  /\ backoff' = IF who = "CLUSTER" THEN [backoff EXCEPT ![r] = "idle"] ELSE backoff
  /\ UNCHANGED <<life, buffer, timer, members, known, starting, started, reloads, internal,
                 running, limits, budget>>

\* broadcastHello() after its await.  The lock stays held until the answers
\* are in.  "CLUSTER" is the round a backoff asks for: BackoffPolicy.process
\* returns here.
SayHello(r, who) ==
  /\ Granted(r, who)
  /\ chan' = Broadcast(r, HelloMsg(r))
  /\ phase' = [phase EXCEPT ![r].entered = TRUE]
  /\ timer' = [timer EXCEPT ![r].PHASE = PhaseDelay]
  /\ missed' = missed \ Peers(r)
  /\ backoff' = IF who = "CLUSTER" THEN [backoff EXCEPT ![r] = "idle"] ELSE backoff
  /\ UNCHANGED <<life, buffer, members, known, starting, started, reloads, internal, running,
                 limits, budget>>

\* Mutated form of ShareAndRelease: the lock is not given back.
ShareOnly(r, state, timers) ==
  /\ chan' = Broadcast(r, ShareMsg(r, state))
  /\ timer' = timers
  /\ UNCHANGED phase

\* broadcastShare(): the end of the round.  The release takes the lock from
\* whoever holds it.
ShareAndRelease(r, state, timers) ==
  /\ chan' = Broadcast(r, ShareMsg(r, state))
  /\ timer' = [timers EXCEPT ![r].PHASE = Off]
  /\ phase' = [phase EXCEPT ![r] = Released(@)]

\* Mutated form of Store: only a list that is there is stored.
StoreKnown(r, state) ==
  /\ members' = [members EXCEPT ![r] = [l \in Lists |-> IF l \in known[r] THEN state[l] ELSE @[l]]]
  /\ UNCHANGED known

\* The first lists a replica aggregates are the ones it has.
Store(r, state) ==
  /\ members' = [members EXCEPT ![r] = [l \in Lists |-> IF l \in known[r] THEN @[l] ELSE state[l]]]
  /\ known' = [known EXCEPT ![r] = Lists]

\* handleStatusMessage(): the state of the round is aggregated; a replica
\* that has not started starts its markets first.
StatusDue(r) ==
  LET timers == [timer EXCEPT ![r].STATUS = Off]
  IN  /\ Free(r)
      /\ timer[r].STATUS = 0
      /\ buffer' = [buffer EXCEPT ![r].STATUS = <<>>]
      /\ \E state \in {AggregateState(r, buffer[r].STATUS)} :
           /\ Store(r, state)
           /\ IF started[r]
              THEN /\ ShareAndRelease(r, state, timers)
                   /\ UNCHANGED <<starting, internal>>
              ELSE /\ starting' = [starting EXCEPT ![r] = Append(@, state)]
                   /\ internal' = IF starting[r] = <<>>
                                  THEN [internal EXCEPT ![r] = SetDynamicConfig(@, NormalizeState(r, state))]
                                  ELSE internal
                   /\ timer' = timers
                   /\ UNCHANGED <<chan, phase>>
      /\ UNCHANGED <<life, started, reloads, running, backoff, limits, bookVars>>

\* marketsManager.start has returned: the schedulers run; the share follows.
MarketsStarted(r) ==
  LET state == Head(starting[r])
      rest == Tail(starting[r])
  IN  /\ Free(r)
      /\ starting[r] # <<>>
      /\ starting' = [starting EXCEPT ![r] = rest]
      /\ started' = [started EXCEPT ![r] = TRUE]
      /\ running' = [running EXCEPT ![r] = SetDynamicConfig(internal[r], NormalizeState(r, state))]
      /\ internal' = IF rest = <<>> THEN internal
                     ELSE [internal EXCEPT ![r] = SetDynamicConfig(@, NormalizeState(r, Head(rest)))]
      /\ ShareAndRelease(r, state, timer)
      /\ UNCHANGED <<life, buffer, members, known, reloads, backoff, limits, bookVars>>

\* handleShareMessage() after its await: adopt what the shares agree to, if
\* it is news.  A higher multiplier in shares that leave r out is adopted up
\* to normalizeState, which throws.
HandleShare(r) ==
  /\ Granted(r, "SHARE")
  /\ \E state \in {ShareState(r, buffer[r].SHARE, internal[r].rateLimitMultiplier)} :
       LET reload == ShouldReload(state, members[r])
       IN  /\ members' = IF reload THEN [members EXCEPT ![r] = UpdateState(@, state)] ELSE members
           /\ known' = IF reload THEN [known EXCEPT ![r] = @ \cup Given(state)] ELSE known
           /\ IF reload /\ Normalizable(state)
              THEN /\ CallReload(r, "SHARE", NormalizeState(r, state))
                   /\ phase' = [phase EXCEPT ![r].entered = TRUE]
              ELSE /\ phase' = [phase EXCEPT ![r] = Released(@)]
                   /\ UNCHANGED <<reloads, internal>>
           /\ IF reload /\ ~Normalizable(state) THEN Fail(r) ELSE UNCHANGED life
  /\ buffer' = [buffer EXCEPT ![r].SHARE = <<>>]
  /\ UNCHANGED <<chan, timer, starting, started, running, backoff, limits, bookVars>>

\* handleCloseMessage() after its await: the leavers are dropped and the
\* schedulers reloaded in any case.  Without lists to drop them from, it throws.
HandleClose(r) ==
  LET left == RemoveClosed(r, buffer[r].CLOSE, members[r])
  IN  /\ Granted(r, "CLOSE")
      /\ buffer' = [buffer EXCEPT ![r].CLOSE = <<>>]
      /\ IF known[r] = Lists
         THEN /\ members' = [members EXCEPT ![r] = left]
              /\ CallReload(r, "CLOSE", NormalizeState(r, CloseState(left)))
              /\ phase' = [phase EXCEPT ![r].entered = TRUE]
              /\ UNCHANGED life
         ELSE /\ phase' = [phase EXCEPT ![r] = Released(@)]
              /\ Fail(r)
              /\ UNCHANGED <<members, reloads, internal>>
      /\ UNCHANGED <<chan, timer, known, starting, started, running, backoff, limits, bookVars>>

\* reloadMutex goes to the next caller, which sets the internal scheduler.
NextReload(r, rest) ==
  internal' = IF rest = <<>> THEN internal
              ELSE [internal EXCEPT ![r] = SetDynamicConfig(@, Head(rest).config)]

\* Mutated form of Reloaded: the handlers keep the phase lock.
ReloadedHolding(r) ==
  LET done == Head(reloads[r])
      rest == Tail(reloads[r])
  IN  /\ Free(r)
      /\ reloads[r] # <<>>
      /\ reloads' = [reloads EXCEPT ![r] = rest]
      /\ NextReload(r, rest)
      /\ running' = IF running[r] = Null THEN running
                    ELSE [running EXCEPT ![r] = SetDynamicConfig(@, done.config)]
      /\ IF done.by = "BACKOFF"
         THEN /\ phase' = [phase EXCEPT ![r] = Acquired(@, "CLUSTER")]
              /\ backoff' = [backoff EXCEPT ![r] = "hello"]
         ELSE UNCHANGED <<phase, backoff>>
      /\ UNCHANGED <<life, chan, buffer, timer, members, known, starting, started, limits, bookVars>>

\* reloadActive() returns: the schedulers run with the new config, the next
\* caller gets reloadMutex, and the caller goes on: a handler frees the phase
\* lock, a backoff asks for a round.
Reloaded(r) ==
  LET done == Head(reloads[r])
      rest == Tail(reloads[r])
  IN  /\ Free(r)
      /\ reloads[r] # <<>>
      /\ reloads' = [reloads EXCEPT ![r] = rest]
      /\ NextReload(r, rest)
      /\ running' = IF running[r] = Null THEN running
                    ELSE [running EXCEPT ![r] = SetDynamicConfig(@, done.config)]
      /\ IF done.by = "BACKOFF"
         THEN /\ phase' = [phase EXCEPT ![r] = Acquired(@, "CLUSTER")]
              /\ backoff' = [backoff EXCEPT ![r] = "hello"]
              /\ UNCHANGED timer
         ELSE /\ phase' = [phase EXCEPT ![r] = Released(@)]
              /\ timer' = [timer EXCEPT ![r].PHASE = Off]
              /\ UNCHANGED backoff
      /\ UNCHANGED <<life, chan, buffer, members, known, starting, started, limits, bookVars>>

-----------------------------------------------------------------------------
(* Backing off.                                                             *)

\* The last policy to start; the manager's start() returns with it.
BackoffStart(r) ==
  /\ Free(r) /\ started[r] /\ backoff[r] = "off"
  /\ backoff' = [backoff EXCEPT ![r] = "idle"]
  /\ UNCHANGED <<life, chan, roundVars, reloads, internal, running, limits, bookVars>>

\* A collector exceeds the exchange's limit: the multiplier above the one its
\* scheduler ran with is broadcast to the backoff queues.  Before BackoffPolicy
\* has a channel the broadcast is rejected, which nobody catches.
RateLimitExceeded(r) ==
  LET multiplier == running[r].rateLimitMultiplier + 1
  IN  /\ Free(r) /\ running[r] # Null
      /\ budget.failures > 0 /\ multiplier <= MaxMultiplier
      /\ budget' = [budget EXCEPT !.failures = @ - 1] /\ UNCHANGED missed
      /\ IF backoff[r] = "off"
         THEN Fail(r) /\ UNCHANGED limits
         ELSE /\ limits' = [d \in Replicas |->
                              IF Up(d) /\ backoff[d] # "off" THEN Append(limits[d], multiplier)
                                                            ELSE limits[d]]
              /\ UNCHANGED life
      /\ UNCHANGED <<chan, roundVars, reloads, internal, running, backoff>>

\* BackoffPolicy.process(), one message at a time (PREFETCH_COUNT 1).
HandleRateLimit(r) ==
  LET multiplier == Head(limits[r])
  IN  /\ Free(r) /\ backoff[r] = "idle" /\ limits[r] # <<>>
      /\ limits' = [limits EXCEPT ![r] = Tail(@)]
      /\ IF multiplier > internal[r].rateLimitMultiplier
         THEN /\ CallReload(r, "BACKOFF",
                   [replicaSize |-> Null, instancePosition |-> Null,
                    rateLimitMultiplier |-> multiplier, clusterMembers |-> Null])
              /\ backoff' = [backoff EXCEPT ![r] = "reload"]
         ELSE UNCHANGED <<reloads, internal, backoff>>
      /\ UNCHANGED <<life, chan, roundVars, running, bookVars>>

-----------------------------------------------------------------------------
(* Time.                                                                    *)

Pending == {r \in Replicas : Up(r) /\ \E t \in DOMAIN timer[r] : timer[r][t] > 0}

\* Nothing that takes no time is left to do: every due timer has fired, every
\* continuation has run, and only late messages are under way.  A start of the
\* markets takes less than the phase delay leaves after the status delay.
Tick ==
  /\ Pending # {}
  /\ \A r \in Replicas : Up(r) =>
       /\ Free(r)
       /\ \A t \in DOMAIN timer[r] : timer[r][t] # 0
       /\ \A s \in Replicas : chan[r][s] # <<>> => Head(chan[r][s]).type \in budget.late
       /\ starting[r] # <<>> => SlowStart /\ timer[r].PHASE # 1
  /\ timer' = [r \in Replicas |->
       [t \in DOMAIN timer[r] |-> IF timer[r][t] > 0 THEN timer[r][t] - 1 ELSE timer[r][t]]]
  /\ UNCHANGED <<life, chan, buffer, phase, members, known, starting, started, schedVars, bookVars>>

Lifecycle(r) == Boot(r) \/ Stop(r) \/ Crash(r) \/ Resync(r) \/ RateLimitExceeded(r)

Progress(r) ==
  \/ Greet(r) \/ ShareDue(r) \/ CloseDue(r) \/ StatusDue(r) \/ PhaseTimeout(r)
  \/ SayHello(r, "HELLO") \/ SayHello(r, "CLUSTER") \/ HandleShare(r) \/ HandleClose(r)
  \/ MarketsStarted(r) \/ Reloaded(r) \/ BackoffStart(r) \/ HandleRateLimit(r)
  \/ \E s \in Replicas : Deliver(s, r)

Next == (\E r \in Replicas : Lifecycle(r) \/ Progress(r)) \/ Tick

Spec == Init /\ [][Next]_vars

\* What the runtime and the broker do by themselves: time passes, timers and
\* continuations run, messages are delivered, calls return and a shutdown that
\* an error began is finished.  While any of it can be done, something is.
SystemStep == Tick \/ \E r \in Replicas : Progress(r) \/ (life[r] = "failing" /\ Stop(r))

Fairness == WF_vars(SystemStep)

FairSpec == Spec /\ Fairness

-----------------------------------------------------------------------------
(* Properties. *)

Identities == {Identity[r] : r \in Replicas}
Multipliers == 1..MaxMultiplier
\* What is kept and sent, where M are the multipliers.
Entry(M) == [address : Replicas, interval : M]
StateOf(M) == [replicaMembers : Seq(Replicas), rateLimitMultiplier : M, clusterMembers : Seq(Entry(M))]
Post(M) ==
  [type : {"HELLO", "CLOSE"}, from : Replicas]
    \cup [type : {"STATUS"}, from : Replicas, rateLimitMultiplier : M, interval : M]
    \cup [type : {"SHARE"}, from : Replicas, replicaMembers : Seq(Replicas),
          rateLimitMultiplier : M, clusterMembers : Seq(Entry(M))]
Member == Entry(Multipliers)
State == StateOf(Multipliers)
Message == Post(Multipliers)
ListsType == [replicaMembers : Seq(Replicas), clusterMembers : Seq(Member)]
\* What schedulers run with and are told, where W are the tables of intervals.
Config(W) == [replicaSize : Nat, instancePosition : Nat \cup {-1},
              rateLimitMultiplier : Multipliers, clusterMembers : W \cup {Null}]
NewConfig(W) == [replicaSize : Nat \cup {Null}, instancePosition : Nat \cup {-1, Null},
                 rateLimitMultiplier : Multipliers \cup {Null}, clusterMembers : W \cup {Null}]
Call(W) == [by : {"SHARE", "CLOSE", "BACKOFF"}, config : NewConfig(W)]
Round == {"HELLO", "CLUSTER"}
Holders == Round \cup {"SHARE", "CLOSE"}
LockType == [held : Holders \cup {"none"}, entered : BOOLEAN, queue : Seq(Holders)]
Timers == Buffered \cup {"GREET", "PHASE"}
IsSeq(s) == s \in Seq({s[i] : i \in DOMAIN s})

TypedMail ==
  /\ chan \in [Replicas -> [Replicas -> Seq(Message)]]
  /\ buffer \in [Replicas -> [Buffered -> Seq(Message)]]
  /\ \A r \in Replicas : \A t \in Buffered : \A i \in DOMAIN buffer[r][t] : buffer[r][t][i].type = t
TypedTimers == timer \in [Replicas -> [Timers -> Off..PhaseDelay]]
TypedLists == members \in [Replicas -> ListsType]
\* A late round can count a replica twice: nothing bounds the intervals.
TypedConfigs ==
  /\ starting \in [Replicas -> Seq(State)] /\ {DOMAIN internal, DOMAIN running, DOMAIN reloads} = {Replicas}
  /\ \A r \in Replicas :
       /\ \E ids \in SUBSET Identities : internal[r] \in Config([ids -> Nat])
       /\ \E ids \in SUBSET Identities : running[r] \in Config([ids -> Nat]) \cup {Null}
       /\ IsSeq(reloads[r]) /\ \A i \in DOMAIN reloads[r] :
            \E ids \in SUBSET Identities : reloads[r][i] \in Call([ids -> Nat])
TypedBackoff == /\ backoff \in [Replicas -> {"off", "idle", "reload", "hello"}]
                /\ limits \in [Replicas -> Seq(Multipliers)]
TypedLife ==
  /\ life \in [Replicas -> {"off", "up", "failing", "gone"}] /\ missed \subseteq Replicas
  /\ budget \in [rounds : 0..MaxRounds, failures : Nat, late : SUBSET {"HELLO", "STATUS", "SHARE", "CLOSE"}]

TypeOK ==
  /\ TypedMail /\ TypedTimers /\ TypedLists /\ TypedConfigs /\ TypedBackoff /\ TypedLife
  /\ phase \in [Replicas -> LockType] /\ known \in [Replicas -> SUBSET Lists] /\ started \in [Replicas -> BOOLEAN]

Live == {r \in Replicas : Up(r)}
LivePeers(r) == Peers(r) \cap Live

\* Nothing is going on anywhere: no message, timer, call or lock is pending.
Quiet ==
  /\ \A r \in Replicas : life[r] # "failing"
  /\ \A r \in Live :
       /\ timer[r] = NoTimers /\ phase[r] = FreePhase
       /\ reloads[r] = <<>> /\ starting[r] = <<>> /\ limits[r] = <<>>
       /\ \A s \in Replicas : chan[r][s] = <<>>

\* What discovery is for.  Whenever it has come to rest the running replicas
\* of an exchange have split its markets exactly: each of them schedules with
\* their true number and with a slot nobody else has, however their rounds,
\* shares, joins and departures were interleaved.  The only departures that
\* may go unnoticed, until a peer's next round, are those in "missed":
\* without a CLOSE, or while lists of members were being shared, which can
\* bring back a replica that has said CLOSE.
SlotsSplit ==
  Quiet => \A r \in Live : missed \cap Peers(r) = {} =>
    /\ running[r] # Null
    /\ running[r].replicaSize = Cardinality(LivePeers(r))
    /\ running[r].instancePosition = Cardinality({p \in LivePeers(r) : p < r})

\* At rest, with the markets split, every replica of the cluster, of whichever
\* identity, computes its windows from the intervals all the replicas really
\* run with.
ClusterExact ==
  /\ SlotsSplit
  /\ Quiet /\ missed = {} => \A r \in Live :
    running[r].clusterMembers =
      [id \in {Identity[p] : p \in Live} |->
         MapThenSumSet(LAMBDA p : running[p].rateLimitMultiplier,
                       {p \in Live : Identity[p] = id})]

\* Nobody has left, or failed.
Intact == \A p \in Replicas : life[p] \in {"off", "up"}

\* At rest the collectors' schedulers run with what the internal scheduler says,
\* although it is told at another time than they are, by reloads that queue for
\* reloadMutex on behalf of two policies.  And as long as nobody has left, all
\* replicas then run with the same rate limit multiplier: those that heard of a
\* rate limit failure and those that were still starting, which learn of it from
\* the statuses or the shares of others.  (One that leaves can take with it what
\* it alone knew, or had told only some.)
MultiplierAgrees ==
  Quiet => \A r \in Live :
    /\ running[r] = internal[r]
    /\ Intact => \A p \in Live : running[r].rateLimitMultiplier = running[p].rateLimitMultiplier

\* A reload for a SHARE or a CLOSE owns the phase lock all the way: it never
\* runs together with another of them or with the first start of the markets,
\* whose schedulers have no task to destroy yet.
LockCoversReload ==
  \A r \in Live : \A i \in DOMAIN reloads[r] :
    reloads[r][i].by # "BACKOFF" =>
      /\ phase[r].held = reloads[r][i].by /\ phase[r].entered
      /\ starting[r] = <<>>
      /\ \A j \in DOMAIN reloads[r] : reloads[r][j].by # "BACKOFF" => i = j

\* However late messages are, nobody waits for the phase lock in vain.  A lock
\* in use has somebody left to free it: the timer of a round, whose holder
\* leaves the release to answers that may never come, or the end of a reload
\* for the handler that holds it.  A free one has nobody waiting.  Yet the lock
\* is also released by code that does not hold it: the late end of another
\* round, or of a reload whose lock was taken away.
LockWillBeFreed ==
  \A r \in Replicas :
    /\ phase[r].held = "none" => phase[r].queue = <<>>
    /\ phase[r].held \in Round /\ phase[r].entered => timer[r].PHASE # Off
    /\ phase[r].held \in {"SHARE", "CLOSE"} /\ phase[r].entered =>
         \E i \in DOMAIN reloads[r] : reloads[r][i].by # "BACKOFF"

\* No replica terminates because another one joins: no round outlives the
\* phase lock, and every state that is applied is complete.
JoiningIsSafe == \A r \in Replicas : life[r] # "failing"

\* No schedulers ever run with a slot outside the replicas they count.
HasPlace ==
  \A r \in Live : running[r] # Null =>
    running[r].instancePosition \in 0..(running[r].replicaSize - 1)

\* A replica that starts its markets, or has, knows both lists, however late
\* or incomplete the answers to its HELLO were.
StartedKnowsMembers ==
  \A r \in Replicas : started[r] \/ starting[r] # <<>> => known[r] = Lists

\* A replica that has started survives the departure of any other.  (One that
\* has not may not: see OthersOperate.)
StartedSurvivesClose ==
  [][\A r \in Replicas : started[r] /\ HandleClose(r) => life'[r] = "up"]_vars

\* A running replica never goes back to a lower rate limit multiplier, be it
\* by a share that was under way while it backed off, or by a queued reload.
MultiplierNeverFalls ==
  [][\A r \in Replicas : Up(r) /\ Up(r)' =>
       internal'[r].rateLimitMultiplier >= internal[r].rateLimitMultiplier]_vars

\* No replica is terminated for a round that takes too long, be its peers gone
\* or its lock needed by others: as long as no message is late every round ends
\* before the phase lock times out.
RoundsEndInTime == \A r \in Live : timer[r].PHASE # 0

\* Discovery comes to rest: no lock, timer or call keeps the replicas waiting
\* for each other or answering each other for ever.  And every replica that
\* boots, and stays up, has started its markets in the end, although peers may
\* leave, or die without a word, in the middle of its round or of theirs.
EventuallyAtRest == <>[](Quiet /\ \A r \in Live : started[r])

\* docs/architecture/fault_tolerance.md: "if one instance fails, others can
\* continue to operate without interruption".
OthersOperate == \A r \in Replicas \ Stoppers : life[r] # "failing"

\* docs/architecture/fault_tolerance.md: replica sets allow "multiple instances
\* of a single collector to run concurrently".  An instance added to a set is
\* not terminated before it has started.
JoinersStart == \A r \in Replicas : life[r] = "failing" => started[r]

=============================================================================
