-------------------------- MODULE Multipliers_proofs --------------------------
(***************************************************************************)
(* The rate limit multiplier of the replicas, for any number of them and   *)
(* any number of rate limit failures, as long as no message is late:       *)
(*   - once raised, it never falls;                                        *)
(*   - replicas that have come to rest run with what their internal        *)
(*     schedulers say and, while nobody has left, all with one multiplier. *)
(***************************************************************************)
EXTENDS ReplicaDiscovery_proofs

-----------------------------------------------------------------------------
(* The reloads for a backoff, and the rounds that follow them.              *)

Positive == Nat \ {0}

OneBackoff(calls) ==
  \A i, j \in DOMAIN calls : calls[i].by = "BACKOFF" /\ calls[j].by = "BACKOFF" => i = j

\* The end of a backoff waits for lock p, or has been granted it.
Waits(p) == (p.held = "CLUSTER" /\ ~p.entered) \/ "CLUSTER" \in Elements(p.queue)

\* It does so once.
Once(p) ==
  /\ \A i, j \in DOMAIN p.queue : p.queue[i] = "CLUSTER" /\ p.queue[j] = "CLUSTER" => i = j
  /\ p.held = "CLUSTER" /\ ~p.entered => "CLUSTER" \notin Elements(p.queue)

\* Every reload but the one that holds reloadMutex keeps the multiplier mult of
\* the internal scheduler or raises it.
NotBelow(config, mult) == config.rateLimitMultiplier = Null \/ config.rateLimitMultiplier >= mult
Rising(calls, mult) == \A i \in DOMAIN calls : i # 1 => NotBelow(calls[i].config, mult)

LEMMA BackoffAppend ==
  ASSUME NEW calls, IsSeq(calls), OneBackoff(calls), NEW call,
         call.by # "BACKOFF" \/ ~ \E i \in DOMAIN calls : calls[i].by = "BACKOFF"
  PROVE  /\ OneBackoff(Append(calls, call))
         /\ (\E i \in DOMAIN Append(calls, call) : Append(calls, call)[i].by = "BACKOFF") =>
              call.by = "BACKOFF" \/ \E i \in DOMAIN calls : calls[i].by = "BACKOFF"
BY AppendElements DEF OneBackoff

LEMMA BackoffTail ==
  ASSUME NEW calls, IsSeq(calls), calls # <<>>, OneBackoff(calls), NEW rest, rest = Tail(calls)
  PROVE  /\ OneBackoff(rest)
         /\ (\E i \in DOMAIN rest : rest[i].by = "BACKOFF") =>
              /\ Head(calls).by # "BACKOFF"
              /\ \E i \in DOMAIN calls : calls[i].by = "BACKOFF"
<1>1. /\ Head(calls) = calls[1] /\ 1 \in DOMAIN calls
      /\ \A i \in DOMAIN rest : i \in Nat \ {0} /\ i + 1 \in DOMAIN calls /\ rest[i] = calls[i + 1]
  BY TailElements
<1>2. ASSUME NEW i \in DOMAIN rest, NEW j \in DOMAIN rest, rest[i].by = "BACKOFF", rest[j].by = "BACKOFF"
      PROVE  i = j
  <2>1. i + 1 = j + 1 /\ i \in Nat /\ j \in Nat
    BY <1>1, <1>2 DEF OneBackoff
  <2> QED BY <2>1
<1>3. ASSUME NEW i \in DOMAIN rest, rest[i].by = "BACKOFF"
      PROVE  Head(calls).by # "BACKOFF" /\ calls[i + 1].by = "BACKOFF" /\ i + 1 \in DOMAIN calls
  <2>1. i + 1 # 1 /\ i + 1 \in DOMAIN calls /\ rest[i] = calls[i + 1]
    BY <1>1
  <2> QED BY <1>1, <1>3, <2>1 DEF OneBackoff
<1>4. OneBackoff(rest)
  BY <1>2 DEF OneBackoff
<1> QED BY <1>3, <1>4

\* There are at most two reloads: one of a handler, that holds the phase lock, and
\* one for a backoff.
LEMMA TwoReloads ==
  ASSUME NEW p, NEW calls, IsSeq(calls), Covered(p, calls), OneBackoff(calls)
  PROVE  \A i \in DOMAIN calls : i \in 1..2
<1>1. PICK n \in Nat : DOMAIN calls = 1..n
  BY DEF IsSeq
<1>2. SUFFICES ASSUME n > 2 PROVE FALSE
  BY <1>1
<1>3. 1 \in DOMAIN calls /\ 2 \in DOMAIN calls /\ 3 \in DOMAIN calls
  BY <1>1, <1>2
<1>4. /\ calls[1].by = "BACKOFF" /\ calls[2].by = "BACKOFF" => 1 = 2
      /\ calls[1].by = "BACKOFF" /\ calls[3].by = "BACKOFF" => 1 = 3
      /\ calls[2].by = "BACKOFF" /\ calls[3].by = "BACKOFF" => 2 = 3
  BY <1>3 DEF OneBackoff
<1>5. /\ calls[1].by # "BACKOFF" /\ calls[2].by # "BACKOFF" => 1 = 2
      /\ calls[1].by # "BACKOFF" /\ calls[3].by # "BACKOFF" => 1 = 3
      /\ calls[2].by # "BACKOFF" /\ calls[3].by # "BACKOFF" => 2 = 3
  BY <1>3 DEF Covered
<1> QED BY <1>4, <1>5

LEMMA LoneReload ==
  ASSUME NEW calls, IsSeq(calls), calls # <<>>, \A i \in DOMAIN calls : i \in 1..2
  PROVE  /\ \A i \in DOMAIN Tail(calls) : i = 1
         /\ Tail(calls) # <<>> => 2 \in DOMAIN calls /\ Head(Tail(calls)) = calls[2]
<1>1. \A i \in DOMAIN Tail(calls) : i \in Nat \ {0} /\ i + 1 \in DOMAIN calls /\ Tail(calls)[i] = calls[i + 1]
  BY TailElements
<1>2. \A i \in DOMAIN Tail(calls) : i = 1
  BY <1>1
<1>3. ASSUME Tail(calls) # <<>> PROVE 2 \in DOMAIN calls /\ Head(Tail(calls)) = calls[2]
  <2>1. IsSeq(Tail(calls))
    BY TailElements
  <2>2. 1 \in DOMAIN Tail(calls) /\ Head(Tail(calls)) = Tail(calls)[1]
    BY <1>3, <2>1, TailElements
  <2> QED BY <1>1, <2>2
<1> QED BY <1>2, <1>3

LEMMA AcquiredOnce ==
  ASSUME NEW p \in LockType, Once(p), NEW who \in Holders \ {"CLUSTER"}, NEW q, q = Acquired(p, who)
  PROVE  Once(q) /\ (Waits(q) => Waits(p))
<1>1. IsSeq(p.queue)
  BY SeqIsSeq DEF LockType
<1>2. CASE p.held = "none"
  <2>1. q.held = who /\ q.queue = p.queue /\ q.entered = p.entered
    BY <1>2 DEF Acquired, LockType
  <2> QED BY <2>1 DEF Once, Waits
<1>3. CASE p.held # "none"
  <2>1. q.held = p.held /\ q.queue = Append(p.queue, who) /\ q.entered = p.entered
    BY <1>3 DEF Acquired, LockType
  <2>2. Elements(q.queue) = Elements(p.queue) \cup {who}
    BY <1>1, <2>1, ElementsAppend
  <2>3. ASSUME NEW i \in DOMAIN q.queue, NEW j \in DOMAIN q.queue,
               q.queue[i] = "CLUSTER", q.queue[j] = "CLUSTER"
        PROVE  i = j
    BY <1>1, <2>1, <2>3, AppendElements DEF Once
  <2> QED BY <2>1, <2>2, <2>3 DEF Once, Waits
<1> QED BY <1>2, <1>3

\* The end of a backoff begins to wait.
LEMMA AcquiredFirst ==
  ASSUME NEW p \in LockType, ~Waits(p), NEW q, q = Acquired(p, "CLUSTER")
  PROVE  Once(q)
<1>1. IsSeq(p.queue) /\ \A i \in DOMAIN p.queue : p.queue[i] # "CLUSTER"
  BY SeqIsSeq DEF LockType, Waits, Elements
<1>2. CASE p.held = "none"
  <2>1. q.queue = p.queue
    BY <1>2 DEF Acquired, LockType
  <2> QED BY <1>1, <2>1 DEF Once, Elements
<1>3. CASE p.held # "none"
  <2>1. q.held = p.held /\ q.queue = Append(p.queue, "CLUSTER") /\ q.entered = p.entered
    BY <1>3 DEF Acquired, LockType
  <2>2. ASSUME NEW i \in DOMAIN q.queue, NEW j \in DOMAIN q.queue,
               q.queue[i] = "CLUSTER", q.queue[j] = "CLUSTER"
        PROVE  i = j
    BY <1>1, <2>1, <2>2, AppendElements
  <2>3. ~(q.held = "CLUSTER" /\ ~q.entered)
    BY <2>1 DEF Waits
  <2> QED BY <2>2, <2>3 DEF Once
<1> QED BY <1>2, <1>3

LEMMA ReleasedOnce ==
  ASSUME NEW p \in LockType, Once(p), NEW q, q = Released(p)
  PROVE  Once(q) /\ (Waits(q) => Waits(p))
<1>1. CASE p.queue = <<>>
  BY <1>1, ElementsEmpty DEF Released, FreePhase, Once, Waits
<1>2. CASE p.queue # <<>>
  <2>1. q.held = Head(p.queue) /\ q.queue = Tail(p.queue) /\ ~q.entered
    BY <1>2 DEF Released
  <2>2. IsSeq(p.queue)
    BY SeqIsSeq DEF LockType
  <2>3. Elements(p.queue) = {Head(p.queue)} \cup Elements(Tail(p.queue))
    BY <1>2, <2>2, ElementsTail
  <2>4. /\ Head(p.queue) = p.queue[1] /\ 1 \in DOMAIN p.queue
        /\ \A i \in DOMAIN q.queue : i \in Nat \ {0} /\ i + 1 \in DOMAIN p.queue
                                     /\ q.queue[i] = p.queue[i + 1]
    BY <1>2, <2>1, <2>2, TailElements
  <2>5. ASSUME NEW i \in DOMAIN q.queue, NEW j \in DOMAIN q.queue,
               q.queue[i] = "CLUSTER", q.queue[j] = "CLUSTER"
        PROVE  i = j
    <3>1. i + 1 = j + 1 /\ i \in Nat /\ j \in Nat
      BY <2>4, <2>5 DEF Once
    <3> QED BY <3>1
  <2>6. ASSUME q.held = "CLUSTER" PROVE "CLUSTER" \notin Elements(q.queue)
    <3> SUFFICES ASSUME NEW i \in DOMAIN q.queue, q.queue[i] = "CLUSTER" PROVE FALSE
      BY DEF Elements
    <3>1. i + 1 = 1 /\ i \in Nat \ {0}
      BY <2>1, <2>4, <2>6 DEF Once
    <3> QED BY <3>1
  <2> QED BY <2>1, <2>3, <2>5, <2>6 DEF Once, Waits
<1> QED BY <1>1, <1>2

LEMMA EnteredOnce ==
  ASSUME NEW p \in LockType, Once(p), ~p.entered, NEW q, q = [p EXCEPT !.entered = TRUE]
  PROVE  /\ Once(q) /\ (Waits(q) => Waits(p))
         /\ p.held = "CLUSTER" => ~Waits(q)
<1>1. q.held = p.held /\ q.queue = p.queue /\ q.entered
  BY DEF LockType
<1> QED BY <1>1 DEF Once, Waits

-----------------------------------------------------------------------------
(* What a replica answers itself, and what its schedulers are still to be   *)
(* told.                                                                    *)

BackoffOK(r) ==
  /\ backoff[r] # "off" => started[r]
  /\ OneBackoff(reloads[r])
  /\ (\E i \in DOMAIN reloads[r] : reloads[r][i].by = "BACKOFF") => backoff[r] = "reload"
  /\ Once(phase[r])
  /\ Waits(phase[r]) => backoff[r] = "hello"

\* A replica that has not started has reported its present multiplier.
OwnRate(r) ==
  /\ \A m \in Elements(chan[r][r]) :
       m.type = "STATUS" => m.rateLimitMultiplier = internal[r].rateLimitMultiplier
  /\ \A m \in Elements(buffer[r].STATUS) :
       m.from = r => m.rateLimitMultiplier = internal[r].rateLimitMultiplier

RiseOK(r) ==
  /\ BackoffOK(r)
  /\ timer[r].STATUS = Off => buffer[r].STATUS = <<>>
  /\ ~started[r] => OwnRate(r)
  /\ Rising(reloads[r], internal[r].rateLimitMultiplier)

RiseInv ==
  /\ DOMAIN backoff = Replicas /\ \A r \in Replicas : life[r] \in {"off", "up"} => RiseOK(r)

UpwardInv == AllInv /\ RateInv(Positive) /\ RiseInv

\* What MultiplierNeverFalls says of a step.
NoFall ==
  \A r \in Replicas : Up(r) /\ Up(r)' =>
    internal'[r].rateLimitMultiplier >= internal[r].rateLimitMultiplier

LEMMA AllPositive == Rates(Positive)
BY DEF Rates, Positive

LEMMA OwnMultiplier ==
  ASSUME UpwardInv, NEW r \in Replicas
  PROVE  internal[r].rateLimitMultiplier \in Positive
BY DEF UpwardInv, RateInv, RatedReplica

LEMMA UpRises ==
  ASSUME UpwardInv, NEW r \in Replicas, Up(r)
  PROVE  RiseOK(r)
BY DEF UpwardInv, RiseInv, Up

\* All the parts of the state in which the steps below take place.
LEMMA Parts ==
  ASSUME UpwardInv, NEW r \in Replicas
  PROVE  /\ AllInv /\ DOMAIN backoff = Replicas /\ DOMAIN timer = Replicas /\ DOMAIN started = Replicas
         /\ phase[r] \in LockType /\ timer[r] \in [Timers -> Int] /\ IsSeq(reloads[r])
         /\ {"STATUS", "SHARE", "CLOSE", "GREET", "PHASE"} \subseteq Timers
BY Domains DEF UpwardInv, RiseInv, AllInv, IInv, LockInv, ListInv, Timers, Buffered

SameRise(x) ==
  /\ life'[x] = life[x] /\ phase'[x] = phase[x] /\ reloads'[x] = reloads[x]
  /\ internal'[x] = internal[x] /\ backoff'[x] = backoff[x] /\ started'[x] = started[x]
  /\ buffer'[x] = buffer[x] /\ chan'[x][x] = chan[x][x]
  /\ timer'[x].STATUS = Off => timer[x].STATUS = Off

LEMMA SameRisen ==
  ASSUME NEW x, RiseOK(x), SameRise(x)
  PROVE  RiseOK(x)'
BY DEF SameRise, RiseOK, BackoffOK, OwnRate

LEMMA RiseStep ==
  ASSUME UpwardInv, NEW r \in Replicas, DOMAIN backoff' = Replicas,
         \A x \in Replicas \ {r} : SameRise(x),
         life'[r] \in {"off", "up"} => RiseOK(r)',
         Up(r) /\ Up(r)' => internal'[r].rateLimitMultiplier >= internal[r].rateLimitMultiplier
  PROVE  RiseInv' /\ NoFall
<1>1. RiseInv'
  BY SameRisen DEF UpwardInv, RiseInv, SameRise
<1>2. \A x \in Replicas \ {r} : internal'[x].rateLimitMultiplier >= internal[x].rateLimitMultiplier
  BY OwnMultiplier DEF SameRise, Positive
<1> QED BY <1>1, <1>2 DEF NoFall

\* A step of r that leaves the schedulers alone.
LEMMA LevelStep ==
  ASSUME UpwardInv, NEW r \in Replicas, DOMAIN backoff' = Replicas,
         \A x \in Replicas \ {r} : SameRise(x), UNCHANGED internal,
         life'[r] \in {"off", "up"} => RiseOK(r)'
  PROVE  RiseInv' /\ NoFall
<1>1. internal'[r].rateLimitMultiplier >= internal[r].rateLimitMultiplier
  BY OwnMultiplier DEF Positive
<1> QED BY <1>1, RiseStep

\* A step that only does something with the lock, other than asking for the round
\* of a backoff, and with the other timers.
LEMMA LockRise ==
  ASSUME UpwardInv, NEW r \in Replicas,
         UNCHANGED <<chan, buffer, reloads, internal, backoff, started>>,
         life' = life \/ Fail(r) \/ (life[r] = "off" /\ life' = [life EXCEPT ![r] = "up"]),
         phase' = phase \/ \E q : phase' = [phase EXCEPT ![r] = q] /\ Once(q) /\ (Waits(q) => Waits(phase[r])),
         timer' = timer \/ \E t : timer' = [timer EXCEPT ![r] = t] /\ (t.STATUS = timer[r].STATUS)
  PROVE  RiseInv' /\ NoFall
<1>1. DOMAIN life = Replicas /\ DOMAIN phase = Replicas /\ DOMAIN timer = Replicas
  BY Parts, Domains
<1>2. \A x \in Replicas \ {r} : SameRise(x)
  BY <1>1 DEF SameRise, Fail
<1>3. DOMAIN backoff' = Replicas
  BY Parts
<1>4. ASSUME life'[r] \in {"off", "up"} PROVE RiseOK(r)'
  <2>1. life[r] \in {"off", "up"}
    BY <1>1, <1>4 DEF Fail
  <2>2. RiseOK(r)
    BY <2>1 DEF UpwardInv, RiseInv
  <2>3. Once(phase'[r]) /\ (Waits(phase'[r]) => Waits(phase[r]))
    BY <1>1, <2>2 DEF RiseOK, BackoffOK
  <2>4. timer'[r].STATUS = timer[r].STATUS
    BY <1>1
  <2> QED BY <2>2, <2>3, <2>4 DEF RiseOK, BackoffOK, OwnRate
<1> QED BY <1>2, <1>3, <1>4, LevelStep

LEMMA ForgetRise ==
  ASSUME UpwardInv, NEW r \in Replicas, Forget(r),
         NEW left, left = chan \/ left = Broadcast(r, CloseMsg(r)),
         chan' = [left EXCEPT ![r] = [s \in Replicas |-> <<>>]]
  PROVE  RiseInv' /\ NoFall
<1>1. /\ life' = [life EXCEPT ![r] = "gone"]
      /\ buffer' = [buffer EXCEPT ![r] = [t \in Buffered |-> <<>>]]
      /\ timer' = [timer EXCEPT ![r] = NoTimers]
      /\ phase' = [phase EXCEPT ![r] = FreePhase]
      /\ started' = [started EXCEPT ![r] = FALSE]
      /\ reloads' = [reloads EXCEPT ![r] = <<>>]
      /\ internal' = [internal EXCEPT ![r] = DefaultConfig]
      /\ backoff' = [backoff EXCEPT ![r] = "off"]
  BY DEF Forget
<1>2. AllInv /\ DOMAIN backoff = Replicas
  BY Parts
<1>3. life'[r] = "gone"
  BY <1>1, <1>2, Domains
<1>4. ASSUME NEW x \in Replicas \ {r} PROVE SameRise(x)
  <2>1. chan'[x][x] = left[x][x]
    <3>1. DOMAIN left = Replicas
      BY <1>2, Domains DEF Broadcast
    <3> QED BY <3>1
  <2>2. left[x][x] = chan[x][x]
    <3>1. CASE left = Broadcast(r, CloseMsg(r))
      <4>1. left[x] = IF Up(x) THEN [chan[x] EXCEPT ![r] = Append(chan[x][r], CloseMsg(r))] ELSE chan[x]
        BY <3>1 DEF Broadcast
      <4> QED BY <1>2, <4>1, Domains DEF ChanOK
    <3> QED BY <3>1
  <2> QED BY <1>1, <2>1, <2>2 DEF SameRise
<1> QED BY <1>1, <1>2, <1>3, <1>4, RiseStep DEF Up

\* Outside the rounds no answer of r to itself is under way.
LEMMA NoOwnAnswer ==
  ASSUME UpwardInv, NEW r \in Replicas, Up(r),
         ~InRound(phase[r]) \/ (timer[r].STATUS = 0 /\ buffer'[r].STATUS = <<>>),
         chan'[r][r] = chan[r][r], ~InRound(phase[r]) => buffer'[r].STATUS = buffer[r].STATUS
  PROVE  OwnRate(r)'
<1>1. OnTime(phase[r], timer[r], starting[r], Asking(r), OwnAnswer(r)) /\ RiseOK(r)
  BY RoundOfUp, UpRises, Parts DEF AllInv
<1>2. ~Asking(r)
  BY <1>1, DelaysInOrder DEF OnTime, Asked, Debouncing, StartingUp, Between, Off
<1>3. \A m \in Elements(chan[r][r]) : m.type # "STATUS"
  BY <1>2 DEF Asking, Types, Elements
<1>4. buffer'[r].STATUS = <<>>
  BY <1>1 DEF OnTime, Between, RiseOK
<1> QED BY <1>3, <1>4, ElementsEmpty DEF OwnRate

\* What is appended to the reloads, and what the internal scheduler is then told.
LEMMA CalledRise ==
  ASSUME UpwardInv, NEW r \in Replicas, Up(r), NEW by, NEW config, CallReload(r, by, config),
         config.rateLimitMultiplier = Null \/
           (config.rateLimitMultiplier \in Nat /\
            config.rateLimitMultiplier >= internal[r].rateLimitMultiplier),
         by # "BACKOFF" \/ backoff[r] = "idle"
  PROVE  /\ Rising(reloads'[r], internal'[r].rateLimitMultiplier)
         /\ internal'[r].rateLimitMultiplier >= internal[r].rateLimitMultiplier
         /\ OneBackoff(reloads'[r])
         /\ (\E i \in DOMAIN reloads'[r] : reloads'[r][i].by = "BACKOFF") =>
              by = "BACKOFF" \/ backoff[r] = "reload"
         /\ \A x \in Replicas \ {r} : reloads'[x] = reloads[x] /\ internal'[x] = internal[x]
<1>1. AllInv /\ IsSeq(reloads[r]) /\ RiseOK(r)
  BY Parts, UpRises
<1>2. InPlace(internal[r]) /\ internal[r].rateLimitMultiplier \in Positive
  BY <1>1, PlaceOfUp, OwnMultiplier DEF Settled, Scheduled
<1>3. PICK call, mult : call = [by |-> by, config |-> config] /\ mult = internal[r].rateLimitMultiplier
  OBVIOUS
<1>4. /\ reloads' = [reloads EXCEPT ![r] = Append(reloads[r], call)]
      /\ internal' = IF reloads[r] = <<>>
                     THEN [internal EXCEPT ![r] = SetDynamicConfig(internal[r], config)]
                     ELSE internal
  BY <1>3 DEF CallReload
<1>5. /\ reloads'[r] = Append(reloads[r], call)
      /\ internal'[r] = IF reloads[r] = <<>> THEN SetDynamicConfig(internal[r], config) ELSE internal[r]
      /\ \A x \in Replicas \ {r} : reloads'[x] = reloads[x] /\ internal'[x] = internal[x]
  BY <1>1, <1>4, Domains
<1>6. call.by = by /\ call.config = config
  BY <1>3
<1>7. /\ OneBackoff(reloads'[r])
      /\ (\E i \in DOMAIN reloads'[r] : reloads'[r][i].by = "BACKOFF") =>
           by = "BACKOFF" \/ backoff[r] = "reload"
  <2>1. OneBackoff(reloads[r])
    BY <1>1 DEF RiseOK, BackoffOK
  <2>2. by = "BACKOFF" => ~ \E i \in DOMAIN reloads[r] : reloads[r][i].by = "BACKOFF"
    BY <1>1 DEF RiseOK, BackoffOK
  <2> QED BY <1>1, <1>5, <1>6, <2>1, <2>2, BackoffAppend DEF RiseOK, BackoffOK
<1>8. CASE reloads[r] = <<>>
  <2>1. internal'[r].rateLimitMultiplier =
          IF config.rateLimitMultiplier = Null THEN mult ELSE config.rateLimitMultiplier
    BY <1>2, <1>3, <1>5, <1>8, RateTaken
  <2>2. \A i \in DOMAIN reloads'[r] : i = 1
    <3>1. Len(reloads[r]) = 0 /\ DOMAIN reloads[r] = {}
      BY <1>8
    <3> QED BY <1>1, <1>5, <3>1, AppendElements
  <2> QED BY <1>2, <1>3, <1>5, <1>7, <2>1, <2>2 DEF Rising, Positive
<1>9. CASE reloads[r] # <<>>
  <2>1. Rising(reloads'[r], mult)
    <3>1. \A i \in DOMAIN reloads'[r] :
             \/ i \in DOMAIN reloads[r] /\ reloads'[r][i] = reloads[r][i]
             \/ reloads'[r][i] = call
      BY <1>1, <1>5, AppendElements
    <3>2. NotBelow(call.config, mult)
      BY <1>3, <1>6 DEF NotBelow
    <3>3. Rising(reloads[r], mult)
      BY <1>1, <1>3 DEF RiseOK
    <3> QED BY <3>1, <3>2, <3>3 DEF Rising
  <2> QED BY <1>2, <1>3, <1>5, <1>7, <1>9, <2>1 DEF Positive
<1> QED BY <1>8, <1>9

\* The handlers of SHARE and CLOSE.
LEMMA HandlerRise ==
  ASSUME UpwardInv, NEW r \in Replicas, NEW by \in {"SHARE", "CLOSE"}, Granted(r, by),
         \/ /\ \E config : /\ CallReload(r, by, config)
                           /\ \/ config.rateLimitMultiplier = Null
                              \/ /\ config.rateLimitMultiplier \in Nat
                                 /\ config.rateLimitMultiplier >= internal[r].rateLimitMultiplier
            /\ phase' = [phase EXCEPT ![r].entered = TRUE]
         \/ phase' = [phase EXCEPT ![r] = Released(phase[r])] /\ UNCHANGED <<reloads, internal>>,
         buffer' = [buffer EXCEPT ![r][by] = <<>>],
         UNCHANGED <<chan, timer, started, backoff>>, life' = life \/ Fail(r)
  PROVE  RiseInv' /\ NoFall
<1>1. Up(r) /\ ~phase[r].entered /\ phase[r].held = by
  BY DEF Granted
<1>2. RiseOK(r) /\ AllInv /\ phase[r] \in LockType /\ DOMAIN backoff' = Replicas
  BY <1>1, Parts, UpRises
<1>3. buffer'[r].STATUS = buffer[r].STATUS /\ \A x \in Replicas \ {r} : buffer'[x] = buffer[x]
  <2>1. BufferMail(Gone, buffer[r]) /\ DOMAIN buffer = Replicas
    BY <1>2, Domains DEF MailInv
  <2> QED BY <2>1 DEF BufferMail
<1>4. OwnRate(r)'
  BY <1>1, <1>3, NoOwnAnswer DEF InRound
<1>5. /\ Once(phase'[r]) /\ (Waits(phase'[r]) => Waits(phase[r]))
      /\ \A x \in Replicas \ {r} : phase'[x] = phase[x]
  <2>1. DOMAIN phase = Replicas
    BY <1>2, Domains
  <2>2. CASE phase' = [phase EXCEPT ![r].entered = TRUE]
    <3>1. phase'[r] = [phase[r] EXCEPT !.entered = TRUE]
      BY <2>1, <2>2
    <3> QED BY <1>1, <1>2, <2>1, <2>2, <3>1, EnteredOnce DEF RiseOK, BackoffOK
  <2>3. CASE phase' = [phase EXCEPT ![r] = Released(phase[r])]
    <3>1. phase'[r] = Released(phase[r])
      BY <2>1, <2>3
    <3> QED BY <1>2, <2>1, <2>3, <3>1, ReleasedOnce DEF RiseOK, BackoffOK
  <2> QED BY <2>2, <2>3
<1>6. /\ Rising(reloads'[r], internal'[r].rateLimitMultiplier)
      /\ internal'[r].rateLimitMultiplier >= internal[r].rateLimitMultiplier
      /\ OneBackoff(reloads'[r])
      /\ (\E i \in DOMAIN reloads'[r] : reloads'[r][i].by = "BACKOFF") => backoff[r] = "reload"
      /\ \A x \in Replicas \ {r} : reloads'[x] = reloads[x] /\ internal'[x] = internal[x]
  <2>1. CASE UNCHANGED <<reloads, internal>>
    <3>1. internal'[r].rateLimitMultiplier >= internal[r].rateLimitMultiplier
      BY <2>1, OwnMultiplier DEF Positive
    <3> QED BY <1>2, <2>1, <3>1 DEF RiseOK, BackoffOK
  <2>2. ASSUME NEW config, CallReload(r, by, config),
               config.rateLimitMultiplier = Null \/
                 (config.rateLimitMultiplier \in Nat /\
                  config.rateLimitMultiplier >= internal[r].rateLimitMultiplier)
        PROVE  /\ Rising(reloads'[r], internal'[r].rateLimitMultiplier)
               /\ internal'[r].rateLimitMultiplier >= internal[r].rateLimitMultiplier
               /\ OneBackoff(reloads'[r])
               /\ (\E i \in DOMAIN reloads'[r] : reloads'[r][i].by = "BACKOFF") => backoff[r] = "reload"
               /\ \A x \in Replicas \ {r} : reloads'[x] = reloads[x] /\ internal'[x] = internal[x]
    <3>1. by # "BACKOFF"
      OBVIOUS
    <3> QED BY <1>1, <2>2, <3>1, CalledRise
  <2> QED BY <2>1, <2>2
<1>7. RiseOK(r)'
  BY <1>2, <1>3, <1>4, <1>5, <1>6 DEF RiseOK, BackoffOK
<1>8. \A x \in Replicas \ {r} : SameRise(x)
  BY <1>2, <1>3, <1>5, <1>6, Domains DEF SameRise, Fail
<1> QED BY <1>2, <1>6, <1>7, <1>8, RiseStep

LEMMA HandleShareRise ==
  ASSUME UpwardInv, NEW r \in Replicas, HandleShare(r)
  PROVE  RiseInv' /\ NoFall
<1>1. PICK shares, mult : shares = buffer[r].SHARE /\ mult = internal[r].rateLimitMultiplier
  OBVIOUS
<1>2. PICK state : /\ state = ShareState(r, shares, mult)
                   /\ \/ /\ CallReload(r, "SHARE", NormalizeState(r, state))
                         /\ phase' = [phase EXCEPT ![r].entered = TRUE]
                      \/ phase' = [phase EXCEPT ![r] = Released(phase[r])] /\ UNCHANGED <<reloads, internal>>
  BY <1>1 DEF HandleShare
<1>3. /\ IsSeq(shares) /\ mult \in Positive
      /\ \A m \in Elements(shares) : m.rateLimitMultiplier \in Positive
  BY <1>1, OwnMultiplier, BufferedRates DEF UpwardInv
<1>4. state.rateLimitMultiplier = Null \/
        (state.rateLimitMultiplier \in Positive /\ state.rateLimitMultiplier > mult)
  BY <1>2, <1>3, AllPositive, SharedRate
<1>5. PICK config : config = NormalizeState(r, state)
  OBVIOUS
<1>6. config.rateLimitMultiplier = state.rateLimitMultiplier
  BY <1>5 DEF NormalizeState
<1>7. config.rateLimitMultiplier = Null \/
        (config.rateLimitMultiplier \in Nat /\ config.rateLimitMultiplier >= internal[r].rateLimitMultiplier)
  BY <1>1, <1>3, <1>4, <1>6 DEF Positive
<1>8. /\ Granted(r, "SHARE") /\ buffer' = [buffer EXCEPT ![r]["SHARE"] = <<>>]
      /\ UNCHANGED <<chan, timer, started, backoff>> /\ (life' = life \/ Fail(r))
  BY DEF HandleShare
<1> QED BY <1>2, <1>5, <1>7, <1>8, HandlerRise

LEMMA HandleCloseRise ==
  ASSUME UpwardInv, NEW r \in Replicas, HandleClose(r)
  PROVE  RiseInv' /\ NoFall
<1>1. PICK left : left = RemoveClosed(r, buffer[r].CLOSE, members[r])
  OBVIOUS
<1>2. PICK config : config = NormalizeState(r, CloseState(left))
  OBVIOUS
<1>3. /\ Granted(r, "CLOSE") /\ buffer' = [buffer EXCEPT ![r]["CLOSE"] = <<>>]
      /\ \/ CallReload(r, "CLOSE", config) /\ phase' = [phase EXCEPT ![r].entered = TRUE]
         \/ phase' = [phase EXCEPT ![r] = Released(phase[r])] /\ UNCHANGED <<reloads, internal>>
      /\ UNCHANGED <<chan, timer, started, backoff>> /\ (life' = life \/ Fail(r))
  BY <1>1, <1>2 DEF HandleClose
<1>4. config.rateLimitMultiplier = Null
  BY <1>2 DEF NormalizeState, CloseState
<1> QED BY <1>3, <1>4, HandlerRise

LEMMA HandleRateLimitRise ==
  ASSUME UpwardInv, NEW r \in Replicas, HandleRateLimit(r)
  PROVE  RiseInv' /\ NoFall
<1>1. PICK multiplier, config :
        /\ multiplier = Head(limits[r])
        /\ config = [replicaSize |-> Null, instancePosition |-> Null,
                     rateLimitMultiplier |-> multiplier, clusterMembers |-> Null]
  OBVIOUS
<1>2. /\ Up(r) /\ backoff[r] = "idle" /\ limits[r] # <<>>
      /\ \/ /\ multiplier > internal[r].rateLimitMultiplier
            /\ CallReload(r, "BACKOFF", config)
            /\ backoff' = [backoff EXCEPT ![r] = "reload"]
         \/ UNCHANGED <<reloads, internal, backoff>>
      /\ UNCHANGED <<life, chan, buffer, timer, phase, started>>
  BY <1>1 DEF HandleRateLimit, Free, roundVars
<1>3. RiseOK(r) /\ AllInv /\ DOMAIN backoff = Replicas
  BY <1>2, Parts, UpRises
<1>4. CASE UNCHANGED <<reloads, internal, backoff>>
  <2>1. RiseOK(r)' /\ \A x \in Replicas \ {r} : SameRise(x)
    BY <1>2, <1>3, <1>4 DEF RiseOK, BackoffOK, OwnRate, SameRise
  <2> QED BY <1>3, <1>4, <2>1, LevelStep
<1>5. CASE /\ multiplier > internal[r].rateLimitMultiplier
           /\ CallReload(r, "BACKOFF", config)
           /\ backoff' = [backoff EXCEPT ![r] = "reload"]
  <2>1. multiplier \in Positive /\ internal[r].rateLimitMultiplier \in Positive
    <3>1. IsSeq(limits[r]) /\ Elements(limits[r]) \subseteq Positive
      BY DEF UpwardInv, RateInv, RatedReplica
    <3>2. Elements(limits[r]) = {multiplier} \cup Elements(Tail(limits[r]))
      BY <1>1, <1>2, <3>1, ElementsTail
    <3> QED BY <3>1, <3>2, OwnMultiplier
  <2>2. config.rateLimitMultiplier = multiplier
    BY <1>1
  <2>3. config.rateLimitMultiplier \in Nat /\ config.rateLimitMultiplier >= internal[r].rateLimitMultiplier
    BY <1>5, <2>1, <2>2 DEF Positive
  <2>4. /\ Rising(reloads'[r], internal'[r].rateLimitMultiplier)
        /\ internal'[r].rateLimitMultiplier >= internal[r].rateLimitMultiplier
        /\ OneBackoff(reloads'[r])
        /\ \A x \in Replicas \ {r} : reloads'[x] = reloads[x] /\ internal'[x] = internal[x]
    BY <1>2, <1>5, <2>3, CalledRise
  <2>5. backoff'[r] = "reload" /\ \A x \in Replicas \ {r} : backoff'[x] = backoff[x]
    BY <1>3, <1>5
  <2>6. started[r] /\ ~Waits(phase[r])
    BY <1>2, <1>3 DEF RiseOK, BackoffOK
  <2>7. RiseOK(r)'
    BY <1>2, <1>3, <2>4, <2>5, <2>6 DEF RiseOK, BackoffOK
  <2>8. \A x \in Replicas \ {r} : SameRise(x)
    BY <1>2, <2>4, <2>5 DEF SameRise
  <2>9. DOMAIN backoff' = Replicas
    BY <1>3, <1>5
  <2> QED BY <2>4, <2>7, <2>8, <2>9, RiseStep
<1> QED BY <1>2, <1>4, <1>5

\* A round that is over: the lock goes on, and the share is sent.
LEMMA ShareRise ==
  ASSUME UpwardInv, NEW r \in Replicas, NEW msg, chan' = Broadcast(r, msg),
         phase' = [phase EXCEPT ![r] = Released(phase[r])],
         \A x \in Replicas \ {r} : buffer'[x] = buffer[x] /\ timer'[x] = timer[x] /\ started'[x] = started[x],
         timer'[r].STATUS = Off => buffer'[r].STATUS = <<>>, started'[r] = TRUE, Up(r),
         UNCHANGED <<life, reloads, internal, backoff>>
  PROVE  RiseInv' /\ NoFall
<1>1. RiseOK(r) /\ AllInv /\ phase[r] \in LockType /\ DOMAIN backoff' = Replicas
  BY Parts, UpRises
<1>2. DOMAIN phase = Replicas /\ ChanOK(chan)
  BY <1>1, Domains
<1>3. Once(phase'[r]) /\ (Waits(phase'[r]) => Waits(phase[r]))
  <2>1. phase'[r] = Released(phase[r])
    BY <1>2
  <2> QED BY <1>1, <2>1, ReleasedOnce DEF RiseOK, BackoffOK
<1>4. RiseOK(r)'
  BY <1>1, <1>3 DEF RiseOK, BackoffOK
<1>5. \A x \in Replicas \ {r} : SameRise(x)
  BY <1>2, BroadcastElsewhere DEF SameRise
<1> QED BY <1>1, <1>4, <1>5, LevelStep

\* A replica that has not started reloads nothing while it is in its round.
LEMMA NothingReloaded ==
  ASSUME UpwardInv, NEW r \in Replicas, Up(r), ~started[r], InRound(phase[r])
  PROVE  reloads[r] = <<>>
<1>1. RiseOK(r) /\ Covered(phase[r], reloads[r]) /\ IsSeq(reloads[r])
  BY Parts, UpRises, RoundOfUp DEF AllInv
<1>2. \A i \in DOMAIN reloads[r] : reloads[r][i].by # "BACKOFF"
  BY <1>1 DEF RiseOK, BackoffOK
<1>3. DOMAIN reloads[r] = {}
  BY <1>1, <1>2, RoundUncalled DEF Covered
<1> QED BY <1>1, <1>3 DEF IsSeq

LEMMA StatusDueRise ==
  ASSUME UpwardInv, NEW r \in Replicas, StatusDue(r)
  PROVE  RiseInv' /\ NoFall
<1>1. PICK statuses, state : statuses = buffer[r].STATUS /\ state = AggregateState(r, statuses)
  OBVIOUS
<1>2. /\ Up(r) /\ timer[r].STATUS = 0
      /\ buffer' = [buffer EXCEPT ![r]["STATUS"] = <<>>]
      /\ UNCHANGED <<life, started, reloads, backoff>>
      /\ IF started[r]
         THEN /\ chan' = Broadcast(r, ShareMsg(r, state))
              /\ timer' = [[timer EXCEPT ![r].STATUS = Off] EXCEPT ![r].PHASE = Off]
              /\ phase' = [phase EXCEPT ![r] = Released(phase[r])]
              /\ UNCHANGED internal
         ELSE /\ internal' = IF starting[r] = <<>>
                             THEN [internal EXCEPT ![r] =
                                     SetDynamicConfig(internal[r], NormalizeState(r, state))]
                             ELSE internal
              /\ timer' = [timer EXCEPT ![r].STATUS = Off]
              /\ UNCHANGED <<chan, phase>>
  BY <1>1 DEF StatusDue, Free, ShareAndRelease
<1>3. RiseOK(r) /\ AllInv /\ DOMAIN timer = Replicas /\ DOMAIN backoff' = Replicas
  BY <1>2, Parts, UpRises
<1>4. buffer'[r].STATUS = <<>> /\ \A x \in Replicas \ {r} : buffer'[x] = buffer[x]
  <2>1. BufferMail(Gone, buffer[r]) /\ DOMAIN buffer = Replicas
    BY <1>3, Domains DEF MailInv
  <2> QED BY <1>2, <2>1 DEF BufferMail, Buffered
<1>5. \A x \in Replicas \ {r} : timer'[x] = timer[x]
  BY <1>2, <1>3
<1>6. CASE started[r]
  <2>1. started'[r] = TRUE
    BY <1>2, <1>6 DEF UpwardInv, AllInv, IInv, ListInv
  <2> QED BY <1>2, <1>4, <1>5, <1>6, <2>1, ShareRise
<1>7. CASE ~started[r]
  <2>1. /\ starting[r] = <<>> /\ \E m \in Elements(statuses) : m.from = r
    BY <1>1, <1>2, <1>3, OwnStatus
  <2>2. PICK own \in Elements(statuses) : own.from = r
    BY <2>1
  <2>3. own.rateLimitMultiplier = internal[r].rateLimitMultiplier
    BY <1>1, <1>3, <1>7, <2>2 DEF RiseOK, OwnRate
  <2>4. state.rateLimitMultiplier \in Positive /\ state.rateLimitMultiplier >= own.rateLimitMultiplier
    <3>1. /\ IsSeq(statuses) /\ Elements(statuses) # {}
          /\ \A m \in Elements(statuses) : m.rateLimitMultiplier \in Positive /\ m.interval \in Positive
      BY <1>1, <2>2, BufferedRates DEF UpwardInv
    <3>2. Positive \in SUBSET (Nat \ {0})
      BY DEF Positive
    <3>3. /\ state \in StateOf(Positive)
          /\ \A m \in Elements(statuses) : state.rateLimitMultiplier >= m.rateLimitMultiplier
      BY <1>1, <3>1, <3>2, AggregatedRates
    <3> QED BY <3>3 DEF StateOf
  <2>5. InPlace(internal[r]) /\ DOMAIN internal = Replicas
    BY <1>2, <1>3, PlaceOfUp, Domains DEF Settled, Scheduled
  <2>6. internal'[r] = SetDynamicConfig(internal[r], NormalizeState(r, state))
        /\ \A x \in Replicas \ {r} : internal'[x] = internal[x]
    BY <1>2, <1>7, <2>1, <2>5
  <2>7. NormalizeState(r, state).rateLimitMultiplier = state.rateLimitMultiplier
    BY DEF NormalizeState
  <2>8. internal'[r].rateLimitMultiplier = state.rateLimitMultiplier
    <3>1. state.rateLimitMultiplier # Null
      BY <2>4, NullAssumption DEF Positive
    <3> QED BY <2>5, <2>6, <2>7, <3>1, RateTaken
  <2>9. internal'[r].rateLimitMultiplier >= internal[r].rateLimitMultiplier
    BY <2>3, <2>4, <2>8
  <2>10. InRound(phase[r])
    BY <1>2, <1>3, RoundOfUp, DelaysInOrder DEF AllInv, OnTime, Between, Off
  <2>11. reloads'[r] = <<>>
    BY <1>2, <1>7, <2>10, NothingReloaded
  <2>12. Rising(reloads'[r], internal'[r].rateLimitMultiplier)
    BY <2>11 DEF Rising
  <2>13. OwnRate(r)'
    BY <1>2, <1>4, <1>7, <2>10, NoOwnAnswer
  <2>14. RiseOK(r)'
    BY <1>2, <1>3, <1>4, <1>7, <2>12, <2>13 DEF RiseOK, BackoffOK
  <2>15. \A x \in Replicas \ {r} : SameRise(x)
    BY <1>2, <1>4, <1>5, <1>7, <2>6 DEF SameRise
  <2> QED BY <1>3, <2>9, <2>14, <2>15, RiseStep
<1> QED BY <1>6, <1>7

LEMMA MarketsStartedRise ==
  ASSUME UpwardInv, NEW r \in Replicas, MarketsStarted(r)
  PROVE  RiseInv' /\ NoFall
<1>1. PICK state : state = Head(starting[r])
  OBVIOUS
<1>2. /\ Up(r) /\ starting[r] # <<>>
      /\ started' = [started EXCEPT ![r] = TRUE]
      /\ internal' = IF Tail(starting[r]) = <<>> THEN internal
                     ELSE [internal EXCEPT ![r] =
                             SetDynamicConfig(internal[r], NormalizeState(r, Head(Tail(starting[r]))))]
      /\ chan' = Broadcast(r, ShareMsg(r, state))
      /\ timer' = [timer EXCEPT ![r].PHASE = Off]
      /\ phase' = [phase EXCEPT ![r] = Released(phase[r])]
      /\ UNCHANGED <<life, buffer, reloads, backoff>>
  BY <1>1 DEF MarketsStarted, Free, ShareAndRelease
<1>3. AllInv /\ RiseOK(r) /\ DOMAIN started = Replicas /\ DOMAIN timer = Replicas
  BY <1>2, Parts, UpRises
<1>4. StartingUp(timer[r], starting[r])
  <2>1. OnTime(phase[r], timer[r], starting[r], Asking(r), OwnAnswer(r))
    BY <1>2, <1>3, RoundOfUp DEF AllInv
  <2> QED BY <1>2, <2>1 DEF OnTime, Asked, Debouncing, Between
<1>5. internal' = internal
  BY <1>2, <1>4 DEF StartingUp
<1>6. buffer'[r].STATUS = <<>>
  BY <1>2, <1>3, <1>4 DEF StartingUp, RiseOK
<1>7. /\ started'[r] = TRUE
      /\ \A x \in Replicas \ {r} : started'[x] = started[x] /\ timer'[x] = timer[x]
  BY <1>2, <1>3
<1> QED BY <1>2, <1>5, <1>6, <1>7, ShareRise

LEMMA ReloadedRise ==
  ASSUME UpwardInv, NEW r \in Replicas, Reloaded(r)
  PROVE  RiseInv' /\ NoFall
<1>1. PICK calls, rest, mult : /\ calls = reloads[r] /\ rest = Tail(reloads[r])
                               /\ mult = internal[r].rateLimitMultiplier
  OBVIOUS
<1>2. /\ Up(r) /\ calls # <<>> /\ reloads' = [reloads EXCEPT ![r] = rest]
      /\ internal' = IF rest = <<>> THEN internal
                     ELSE [internal EXCEPT ![r] = SetDynamicConfig(internal[r], Head(rest).config)]
      /\ IF Head(calls).by = "BACKOFF"
         THEN /\ phase' = [phase EXCEPT ![r] = Acquired(phase[r], "CLUSTER")]
              /\ backoff' = [backoff EXCEPT ![r] = "hello"]
              /\ UNCHANGED timer
         ELSE /\ phase' = [phase EXCEPT ![r] = Released(phase[r])]
              /\ timer' = [timer EXCEPT ![r].PHASE = Off]
              /\ UNCHANGED backoff
      /\ UNCHANGED <<life, chan, buffer, started>>
  BY <1>1 DEF Reloaded, Free, NextReload
<1>3. /\ AllInv /\ RiseOK(r) /\ IsSeq(calls) /\ DOMAIN backoff = Replicas /\ DOMAIN timer = Replicas
      /\ phase[r] \in LockType /\ timer[r] \in [Timers -> Int] /\ Covered(phase[r], calls)
  BY <1>1, <1>2, Parts, UpRises, RoundOfUp DEF AllInv
<1>4. OneBackoff(calls) /\ Rising(calls, mult) /\ mult \in Positive
  BY <1>1, <1>3, OwnMultiplier DEF RiseOK, BackoffOK
<1>5. /\ \A i \in DOMAIN rest : i = 1
      /\ rest # <<>> => 2 \in DOMAIN calls /\ Head(rest) = calls[2]
  <2>1. \A i \in DOMAIN calls : i \in 1..2
    BY <1>3, <1>4, TwoReloads
  <2> QED BY <1>1, <1>2, <1>3, <2>1, LoneReload
<1>6. /\ OneBackoff(rest)
      /\ (\E i \in DOMAIN rest : rest[i].by = "BACKOFF") =>
           Head(calls).by # "BACKOFF" /\ backoff[r] = "reload"
  <2>1. (\E i \in DOMAIN calls : calls[i].by = "BACKOFF") => backoff[r] = "reload"
    BY <1>1, <1>3 DEF RiseOK, BackoffOK
  <2>2. rest = Tail(calls) /\ calls # <<>> /\ IsSeq(calls) /\ OneBackoff(calls)
    BY <1>1, <1>2, <1>3, <1>4
  <2>3. /\ OneBackoff(rest)
        /\ (\E i \in DOMAIN rest : rest[i].by = "BACKOFF") =>
             /\ Head(calls).by # "BACKOFF"
             /\ \E i \in DOMAIN calls : calls[i].by = "BACKOFF"
    BY ONLY <2>2, BackoffTail
  <2> QED BY <2>1, <2>3
<1>7. /\ reloads'[r] = rest
      /\ internal'[r] = IF rest = <<>> THEN internal[r] ELSE SetDynamicConfig(internal[r], Head(rest).config)
      /\ \A x \in Replicas \ {r} : reloads'[x] = reloads[x] /\ internal'[x] = internal[x]
  BY <1>2, <1>3, Domains
<1>8. internal'[r].rateLimitMultiplier >= mult
  <2>1. CASE rest = <<>>
    BY <1>1, <1>4, <1>7, <2>1 DEF Positive
  <2>2. CASE rest # <<>>
    <3>1. PICK config : config = Head(rest).config
      OBVIOUS
    <3>2. NotBelow(config, mult)
      BY <1>4, <1>5, <2>2, <3>1 DEF Rising
    <3>3. InPlace(internal[r])
      BY <1>2, <1>3, PlaceOfUp DEF Settled, Scheduled
    <3>4. internal'[r].rateLimitMultiplier =
            IF config.rateLimitMultiplier = Null THEN mult ELSE config.rateLimitMultiplier
      BY <1>1, <1>7, <2>2, <3>1, <3>3, RateTaken
    <3> QED BY <1>4, <3>2, <3>4 DEF NotBelow, Positive
  <2> QED BY <2>1, <2>2
<1>9. Rising(reloads'[r], internal'[r].rateLimitMultiplier)
  BY <1>5, <1>7 DEF Rising
<1>10. /\ \A x \in Replicas \ {r} : phase'[x] = phase[x] /\ backoff'[x] = backoff[x] /\ timer'[x] = timer[x]
       /\ DOMAIN backoff' = Replicas
  BY <1>2, <1>3, Domains
<1>11. timer'[r].STATUS = timer[r].STATUS
  BY <1>2, <1>3, Parts
<1>12. internal'[r].rateLimitMultiplier = mult \/ started[r]
  <2>1. ASSUME ~started[r] PROVE rest = <<>>
    <3>1. \A i \in DOMAIN calls : calls[i].by # "BACKOFF"
      BY <1>1, <1>3, <2>1 DEF RiseOK, BackoffOK
    <3>2. 1 \in DOMAIN calls
      BY <1>2, <1>3, TailElements
    <3>3. 2 \notin DOMAIN calls
      <4>1. 1 # 2
        OBVIOUS
      <4> QED BY <1>3, <3>1, <3>2, <4>1 DEF Covered
    <3> QED BY <1>5, <3>3
  <2> QED BY <1>1, <1>7, <2>1
<1>13. BackoffOK(r)'
  <2>1. CASE Head(calls).by = "BACKOFF"
    <3>1. phase'[r] = Acquired(phase[r], "CLUSTER") /\ backoff'[r] = "hello"
      BY <1>2, <1>3, <2>1, Domains
    <3>2. backoff[r] = "reload"
      <4>1. Head(calls) = calls[1] /\ 1 \in DOMAIN calls
        BY <1>2, <1>3, TailElements
      <4> QED BY <1>1, <1>3, <2>1, <4>1 DEF RiseOK, BackoffOK
    <3>3. ~Waits(phase[r]) /\ started[r]
      BY <1>3, <3>2 DEF RiseOK, BackoffOK
    <3>4. Once(phase'[r])
      BY <1>3, <3>1, <3>3, AcquiredFirst
    <3> QED BY <1>2, <1>6, <1>7, <2>1, <3>1, <3>3, <3>4 DEF BackoffOK
  <2>2. CASE Head(calls).by # "BACKOFF"
    <3>1. phase'[r] = Released(phase[r]) /\ backoff' = backoff
      BY <1>2, <1>3, <2>2, Domains
    <3>2. Once(phase'[r]) /\ (Waits(phase'[r]) => Waits(phase[r]))
      BY <1>3, <3>1, ReleasedOnce DEF RiseOK, BackoffOK
    <3> QED BY <1>2, <1>3, <1>6, <1>7, <3>1, <3>2 DEF RiseOK, BackoffOK
  <2> QED BY <2>1, <2>2
<1>14. RiseOK(r)'
  BY <1>1, <1>2, <1>3, <1>9, <1>11, <1>12, <1>13 DEF RiseOK, OwnRate
<1>15. \A x \in Replicas \ {r} : SameRise(x)
  BY <1>2, <1>7, <1>10 DEF SameRise
<1> QED BY <1>1, <1>8, <1>10, <1>14, <1>15, RiseStep

LEMMA BackoffStartRise ==
  ASSUME UpwardInv, NEW r \in Replicas, BackoffStart(r)
  PROVE  RiseInv' /\ NoFall
<1>1. /\ Up(r) /\ started[r] /\ backoff[r] = "off" /\ backoff' = [backoff EXCEPT ![r] = "idle"]
      /\ UNCHANGED <<life, chan, buffer, timer, phase, started, reloads, internal>>
  BY DEF BackoffStart, Free, roundVars
<1>2. RiseOK(r) /\ DOMAIN backoff = Replicas
  BY <1>1, Parts, UpRises
<1>3. backoff'[r] = "idle" /\ \A x \in Replicas \ {r} : backoff'[x] = backoff[x]
  BY <1>1, <1>2
<1>4. RiseOK(r)'
  BY <1>1, <1>2, <1>3 DEF RiseOK, BackoffOK
<1>5. \A x \in Replicas \ {r} : SameRise(x)
  BY <1>1, <1>3 DEF SameRise
<1> QED BY <1>1, <1>2, <1>4, <1>5, LevelStep

LEMMA SayHelloRise ==
  ASSUME UpwardInv, NEW r \in Replicas, NEW who \in Round, SayHello(r, who)
  PROVE  RiseInv' /\ NoFall
<1>1. /\ Granted(r, who) /\ chan' = Broadcast(r, HelloMsg(r))
      /\ phase' = [phase EXCEPT ![r].entered = TRUE]
      /\ timer' = [timer EXCEPT ![r].PHASE = PhaseDelay]
      /\ backoff' = IF who = "CLUSTER" THEN [backoff EXCEPT ![r] = "idle"] ELSE backoff
      /\ UNCHANGED <<life, buffer, started, reloads, internal>>
  BY DEF SayHello
<1>2. Up(r) /\ phase[r].held = who /\ ~phase[r].entered
  BY <1>1 DEF Granted
<1>3. /\ RiseOK(r) /\ AllInv /\ DOMAIN backoff = Replicas /\ DOMAIN timer = Replicas
      /\ phase[r] \in LockType /\ timer[r] \in [Timers -> Int]
  BY <1>2, Parts, UpRises
<1>4. /\ phase'[r] = [phase[r] EXCEPT !.entered = TRUE]
      /\ \A x \in Replicas \ {r} : phase'[x] = phase[x] /\ backoff'[x] = backoff[x] /\ timer'[x] = timer[x]
      /\ DOMAIN backoff' = Replicas
  BY <1>1, <1>3, Domains
<1>5. /\ Once(phase'[r]) /\ (Waits(phase'[r]) => Waits(phase[r]))
      /\ who = "CLUSTER" => ~Waits(phase'[r]) /\ backoff[r] = "hello"
  <2>1. Once(phase[r]) /\ (Waits(phase[r]) => backoff[r] = "hello")
    BY <1>3 DEF RiseOK, BackoffOK
  <2>2. who = "CLUSTER" => Waits(phase[r])
    BY <1>2 DEF Waits
  <2> QED BY <1>2, <1>3, <1>4, <2>1, <2>2, EnteredOnce
<1>6. BackoffOK(r)'
  <2>1. CASE who = "CLUSTER"
    <3>1. backoff'[r] = "idle"
      BY <1>1, <1>3, <2>1
    <3>2. started[r] /\ ~ \E i \in DOMAIN reloads[r] : reloads[r][i].by = "BACKOFF"
      BY <1>3, <1>5, <2>1 DEF RiseOK, BackoffOK
    <3> QED BY <1>1, <1>3, <1>5, <2>1, <3>1, <3>2 DEF RiseOK, BackoffOK
  <2>2. CASE who # "CLUSTER"
    BY <1>1, <1>3, <1>5, <2>2 DEF RiseOK, BackoffOK
  <2> QED BY <2>1, <2>2
<1>7. OwnRate(r) => OwnRate(r)'
  <2>1. PICK msg, c : msg = HelloMsg(r) /\ c = Broadcast(r, msg)
    OBVIOUS
  <2>2. ChanOK(chan)
    BY <1>3, Domains
  <2>3. Elements(c[r][r]) = IF Up(r) /\ r = r THEN Elements(chan[r][r]) \cup {msg} ELSE Elements(chan[r][r])
    BY ONLY <2>1, <2>2, r \in Replicas, BroadcastElements
  <2>4. msg.type # "STATUS" /\ chan' = c
    BY <1>1, <2>1 DEF HelloMsg
  <2> QED BY <1>1, <1>2, <2>3, <2>4 DEF OwnRate
<1>8. timer'[r].STATUS = timer[r].STATUS
  BY <1>1, <1>3
<1>9. RiseOK(r)'
  BY <1>1, <1>3, <1>6, <1>7, <1>8 DEF RiseOK
<1>10. \A x \in Replicas \ {r} : SameRise(x)
  <2>1. \A x \in Replicas \ {r} : chan'[x][x] = chan[x][x]
    BY <1>1, <1>3, Domains, BroadcastElsewhere
  <2> QED BY <1>1, <1>4, <2>1 DEF SameRise
<1> QED BY <1>1, <1>4, <1>9, <1>10, LevelStep

LEMMA QuietRise ==
  ASSUME UpwardInv, NEW r \in Replicas,
         \/ Boot(r) \/ Resync(r) \/ RateLimitExceeded(r)
         \/ Greet(r) \/ ShareDue(r) \/ CloseDue(r) \/ PhaseTimeout(r)
  PROVE  RiseInv' /\ NoFall
<1>1. /\ timer[r] \in [Timers -> Int] /\ phase[r] \in LockType
      /\ {"STATUS", "SHARE", "CLOSE", "GREET", "PHASE"} \subseteq Timers
  BY Parts
<1>2. ~PhaseTimeout(r)
  BY PhaseTimeoutRound DEF UpwardInv, AllInv
<1>3. CASE Boot(r)
  <2>1. PICK t : t = [timer[r] EXCEPT !.GREET = InitDelay]
    OBVIOUS
  <2>2. t.STATUS = timer[r].STATUS
    BY <1>1, <2>1
  <2>3. /\ life[r] = "off" /\ life' = [life EXCEPT ![r] = "up"]
        /\ timer' = [timer EXCEPT ![r] = t]
        /\ UNCHANGED <<chan, buffer, reloads, internal, backoff, started, phase>>
    BY <1>3, <2>1 DEF Boot, schedVars
  <2> QED BY <2>2, <2>3, LockRise
<1>4. CASE RateLimitExceeded(r)
  <2>1. /\ UNCHANGED <<chan, buffer, reloads, internal, backoff, started, phase, timer>>
        /\ life' = life \/ Fail(r)
    BY <1>4 DEF RateLimitExceeded, roundVars
  <2> QED BY <2>1, LockRise
<1>5. ASSUME NEW who \in Holders \ {"CLUSTER"}, Up(r),
             phase' = [phase EXCEPT ![r] = Acquired(phase[r], who)],
             UNCHANGED <<life, chan, buffer, reloads, internal, backoff, started>>,
             timer' = timer \/ \E t \in {"GREET", "SHARE", "CLOSE"} : timer' = [timer EXCEPT ![r][t] = Off]
      PROVE  RiseInv' /\ NoFall
  <2>1. PICK q : q = Acquired(phase[r], who)
    OBVIOUS
  <2>2. Once(phase[r])
    BY <1>5, UpRises DEF RiseOK, BackoffOK
  <2>3. Once(q) /\ (Waits(q) => Waits(phase[r]))
    BY <1>1, <2>1, <2>2, AcquiredOnce
  <2>4. timer' = timer \/ \E t : timer' = [timer EXCEPT ![r] = t] /\ (t.STATUS = timer[r].STATUS)
    <3>1. ASSUME NEW t \in {"GREET", "SHARE", "CLOSE"}, timer' = [timer EXCEPT ![r][t] = Off]
          PROVE  \E u : timer' = [timer EXCEPT ![r] = u] /\ (u.STATUS = timer[r].STATUS)
      <4>1. PICK u : u = [timer[r] EXCEPT ![t] = Off]
        OBVIOUS
      <4>2. u.STATUS = timer[r].STATUS
        BY <1>1, <4>1
      <4>3. timer' = [timer EXCEPT ![r] = u]
        BY <3>1, <4>1
      <4> QED BY <4>2, <4>3
    <3> QED BY <1>5, <3>1
  <2>5. phase' = [phase EXCEPT ![r] = q]
    BY <1>5, <2>1
  <2> QED BY <1>5, <2>3, <2>4, <2>5, LockRise
<1>6. {"HELLO", "SHARE", "CLOSE"} \subseteq Holders \ {"CLUSTER"}
  BY DEF Holders, Round
<1>7. CASE Resync(r)
  <2>1. /\ Up(r) /\ phase' = [phase EXCEPT ![r] = Acquired(phase[r], "HELLO")]
        /\ UNCHANGED <<life, chan, buffer, reloads, internal, backoff, started, timer>>
    BY <1>7 DEF Resync, Free, schedVars
  <2> QED BY <1>5, <1>6, <2>1
<1>8. CASE Greet(r) \/ ShareDue(r) \/ CloseDue(r)
  <2>1. PICK t \in {"GREET", "SHARE", "CLOSE"} : \E who \in {"HELLO", "SHARE", "CLOSE"} : AwaitPhase(r, t, who)
    BY <1>8 DEF Greet, ShareDue, CloseDue
  <2>2. PICK who \in {"HELLO", "SHARE", "CLOSE"} : AwaitPhase(r, t, who)
    BY <2>1
  <2>3. /\ Up(r) /\ phase' = [phase EXCEPT ![r] = Acquired(phase[r], who)]
        /\ UNCHANGED <<life, chan, buffer, reloads, internal, backoff, started>>
        /\ timer' = [timer EXCEPT ![r][t] = Off]
    BY <2>2 DEF AwaitPhase, Free, schedVars
  <2> QED BY <1>5, <1>6, <2>3
<1> QED BY <1>2, <1>3, <1>4, <1>7, <1>8

LEMMA DeliverRise ==
  ASSUME UpwardInv, NEW r \in Replicas, NEW s \in Replicas, Deliver(s, r)
  PROVE  RiseInv' /\ NoFall
<1>1. PICK msg, c, answer : /\ msg = Head(chan[r][s]) /\ c = Rest(r, s)
                            /\ answer = StatusMsg(r, internal[r].rateLimitMultiplier)
  BY SMTT(30)
<1>2. /\ Up(r) /\ chan[r][s] # <<>>
      /\ UNCHANGED <<life, phase, reloads, internal, backoff, started>>
      /\ IF msg.type = "HELLO"
         THEN chan' = Send(c, r, s, answer) /\ UNCHANGED <<buffer, timer>>
         ELSE /\ chan' = c
              /\ buffer' = [buffer EXCEPT ![r][msg.type] = Append(buffer[r][msg.type], msg)]
              /\ timer' = [timer EXCEPT ![r][msg.type] = DebounceDelay(msg.type)]
  BY <1>1 DEF Deliver, Rest, Free, schedVars
<1>3. /\ RiseOK(r) /\ AllInv /\ DOMAIN backoff' = Replicas /\ DOMAIN timer = Replicas
      /\ timer[r] \in [Timers -> Int] /\ ChanOK(chan) /\ "STATUS" \in Timers
  BY <1>2, Parts, UpRises, Domains
<1>4. /\ ChanOK(c) /\ \A d, x \in Replicas : d # r \/ x # s => c[d][x] = chan[d][x]
      /\ \A d, x \in Replicas : Elements(c[d][x]) \subseteq Elements(chan[d][x])
      /\ msg \in Elements(chan[r][s])
  <2>1. chan[r][s] # <<>> /\ ChanOK(chan) /\ msg = Head(chan[r][s]) /\ c = Rest(r, s)
    BY <1>1, <1>2, <1>3
  <2>2. ChanOK(c) /\ \A d, x \in Replicas : d # r \/ x # s => c[d][x] = chan[d][x]
    BY ONLY <2>1, r \in Replicas, s \in Replicas, RestEffect
  <2>3. /\ \A d, x \in Replicas : Elements(c[d][x]) \subseteq Elements(chan[d][x])
        /\ msg \in Elements(chan[r][s])
    BY ONLY <2>1, r \in Replicas, s \in Replicas, RestElements
  <2> QED BY SMTT(30), <2>2, <2>3
<1>5. msg.from = s
  BY <1>3, <1>4, Domains DEF MailInv, ChanMail
<1>6. \A m \in Elements(chan'[r][r]) : m.type = "STATUS" =>
        m \in Elements(chan[r][r]) \/ m.rateLimitMultiplier = internal[r].rateLimitMultiplier
  <2>1. chan'[r][r] = c[r][r] \/ chan'[r][r] = Append(c[r][r], answer)
    BY <1>2, <1>4 DEF Send, ChanOK
  <2>2. IsSeq(c[r][r])
    BY <1>4 DEF ChanOK
  <2>3. Elements(Append(c[r][r], answer)) = Elements(c[r][r]) \cup {answer}
    BY <2>2, ElementsAppend
  <2>4. answer.rateLimitMultiplier = internal[r].rateLimitMultiplier
    BY <1>1 DEF StatusMsg
  <2> QED BY <1>4, <2>1, <2>3, <2>4
<1>7. /\ \A m \in Elements(buffer'[r].STATUS) :
           m \in Elements(buffer[r].STATUS) \/ (m = msg /\ msg.type = "STATUS")
      /\ timer'[r].STATUS = Off => buffer'[r].STATUS = <<>>
  <2>1. CASE msg.type = "HELLO"
    BY <1>2, <1>3, <2>1 DEF RiseOK
  <2>2. CASE msg.type # "HELLO"
    <3>1. BufferMail(Gone, buffer[r]) /\ DOMAIN buffer = Replicas
      BY <1>3, Domains DEF MailInv
    <3>2. msg.type \in Buffered
      <4>1. msg.type \in Types(chan[r][s])
        BY <1>4 DEF Elements, Types
      <4> QED BY <1>3, <2>2, <4>1 DEF ChanOK, MessageTypes
    <3>3. CASE msg.type = "STATUS"
      <4>1. buffer'[r].STATUS = Append(buffer[r].STATUS, msg) /\ IsSeq(buffer[r].STATUS)
        BY <1>2, <2>2, <3>1, <3>3 DEF BufferMail, Buffered
      <4>2. Elements(buffer'[r].STATUS) = Elements(buffer[r].STATUS) \cup {msg}
        BY <4>1, ElementsAppend
      <4>3. timer'[r].STATUS = StatusDelay
        BY <1>2, <1>3, <2>2, <3>3 DEF DebounceDelay
      <4> QED BY <3>3, <4>2, <4>3, DelaysInOrder DEF Off
    <3>4. CASE msg.type # "STATUS"
      <4>1. buffer'[r].STATUS = buffer[r].STATUS
        BY <1>2, <2>2, <3>1, <3>4 DEF BufferMail, Buffered
      <4>2. timer'[r].STATUS = timer[r].STATUS
        BY <1>2, <1>3, <2>2, <3>4
      <4> QED BY <1>3, <4>1, <4>2 DEF RiseOK
    <3> QED BY <3>3, <3>4
  <2> QED BY <2>1, <2>2
<1>8. OwnRate(r) => OwnRate(r)'
  <2> SUFFICES ASSUME OwnRate(r) PROVE OwnRate(r)'
    OBVIOUS
  <2>1. \A m \in Elements(chan'[r][r]) :
          m.type = "STATUS" => m.rateLimitMultiplier = internal[r].rateLimitMultiplier
    BY <1>6 DEF OwnRate
  <2>2. \A m \in Elements(buffer'[r].STATUS) :
          m.from = r => m.rateLimitMultiplier = internal[r].rateLimitMultiplier
    BY <1>4, <1>5, <1>7 DEF OwnRate
  <2> QED BY <1>2, <2>1, <2>2 DEF OwnRate
<1>9. RiseOK(r)'
  BY <1>2, <1>3, <1>7, <1>8 DEF RiseOK, BackoffOK
<1>10. ASSUME NEW x \in Replicas \ {r} PROVE SameRise(x)
  <2>1. chan'[x][x] = chan[x][x]
    BY <1>2, <1>4 DEF Send, ChanOK
  <2>2. buffer'[x] = buffer[x] /\ timer'[x] = timer[x]
    BY <1>2, <1>3, Domains
  <2> QED BY <1>2, <2>1, <2>2 DEF SameRise
<1> QED BY <1>2, <1>3, <1>9, <1>10, LevelStep

LEMMA TickRise ==
  ASSUME UpwardInv, Tick \/ UNCHANGED vars
  PROVE  RiseInv' /\ NoFall
<1>1. UNCHANGED <<life, chan, buffer, phase, started, reloads, internal, backoff>>
  BY DEF Tick, vars, schedVars
<1>2. ASSUME NEW x \in Replicas, timer'[x].STATUS = Off PROVE timer[x].STATUS = Off
  <2>1. CASE timer' = timer
    BY <1>2, <2>1
  <2>2. CASE Tick
    <3>1. timer[x] \in [Timers -> Int] /\ "STATUS" \in Timers
      BY Parts
    <3>2. timer'[x].STATUS = IF timer[x].STATUS > 0 THEN timer[x].STATUS - 1 ELSE timer[x].STATUS
      BY <2>2, <3>1 DEF Tick
    <3> QED BY <1>2, <3>1, <3>2 DEF Off
  <2> QED BY <2>1, <2>2 DEF vars
<1>3. \A x \in Replicas : SameRise(x)
  BY <1>1, <1>2 DEF SameRise
<1>4. RiseInv'
  BY <1>1, <1>3, SameRisen DEF UpwardInv, RiseInv
<1>5. NoFall
  BY <1>1, OwnMultiplier DEF NoFall, Positive
<1> QED BY <1>4, <1>5

LEMMA InitRise == Init => RiseInv
<1> SUFFICES ASSUME Init PROVE RiseInv
  OBVIOUS
<1>1. ASSUME NEW r \in Replicas PROVE RiseOK(r)
  <2>1. /\ chan[r][r] = <<>> /\ buffer[r].STATUS = <<>> /\ phase[r] = FreePhase /\ reloads[r] = <<>>
        /\ backoff[r] = "off"
    BY DEF Init, Buffered
  <2>2. Once(FreePhase) /\ ~Waits(FreePhase)
    BY ElementsEmpty DEF FreePhase, Once, Waits
  <2> QED BY <2>1, <2>2, ElementsEmpty DEF RiseOK, BackoffOK, OneBackoff, OwnRate, Rising
<1>2. DOMAIN backoff = Replicas
  BY DEF Init
<1> QED BY <1>1, <1>2 DEF RiseInv

LEMMA NextRise == UpwardInv /\ [Next]_vars => RiseInv' /\ NoFall
<1> SUFFICES ASSUME UpwardInv, [Next]_vars PROVE RiseInv' /\ NoFall
  OBVIOUS
<1>1. ASSUME NEW r \in Replicas, Lifecycle(r) PROVE RiseInv' /\ NoFall
  <2>1. CASE Stop(r)
    <3>1. PICK left : /\ left = chan \/ left = Broadcast(r, CloseMsg(r))
                      /\ chan' = [left EXCEPT ![r] = [s \in Replicas |-> <<>>]]
      BY <2>1 DEF Stop
    <3>2. Forget(r)
      BY <2>1 DEF Stop
    <3> QED BY <3>1, <3>2, ForgetRise
  <2>2. CASE Crash(r)
    <3>1. Forget(r) /\ chan' = [chan EXCEPT ![r] = [s \in Replicas |-> <<>>]]
      BY <2>2 DEF Crash
    <3> QED BY <3>1, ForgetRise
  <2> QED BY <1>1, <2>1, <2>2, QuietRise DEF Lifecycle
<1>2. ASSUME NEW r \in Replicas, Progress(r) PROVE RiseInv' /\ NoFall
  <2>1. "HELLO" \in Round /\ "CLUSTER" \in Round
    BY DEF Round
  <2> QED BY <1>2, <2>1, QuietRise, StatusDueRise, SayHelloRise, HandleShareRise, HandleCloseRise,
       MarketsStartedRise, ReloadedRise, BackoffStartRise, HandleRateLimitRise, DeliverRise DEF Progress
<1>3. CASE Tick \/ UNCHANGED vars
  BY <1>3, TickRise
<1> QED BY <1>1, <1>2, <1>3 DEF Next

THEOREM EverythingRises == Spec /\ budget.late = {} => []UpwardInv
<1>1. Init /\ budget.late = {} => UpwardInv
  <2>1. Reachable(Positive)
    BY DEF Reachable, Positive
  <2> QED BY <2>1, InitIInv, InitRound, InitPlace, InitRates, InitRise, AllPositive DEF AllInv, UpwardInv
<1>2. UpwardInv /\ [Next]_vars => UpwardInv'
  BY NextIInv, NextRound, NextPlace, NextRates, NextRise, AllPositive DEF AllInv, UpwardInv
<1> QED BY <1>1, <1>2, PTL DEF Spec

\* As long as no message is late, a running replica never goes back to a lower
\* rate limit multiplier.
THEOREM MultiplierNeverFallsHolds == Spec /\ budget.late = {} => MultiplierNeverFalls
<1>1. UpwardInv /\ [Next]_vars =>
        [\A r \in Replicas : Up(r) /\ Up(r)' =>
           internal'[r].rateLimitMultiplier >= internal[r].rateLimitMultiplier]_vars
  BY NextRise DEF NoFall
<1> QED BY <1>1, EverythingRises, PTL DEF Spec, MultiplierNeverFalls

-----------------------------------------------------------------------------
(* What a replica still has to do, and what its schedulers have been told.   *)

\* A replica that is up has said HELLO, or will; shares it has got it will
\* handle.  Its internal scheduler has been told what the markets are started
\* with, and what the first reload brings, which the collectors' schedulers are
\* yet to be told.
Launched(r) == timer[r].GREET = Off => "HELLO" \in Wanted(phase[r])
Heeding(r) == buffer[r].SHARE # <<>> => timer[r].SHARE # Off \/ "SHARE" \in Awaited(phase[r])
Told(own, config) == SetDynamicConfig(own, config) = own
InStep(r) ==
  /\ running[r] # Null /\ running[r].clusterMembers # Null /\ starting[r] = <<>>
  /\ internal[r] = IF reloads[r] = <<>> THEN running[r]
                   ELSE SetDynamicConfig(running[r], Head(reloads[r]).config)

RestOK(r) ==
  /\ life[r] = "off" => internal[r].rateLimitMultiplier = 1 /\ reloads[r] = <<>>
  /\ Up(r) /\ ~started[r] => Launched(r)
  /\ Heeding(r)
  /\ starting[r] # <<>> => Told(internal[r], NormalizeState(r, Head(starting[r])))
  /\ reloads[r] # <<>> => Told(internal[r], Head(reloads[r]).config)
  /\ started[r] => InStep(r)

RestInv == \A r \in Replicas : life[r] \in {"off", "up"} => RestOK(r)
StepInv == UpwardInv /\ TypeInv /\ RestInv

LEMMA RestStep ==
  ASSUME RestInv, NEW r \in Replicas, Others(r), life'[r] \in {"off", "up"} => RestOK(r)'
  PROVE  RestInv'
<1>1. ASSUME NEW x \in Replicas \ {r}, life'[x] \in {"off", "up"} PROVE RestOK(x)'
  <2>1. RestOK(x)
    BY <1>1 DEF RestInv, Others
  <2> QED BY <2>1 DEF Others, RestOK, Up, Launched, Heeding, InStep
<1> QED BY <1>1 DEF RestInv

LEMMA RestOfUp ==
  ASSUME StepInv, NEW r \in Replicas, Up(r)
  PROVE  RestOK(r)
BY DEF StepInv, RestInv, Up

\* The parts of the state in which the steps below take place.
LEMMA StepParts ==
  ASSUME StepInv
  PROVE  /\ AllInv /\ RoundInv /\ UpwardInv /\ TypeInv /\ RestInv
         /\ DOMAIN life = Replicas /\ DOMAIN chan = Replicas /\ DOMAIN buffer = Replicas
         /\ DOMAIN timer = Replicas /\ DOMAIN phase = Replicas /\ DOMAIN members = Replicas
         /\ DOMAIN starting = Replicas /\ DOMAIN started = Replicas /\ DOMAIN reloads = Replicas
         /\ DOMAIN internal = Replicas /\ DOMAIN running = Replicas
         /\ ChanOK(chan)
<1>1. AllInv /\ RoundInv /\ UpwardInv /\ TypeInv /\ RestInv
  BY DEF StepInv, UpwardInv, AllInv
<1> QED BY <1>1, Everywhere

\* The stages of a round.
LEMMA Stages ==
  ASSUME StepInv, NEW r \in Replicas, Up(r)
  PROVE  /\ timer[r].STATUS = 0 => InRound(phase[r]) /\ starting[r] = <<>>
         /\ starting[r] # <<>> => InRound(phase[r]) /\ Tail(starting[r]) = <<>> /\ ~started[r]
         /\ InRound(phase[r]) /\ ~started[r] => reloads[r] = <<>>
<1>1. OnTime(phase[r], timer[r], starting[r], Asking(r), OwnAnswer(r))
  BY StepParts, RoundOfUp
<1>2. starting[r] # <<>> => ~started[r]
  BY RestOfUp DEF RestOK, InStep
<1>3. InRound(phase[r]) /\ ~started[r] => reloads[r] = <<>>
  BY StepParts, NothingReloaded
<1> QED BY <1>1, <1>2, <1>3, DelaysInOrder DEF OnTime, Asked, Debouncing, StartingUp, Between, Off

\* A table of intervals is one, and so is a config that has one.
LEMMA WindowIsOne ==
  ASSUME NEW w \in Windows
  PROVE  \E ids \in SUBSET {Identity[r] : r \in Replicas} : w \in [ids -> Int] /\ w # Null
<1>1. PICK ids \in SUBSET {Identity[r] : r \in Replicas} : w \in [ids -> Nat]
  BY DEF Windows, Identities
<1>2. w = [id \in ids |-> w[id]]
  BY <1>1
<1>3. ASSUME NEW id \in ids PROVE w[id] \in Int
  <2>1. w[id] \in Nat
    BY <1>1
  <2> QED BY <2>1
<1>4. w \in [ids -> Int]
  BY <1>2, <1>3
<1>5. Null \notin [ids -> Int]
  BY NullAssumption
<1> QED BY <1>4, <1>5

LEMMA Configured ==
  ASSUME NEW c \in Config(Windows), c.clusterMembers # Null
  PROVE  c # Null
<1>1. c.clusterMembers \in Windows
  BY DEF Config
<1>2. PICK ids \in SUBSET {Identity[r] : r \in Replicas} : c.clusterMembers \in [ids -> Int]
  BY <1>1, WindowIsOne
<1>3. c \in [replicaSize : Int, instancePosition : Int, rateLimitMultiplier : Int, clusterMembers : [ids -> Int]]
  <2>1. c.rateLimitMultiplier \in Int
    <3>1. c.rateLimitMultiplier \in Multipliers
      BY DEF Config
    <3>2. \A x \in Multipliers : x \in Int
      BY TypeNames
    <3> QED BY <3>1, <3>2
  <2>2. c = [replicaSize |-> c.replicaSize, instancePosition |-> c.instancePosition,
             rateLimitMultiplier |-> c.rateLimitMultiplier, clusterMembers |-> c.clusterMembers]
        /\ c.replicaSize \in Int /\ c.instancePosition \in Int
    BY DEF Config
  <2> QED BY <1>2, <2>1, <2>2
<1> QED BY <1>3, NullAssumption

\* The window of a config that has been set once stays.
LEMMA WindowKept ==
  ASSUME NEW old \in Config(Windows), NEW c, NEW new, new = SetDynamicConfig(old, c),
         old.clusterMembers # Null \/ c.clusterMembers # Null
  PROVE  new.clusterMembers # Null
<1>1. "clusterMembers" \in DOMAIN old
  BY DEF Config
<1>2. new.clusterMembers = IF c.clusterMembers = Null THEN old.clusterMembers ELSE c.clusterMembers
  BY <1>1 DEF SetDynamicConfig, Overlay
<1> QED BY <1>2

-----------------------------------------------------------------------------
(* What the steps of a replica do to it, and to the queues.                  *)

Posted(r, msg) ==
  \A d, x \in Replicas :
    Elements(chan'[d][x]) =
      IF Up(d) /\ x = r THEN Elements(chan[d][x]) \cup {msg} ELSE Elements(chan[d][x])

LEMMA BroadcastPosts ==
  ASSUME ChanOK(chan), NEW r \in Replicas, NEW msg, chan' = Broadcast(r, msg)
  PROVE  Posted(r, msg)
<1> SUFFICES ASSUME NEW d \in Replicas, NEW x \in Replicas
             PROVE  Elements(chan'[d][x]) =
                      IF Up(d) /\ x = r THEN Elements(chan[d][x]) \cup {msg} ELSE Elements(chan[d][x])
  BY DEF Posted
<1>1. PICK c : c = Broadcast(r, msg)
  OBVIOUS
<1>2. Elements(c[d][x]) = IF Up(d) /\ x = r THEN Elements(chan[d][x]) \cup {msg} ELSE Elements(chan[d][x])
  BY ONLY ChanOK(chan), r \in Replicas, d \in Replicas, x \in Replicas, <1>1, BroadcastElements
<1> QED BY <1>1, <1>2

\* The lock of a replica, and its timers.
LEMMA LockParts ==
  ASSUME StepInv, NEW r \in Replicas
  PROVE  /\ phase[r] \in LockType
         /\ phase[r].held = "none" => phase[r].queue = <<>> /\ ~phase[r].entered
         /\ timer[r] \in [Timers -> Int] /\ DOMAIN buffer[r] = Buffered /\ IsSeq(reloads[r])
         /\ \A t \in Buffered : IsSeq(buffer[r][t])
<1>1. AllInv
  BY StepParts
<1>2. Sound(phase[r], timer[r].PHASE, reloads[r])
  BY <1>1 DEF AllInv, IInv, LockInv
<1> QED BY <1>1, <1>2, Private DEF Sound

TimersKept(r) == timer'[r].GREET = timer[r].GREET /\ timer'[r].SHARE = timer[r].SHARE

LEMMA SayHelloActs ==
  ASSUME StepInv, NEW r \in Replicas, NEW who \in Round, SayHello(r, who)
  PROVE  /\ Up(r) /\ Others(r) /\ phase[r].held = who /\ ~phase[r].entered
         /\ UNCHANGED <<life, buffer, starting, started, reloads, internal, running>>
         /\ phase'[r] = [phase[r] EXCEPT !.entered = TRUE] /\ TimersKept(r)
         /\ Posted(r, HelloMsg(r))
<1>1. /\ Granted(r, who) /\ chan' = Broadcast(r, HelloMsg(r))
      /\ phase' = [phase EXCEPT ![r].entered = TRUE]
      /\ timer' = [timer EXCEPT ![r].PHASE = PhaseDelay]
      /\ UNCHANGED <<life, buffer, members, starting, started, reloads, internal, running>>
  BY DEF SayHello
<1>2. ChanOK(chan) /\ DOMAIN phase = Replicas /\ DOMAIN timer = Replicas /\ timer[r] \in [Timers -> Int]
  BY StepParts, LockParts
<1>3. Posted(r, HelloMsg(r))
  BY <1>1, <1>2, BroadcastPosts
<1>4. Others(r) /\ phase'[r] = [phase[r] EXCEPT !.entered = TRUE]
  BY <1>1, <1>2 DEF Others
<1>5. TimersKept(r)
  BY <1>1, <1>2, Tellings DEF TimersKept
<1> QED BY <1>1, <1>3, <1>4, <1>5 DEF Granted

LEMMA StatusDueActs ==
  ASSUME StepInv, NEW r \in Replicas, StatusDue(r), NEW state, state = AggregateState(r, buffer[r].STATUS)
  PROVE  /\ Up(r) /\ Others(r) /\ timer[r].STATUS = 0 /\ InRound(phase[r]) /\ starting[r] = <<>>
         /\ UNCHANGED <<life, started, reloads, running>> /\ TimersKept(r)
         /\ buffer'[r].STATUS = <<>> /\ buffer'[r].SHARE = buffer[r].SHARE
         /\ IF started[r]
            THEN /\ Posted(r, ShareMsg(r, state)) /\ phase'[r] = Released(phase[r])
                 /\ UNCHANGED <<starting, internal>>
            ELSE /\ internal'[r] = SetDynamicConfig(internal[r], NormalizeState(r, state))
                 /\ starting'[r] = <<state>> /\ UNCHANGED <<chan, phase>>
<1>1. /\ Up(r) /\ timer[r].STATUS = 0 /\ buffer' = [buffer EXCEPT ![r]["STATUS"] = <<>>]
      /\ \E m : members' = [members EXCEPT ![r] = m]
      /\ UNCHANGED <<life, started, reloads, running>>
      /\ IF started[r]
         THEN /\ chan' = Broadcast(r, ShareMsg(r, state))
              /\ timer' = [[timer EXCEPT ![r].STATUS = Off] EXCEPT ![r].PHASE = Off]
              /\ phase' = [phase EXCEPT ![r] = Released(phase[r])]
              /\ UNCHANGED <<starting, internal>>
         ELSE /\ starting' = [starting EXCEPT ![r] = Append(starting[r], state)]
              /\ internal' = IF starting[r] = <<>>
                             THEN [internal EXCEPT ![r] = SetDynamicConfig(internal[r], NormalizeState(r, state))]
                             ELSE internal
              /\ timer' = [timer EXCEPT ![r].STATUS = Off]
              /\ UNCHANGED <<chan, phase>>
  BY DEF StatusDue, Free, ShareAndRelease, Store
<1>2. InRound(phase[r]) /\ starting[r] = <<>>
  BY <1>1, Stages
<1>3. /\ DOMAIN members = Replicas /\ DOMAIN starting = Replicas /\ DOMAIN internal = Replicas
      /\ DOMAIN timer = Replicas /\ DOMAIN phase = Replicas /\ DOMAIN buffer = Replicas
      /\ timer[r] \in [Timers -> Int] /\ DOMAIN buffer[r] = Buffered /\ ChanOK(chan)
  BY StepParts, LockParts
<1>4. buffer'[r].STATUS = <<>> /\ buffer'[r].SHARE = buffer[r].SHARE
      /\ \A x \in Replicas \ {r} : buffer'[x] = buffer[x] /\ members'[x] = members[x]
  BY <1>1, <1>3, Tellings
<1>5. TimersKept(r) /\ \A x \in Replicas \ {r} : timer'[x] = timer[x]
  BY <1>1, <1>3, Tellings DEF TimersKept
<1>6. CASE started[r]
  <2>1. Posted(r, ShareMsg(r, state))
    BY <1>1, <1>3, <1>6, BroadcastPosts
  <2> QED BY <1>1, <1>2, <1>3, <1>4, <1>5, <1>6, <2>1 DEF Others
<1>7. CASE ~started[r]
  <2>1. starting'[r] = <<state>>
    BY <1>1, <1>2, <1>3, <1>7
  <2> QED BY <1>1, <1>2, <1>3, <1>4, <1>5, <1>7, <2>1 DEF Others
<1> QED BY <1>6, <1>7

LEMMA MarketsStartedActs ==
  ASSUME StepInv, NEW r \in Replicas, MarketsStarted(r), NEW state, state = Head(starting[r])
  PROVE  /\ Up(r) /\ Others(r) /\ starting[r] # <<>> /\ InRound(phase[r]) /\ ~started[r] /\ reloads[r] = <<>>
         /\ UNCHANGED <<life, buffer, reloads, internal>> /\ TimersKept(r)
         /\ starting'[r] = <<>> /\ started'[r] /\ phase'[r] = Released(phase[r])
         /\ running'[r] = SetDynamicConfig(internal[r], NormalizeState(r, state))
         /\ Posted(r, ShareMsg(r, state))
<1>1. /\ Up(r) /\ starting[r] # <<>> /\ starting' = [starting EXCEPT ![r] = Tail(starting[r])]
      /\ started' = [started EXCEPT ![r] = TRUE]
      /\ running' = [running EXCEPT ![r] = SetDynamicConfig(internal[r], NormalizeState(r, state))]
      /\ internal' = IF Tail(starting[r]) = <<>> THEN internal
                     ELSE [internal EXCEPT ![r] =
                             SetDynamicConfig(internal[r], NormalizeState(r, Head(Tail(starting[r]))))]
      /\ chan' = Broadcast(r, ShareMsg(r, state))
      /\ timer' = [timer EXCEPT ![r].PHASE = Off]
      /\ phase' = [phase EXCEPT ![r] = Released(phase[r])]
      /\ UNCHANGED <<life, buffer, members, reloads>>
  BY DEF MarketsStarted, Free, ShareAndRelease
<1>2. InRound(phase[r]) /\ Tail(starting[r]) = <<>> /\ ~started[r] /\ reloads[r] = <<>>
  BY <1>1, Stages
<1>3. /\ DOMAIN starting = Replicas /\ DOMAIN started = Replicas /\ DOMAIN running = Replicas
      /\ DOMAIN timer = Replicas /\ DOMAIN phase = Replicas
      /\ timer[r] \in [Timers -> Int] /\ ChanOK(chan)
  BY StepParts, LockParts
<1>4. TimersKept(r) /\ \A x \in Replicas \ {r} : timer'[x] = timer[x]
  BY <1>1, <1>3, Tellings DEF TimersKept
<1>5. Posted(r, ShareMsg(r, state))
  BY <1>1, <1>3, BroadcastPosts
<1> QED BY <1>1, <1>2, <1>3, <1>4, <1>5 DEF Others

\* A reload is called for.
Called(r, call) ==
  /\ reloads'[r] = Append(reloads[r], call)
  /\ internal'[r] = IF reloads[r] = <<>> THEN SetDynamicConfig(internal[r], call.config) ELSE internal[r]

LEMMA CallsReload ==
  ASSUME StepInv, NEW r \in Replicas, NEW by, NEW config, CallReload(r, by, config),
         NEW call, call = [by |-> by, config |-> config]
  PROVE  /\ Called(r, call)
         /\ \A x \in Replicas \ {r} : reloads'[x] = reloads[x] /\ internal'[x] = internal[x]
<1>1. DOMAIN reloads = Replicas /\ DOMAIN internal = Replicas
  BY StepParts
<1>2. /\ reloads' = [reloads EXCEPT ![r] = Append(reloads[r], call)]
      /\ internal' = IF reloads[r] = <<>>
                     THEN [internal EXCEPT ![r] = SetDynamicConfig(internal[r], config)] ELSE internal
  BY DEF CallReload
<1> QED BY <1>1, <1>2 DEF Called

\* Between the rounds nothing is starting.
LEMMA HandlersRunBetween ==
  ASSUME StepInv, NEW r \in Replicas, NEW by \in {"SHARE", "CLOSE"}, Up(r), phase[r].held = by
  PROVE  starting[r] = <<>>
<1>1. ~InRound(phase[r])
  BY Tellings DEF InRound
<1> QED BY <1>1, Stages

LEMMA HandleShareActs ==
  ASSUME StepInv, NEW r \in Replicas, HandleShare(r),
         NEW state, state = ShareState(r, buffer[r].SHARE, internal[r].rateLimitMultiplier),
         NEW call, call = [by |-> "SHARE", config |-> NormalizeState(r, state)]
  PROVE  /\ Up(r) /\ Others(r) /\ phase[r].held = "SHARE" /\ ~phase[r].entered /\ starting[r] = <<>>
         /\ UNCHANGED <<chan, starting, started, running>> /\ TimersKept(r)
         /\ buffer'[r].SHARE = <<>> /\ buffer'[r].STATUS = buffer[r].STATUS
         /\ \/ /\ UNCHANGED life /\ Called(r, call) /\ phase'[r] = [phase[r] EXCEPT !.entered = TRUE]
            \/ /\ UNCHANGED <<reloads, internal>> /\ phase'[r] = Released(phase[r])
               /\ \/ UNCHANGED life /\ state.rateLimitMultiplier = Null
                  \/ life'[r] = "failing"
<1>1. PICK reload \in BOOLEAN : reload <=> ShouldReload(state, members[r])
  OBVIOUS
<1>2. /\ Granted(r, "SHARE")
      /\ members' = IF reload THEN [members EXCEPT ![r] = UpdateState(members[r], state)] ELSE members
      /\ IF reload /\ Normalizable(state)
         THEN /\ CallReload(r, "SHARE", NormalizeState(r, state))
              /\ phase' = [phase EXCEPT ![r].entered = TRUE]
         ELSE phase' = [phase EXCEPT ![r] = Released(phase[r])] /\ UNCHANGED <<reloads, internal>>
      /\ IF reload /\ ~Normalizable(state) THEN Fail(r) ELSE UNCHANGED life
      /\ buffer' = [buffer EXCEPT ![r]["SHARE"] = <<>>]
      /\ UNCHANGED <<chan, timer, starting, started, running>>
  BY <1>1 DEF HandleShare
<1>3. /\ DOMAIN life = Replicas /\ DOMAIN members = Replicas /\ DOMAIN phase = Replicas
      /\ DOMAIN buffer = Replicas /\ DOMAIN buffer[r] = Buffered
  BY StepParts, LockParts
<1>4. Up(r) /\ phase[r].held = "SHARE" /\ ~phase[r].entered
  BY <1>2 DEF Granted
<1>5. starting[r] = <<>>
  BY <1>4, HandlersRunBetween
<1>6. /\ buffer'[r].SHARE = <<>> /\ buffer'[r].STATUS = buffer[r].STATUS
      /\ \A x \in Replicas \ {r} : buffer'[x] = buffer[x] /\ members'[x] = members[x]
  BY <1>2, <1>3, Tellings
<1>7. TimersKept(r)
  BY <1>2 DEF TimersKept
<1>8. CASE reload /\ Normalizable(state)
  <2>1. /\ Called(r, call)
        /\ \A x \in Replicas \ {r} : reloads'[x] = reloads[x] /\ internal'[x] = internal[x]
    BY <1>2, <1>8, CallsReload
  <2> QED BY <1>2, <1>3, <1>4, <1>5, <1>6, <1>7, <1>8, <2>1 DEF Others
<1>9. CASE ~(reload /\ Normalizable(state))
  <2>1. ~reload => state.rateLimitMultiplier = Null
    BY <1>1 DEF ShouldReload
  <2>2. \/ UNCHANGED life /\ state.rateLimitMultiplier = Null
        \/ life'[r] = "failing" /\ \A x \in Replicas \ {r} : life'[x] = life[x]
    BY <1>2, <1>3, <1>9, <2>1 DEF Fail
  <2> QED BY <1>2, <1>3, <1>4, <1>5, <1>6, <1>7, <1>9, <2>2 DEF Others
<1> QED BY <1>8, <1>9

LEMMA HandleCloseActs ==
  ASSUME StepInv, NEW r \in Replicas, HandleClose(r)
  PROVE  /\ Up(r) /\ Others(r) /\ phase[r].held = "CLOSE" /\ ~phase[r].entered /\ starting[r] = <<>>
         /\ UNCHANGED <<chan, starting, started, running>> /\ TimersKept(r)
         /\ buffer'[r].SHARE = buffer[r].SHARE /\ buffer'[r].STATUS = buffer[r].STATUS
         /\ \/ /\ UNCHANGED life /\ phase'[r] = [phase[r] EXCEPT !.entered = TRUE]
               /\ \E call : Called(r, call) /\ call.by = "CLOSE" /\ call.config.rateLimitMultiplier = Null
            \/ life'[r] = "failing"
<1>1. PICK left : left = RemoveClosed(r, buffer[r].CLOSE, members[r])
  OBVIOUS
<1>2. PICK call, config : /\ config = NormalizeState(r, CloseState(left))
                          /\ call = [by |-> "CLOSE", config |-> config]
  OBVIOUS
<1>3. /\ Granted(r, "CLOSE") /\ buffer' = [buffer EXCEPT ![r]["CLOSE"] = <<>>]
      /\ \/ /\ members' = [members EXCEPT ![r] = left] /\ CallReload(r, "CLOSE", config)
            /\ phase' = [phase EXCEPT ![r].entered = TRUE] /\ UNCHANGED life
         \/ /\ phase' = [phase EXCEPT ![r] = Released(phase[r])] /\ Fail(r)
            /\ UNCHANGED <<members, reloads, internal>>
      /\ UNCHANGED <<chan, timer, starting, started, running>>
  BY <1>1, <1>2 DEF HandleClose
<1>4. /\ DOMAIN life = Replicas /\ DOMAIN members = Replicas /\ DOMAIN phase = Replicas
      /\ DOMAIN buffer = Replicas /\ DOMAIN buffer[r] = Buffered
  BY StepParts, LockParts
<1>5. Up(r) /\ phase[r].held = "CLOSE" /\ ~phase[r].entered
  BY <1>3 DEF Granted
<1>6. starting[r] = <<>>
  BY <1>5, HandlersRunBetween
<1>7. /\ buffer'[r].SHARE = buffer[r].SHARE /\ buffer'[r].STATUS = buffer[r].STATUS
      /\ \A x \in Replicas \ {r} : buffer'[x] = buffer[x]
  BY <1>3, <1>4, Tellings
<1>8. TimersKept(r)
  BY <1>3 DEF TimersKept
<1>9. CASE UNCHANGED <<members, reloads, internal>> /\ Fail(r) /\ phase' = [phase EXCEPT ![r] = Released(phase[r])]
  <2>1. life'[r] = "failing" /\ \A x \in Replicas \ {r} : life'[x] = life[x] /\ phase'[x] = phase[x]
    BY <1>4, <1>9 DEF Fail
  <2> QED BY <1>3, <1>5, <1>6, <1>7, <1>8, <1>9, <2>1 DEF Others
<1>10. CASE /\ members' = [members EXCEPT ![r] = left] /\ CallReload(r, "CLOSE", config)
            /\ phase' = [phase EXCEPT ![r].entered = TRUE] /\ UNCHANGED life
  <2>1. /\ Called(r, call)
        /\ \A x \in Replicas \ {r} : reloads'[x] = reloads[x] /\ internal'[x] = internal[x]
    BY <1>2, <1>3, <1>10, CallsReload
  <2>2. call.by = "CLOSE" /\ call.config.rateLimitMultiplier = Null
    BY <1>2 DEF NormalizeState, CloseState
  <2> QED BY <1>3, <1>4, <1>5, <1>6, <1>7, <1>8, <1>10, <2>1, <2>2 DEF Others
<1> QED BY <1>3, <1>9, <1>10

LEMMA HandleRateLimitActs ==
  ASSUME StepInv, NEW r \in Replicas, HandleRateLimit(r)
  PROVE  /\ Up(r) /\ Others(r) /\ starting[r] = <<>>
         /\ UNCHANGED <<life, chan, buffer, timer, phase, starting, started, running>>
         /\ \/ UNCHANGED <<reloads, internal>>
            \/ \E call : /\ Called(r, call) /\ call.by = "BACKOFF"
                         /\ call.config.rateLimitMultiplier \in Nat
                         /\ call.config.rateLimitMultiplier > internal[r].rateLimitMultiplier
<1>1. PICK multiplier, config, call :
        /\ multiplier = Head(limits[r]) /\ call = [by |-> "BACKOFF", config |-> config]
        /\ config = [replicaSize |-> Null, instancePosition |-> Null,
                     rateLimitMultiplier |-> multiplier, clusterMembers |-> Null]
  OBVIOUS
<1>2. /\ Up(r) /\ backoff[r] = "idle" /\ limits[r] # <<>>
      /\ \/ multiplier > internal[r].rateLimitMultiplier /\ CallReload(r, "BACKOFF", config)
         \/ UNCHANGED <<reloads, internal>>
      /\ UNCHANGED <<life, chan, buffer, timer, phase, members, starting, started, running>>
  BY <1>1 DEF HandleRateLimit, Free, roundVars
<1>3. UpwardInv /\ started[r]
  <2>1. RiseOK(r)
    BY <1>2, StepParts, UpRises
  <2> QED BY <1>2, <2>1, StepParts DEF RiseOK, BackoffOK
<1>4. starting[r] = <<>>
  BY <1>2, <1>3, RestOfUp DEF RestOK, InStep
<1>5. CASE UNCHANGED <<reloads, internal>>
  BY <1>2, <1>4, <1>5 DEF Others
<1>6. CASE multiplier > internal[r].rateLimitMultiplier /\ CallReload(r, "BACKOFF", config)
  <2>1. /\ Called(r, call)
        /\ \A x \in Replicas \ {r} : reloads'[x] = reloads[x] /\ internal'[x] = internal[x]
    BY <1>1, <1>6, CallsReload
  <2>2. multiplier \in Nat
    <3>1. IsSeq(limits[r]) /\ Elements(limits[r]) \subseteq Positive
      BY <1>3 DEF UpwardInv, RateInv, RatedReplica
    <3>2. Elements(limits[r]) = {multiplier} \cup Elements(Tail(limits[r]))
      BY <1>1, <1>2, <3>1, ElementsTail
    <3> QED BY <3>1, <3>2 DEF Positive
  <2>3. call.by = "BACKOFF" /\ call.config.rateLimitMultiplier = multiplier
    BY <1>1
  <2> QED BY <1>2, <1>4, <1>6, <2>1, <2>2, <2>3 DEF Others
<1> QED BY <1>2, <1>5, <1>6

LEMMA ReloadedActs ==
  ASSUME StepInv, NEW r \in Replicas, Reloaded(r), NEW done, done = Head(reloads[r]),
         NEW rest, rest = Tail(reloads[r])
  PROVE  /\ Up(r) /\ Others(r) /\ reloads[r] # <<>>
         /\ UNCHANGED <<life, chan, buffer, starting, started>> /\ TimersKept(r)
         /\ reloads'[r] = rest
         /\ internal'[r] = IF rest = <<>> THEN internal[r]
                           ELSE SetDynamicConfig(internal[r], Head(rest).config)
         /\ running'[r] = IF running[r] = Null THEN Null ELSE SetDynamicConfig(running[r], done.config)
         /\ IF done.by = "BACKOFF" THEN phase'[r] = Acquired(phase[r], "CLUSTER")
            ELSE /\ phase[r].held \in {"SHARE", "CLOSE"} /\ phase[r].entered
                 /\ phase'[r] = Released(phase[r])
<1>1. /\ Up(r) /\ reloads[r] # <<>> /\ reloads' = [reloads EXCEPT ![r] = rest]
      /\ internal' = IF rest = <<>> THEN internal
                     ELSE [internal EXCEPT ![r] = SetDynamicConfig(internal[r], Head(rest).config)]
      /\ running' = IF running[r] = Null THEN running
                    ELSE [running EXCEPT ![r] = SetDynamicConfig(running[r], done.config)]
      /\ IF done.by = "BACKOFF"
         THEN phase' = [phase EXCEPT ![r] = Acquired(phase[r], "CLUSTER")] /\ UNCHANGED timer
         ELSE /\ phase' = [phase EXCEPT ![r] = Released(phase[r])]
              /\ timer' = [timer EXCEPT ![r].PHASE = Off]
      /\ UNCHANGED <<life, chan, buffer, members, starting, started>>
  BY DEF Reloaded, Free, NextReload
<1>2. /\ DOMAIN reloads = Replicas /\ DOMAIN internal = Replicas /\ DOMAIN running = Replicas
      /\ DOMAIN phase = Replicas /\ DOMAIN timer = Replicas
      /\ timer[r] \in [Timers -> Int] /\ IsSeq(reloads[r])
  BY StepParts, LockParts
<1>3. done.by # "BACKOFF" => phase[r].held \in {"SHARE", "CLOSE"} /\ phase[r].entered
  <2>1. Covered(phase[r], reloads[r])
    BY <1>1, StepParts, RoundOfUp
  <2>2. done = reloads[r][1] /\ 1 \in DOMAIN reloads[r]
    BY <1>1, <1>2, TailElements
  <2> QED BY <2>1, <2>2 DEF Covered
<1>4. TimersKept(r) /\ \A x \in Replicas \ {r} : timer'[x] = timer[x]
  BY <1>1, <1>2, Tellings DEF TimersKept
<1>5. /\ reloads'[r] = rest
      /\ internal'[r] = IF rest = <<>> THEN internal[r]
                        ELSE SetDynamicConfig(internal[r], Head(rest).config)
      /\ running'[r] = IF running[r] = Null THEN Null ELSE SetDynamicConfig(running[r], done.config)
      /\ \A x \in Replicas \ {r} : /\ reloads'[x] = reloads[x] /\ internal'[x] = internal[x]
                                   /\ running'[x] = running[x] /\ phase'[x] = phase[x]
  BY <1>1, <1>2
<1>6. IF done.by = "BACKOFF" THEN phase'[r] = Acquired(phase[r], "CLUSTER")
      ELSE phase'[r] = Released(phase[r])
  BY <1>1, <1>2
<1>7. Others(r)
  BY <1>1, <1>4, <1>5 DEF Others
<1> QED BY <1>1, <1>3, <1>4, <1>5, <1>6, <1>7

\* A message is taken from its queue, and perhaps answered.
Moved(r, s, msg, answer) ==
  /\ \A d, x \in Replicas : \A m \in Elements(chan[d][x]) :
       m \in Elements(chan'[d][x]) \/ (d = r /\ x = s /\ m = msg)
  /\ \A d, x \in Replicas : \A m \in Elements(chan'[d][x]) : m \in Elements(chan[d][x]) \/ m = answer

LEMMA DeliverActs ==
  ASSUME StepInv, NEW r \in Replicas, NEW s \in Replicas, Deliver(s, r),
         NEW msg, msg = Head(chan[r][s]),
         NEW answer, answer = StatusMsg(r, internal[r].rateLimitMultiplier)
  PROVE  /\ Up(r) /\ Others(r) /\ msg \in Elements(chan[r][s]) /\ msg.from = s
         /\ UNCHANGED <<life, phase, starting, started, reloads, internal, running>>
         /\ timer'[r].GREET = timer[r].GREET
         /\ Moved(r, s, msg, answer)
         /\ IF msg.type = "HELLO"
            THEN UNCHANGED <<buffer, timer>> /\ (Up(s) => answer \in Elements(chan'[s][r]))
            ELSE /\ msg.type \in Buffered /\ timer'[r][msg.type] # Off
                 /\ Elements(buffer'[r][msg.type]) = Elements(buffer[r][msg.type]) \cup {msg}
                 /\ \A t \in Buffered \ {msg.type} : buffer'[r][t] = buffer[r][t] /\ timer'[r][t] = timer[r][t]
<1>1. PICK c : c = Rest(r, s)
  BY SMTT(30)
<1>2. /\ Up(r) /\ chan[r][s] # <<>>
      /\ UNCHANGED <<life, phase, members, starting, started, reloads, internal, running>>
      /\ IF msg.type = "HELLO"
         THEN chan' = Send(c, r, s, answer) /\ UNCHANGED <<buffer, timer>>
         ELSE /\ chan' = c
              /\ buffer' = [buffer EXCEPT ![r][msg.type] = Append(buffer[r][msg.type], msg)]
              /\ timer' = [timer EXCEPT ![r][msg.type] = DebounceDelay(msg.type)]
  BY <1>1 DEF Deliver, Rest, Free, schedVars
<1>3. /\ ChanOK(chan) /\ MailInv /\ DOMAIN buffer = Replicas /\ DOMAIN timer = Replicas
      /\ timer[r] \in [Timers -> Int] /\ DOMAIN buffer[r] = Buffered /\ \A t \in Buffered : IsSeq(buffer[r][t])
  BY StepParts, LockParts, Domains
<1>4. /\ ChanOK(c) /\ \A d, x \in Replicas : d # r \/ x # s => c[d][x] = chan[d][x]
      /\ \A d, x \in Replicas : Elements(c[d][x]) \subseteq Elements(chan[d][x])
      /\ msg \in Elements(chan[r][s])
  <2>1. chan[r][s] # <<>> /\ ChanOK(chan) /\ msg = Head(chan[r][s]) /\ c = Rest(r, s)
    BY <1>1, <1>2, <1>3
  <2>2. ChanOK(c) /\ \A d, x \in Replicas : d # r \/ x # s => c[d][x] = chan[d][x]
    BY ONLY <2>1, r \in Replicas, s \in Replicas, RestEffect
  <2>3. /\ \A d, x \in Replicas : Elements(c[d][x]) \subseteq Elements(chan[d][x])
        /\ msg \in Elements(chan[r][s])
    BY ONLY <2>1, r \in Replicas, s \in Replicas, RestElements
  <2> QED BY SMTT(30), <2>2, <2>3
<1>5. \A d, x \in Replicas : \A m \in Elements(chan[d][x]) :
        m \in Elements(c[d][x]) \/ (d = r /\ x = s /\ m = msg)
  <2>1. c[r][s] = Tail(chan[r][s]) /\ IsSeq(chan[r][s])
    BY SMTT(30), <1>1, <1>3 DEF Rest, ChanOK
  <2>2. Elements(chan[r][s]) = {msg} \cup Elements(c[r][s])
    BY <1>2, <2>1, ElementsTail
  <2> QED BY <1>4, <2>2
<1>6. msg.from = s /\ msg.type \in MessageTypes
  <2>1. msg.type \in Types(chan[r][s])
    BY <1>4 DEF Elements, Types
  <2> QED BY <1>3, <1>4, <2>1 DEF MailInv, ChanMail, ChanOK
<1>7. CASE msg.type = "HELLO"
  <2>1. chan' = Send(c, r, s, answer) /\ UNCHANGED <<buffer, timer>>
    BY <1>2, <1>7
  <2>2. CASE Up(s)
    <3>1. DOMAIN c = Replicas /\ DOMAIN c[s] = Replicas /\ IsSeq(c[s][r])
      BY <1>4 DEF ChanOK
    <3>2. chan' = [c EXCEPT ![s][r] = Append(c[s][r], answer)]
      BY <2>1, <2>2 DEF Send
    <3>3. /\ chan'[s][r] = Append(c[s][r], answer)
          /\ \A d, x \in Replicas : d # s \/ x # r => chan'[d][x] = c[d][x]
      BY <3>1, <3>2
    <3>4. Elements(Append(c[s][r], answer)) = Elements(c[s][r]) \cup {answer}
      BY <3>1, ElementsAppend
    <3>5. /\ Elements(chan'[s][r]) = Elements(c[s][r]) \cup {answer}
          /\ \A d, x \in Replicas : d # s \/ x # r => Elements(chan'[d][x]) = Elements(c[d][x])
      BY <3>3, <3>4
    <3>6. /\ \A d, x \in Replicas : \A m \in Elements(chan[d][x]) :
               m \in Elements(chan'[d][x]) \/ (d = r /\ x = s /\ m = msg)
          /\ \A d, x \in Replicas : \A m \in Elements(chan'[d][x]) : m \in Elements(chan[d][x]) \/ m = answer
          /\ answer \in Elements(chan'[s][r])
      BY SMTT(30), <1>4, <1>5, <3>5
    <3>7. Moved(r, s, msg, answer)
      BY <3>6 DEF Moved
    <3> QED BY <1>2, <1>4, <1>6, <1>7, <2>1, <3>6, <3>7 DEF Others
  <2>3. CASE ~Up(s)
    <3>1. chan' = c
      BY <2>1, <2>3 DEF Send
    <3>2. Moved(r, s, msg, answer)
      BY <1>4, <1>5, <3>1 DEF Moved
    <3>3. Others(r)
      BY <1>2, <2>1 DEF Others
    <3> QED BY <1>2, <1>4, <1>6, <1>7, <2>1, <2>3, <3>2, <3>3
  <2> QED BY <2>2, <2>3
<1>8. CASE msg.type # "HELLO"
  <2>1. /\ chan' = c
        /\ buffer' = [buffer EXCEPT ![r][msg.type] = Append(buffer[r][msg.type], msg)]
        /\ timer' = [timer EXCEPT ![r][msg.type] = DebounceDelay(msg.type)]
    BY <1>2, <1>8
  <2>2. msg.type \in Buffered /\ msg.type \in Timers /\ Buffered \subseteq Timers
        /\ "GREET" \in Timers /\ msg.type # "GREET"
    BY SMTT(30), <1>6, <1>8 DEF MessageTypes, Timers, Buffered
  <2>3. /\ \A t \in Buffered \ {msg.type} : buffer'[r][t] = buffer[r][t]
        /\ \A x \in Replicas \ {r} : buffer'[x] = buffer[x]
    BY <1>3, <2>1, <2>2
  <2>4. /\ timer'[r][msg.type] = DebounceDelay(msg.type) /\ timer'[r].GREET = timer[r].GREET
        /\ \A t \in Buffered \ {msg.type} : timer'[r][t] = timer[r][t]
        /\ \A x \in Replicas \ {r} : timer'[x] = timer[x]
    BY <1>3, <2>1, <2>2
  <2>5. timer'[r][msg.type] # Off
    <3>1. {StatusDelay, ShareDelay, CloseDelay} \subseteq Nat
      BY DelaysAssumption
    <3> QED BY <2>4, <3>1 DEF DebounceDelay, Off
  <2>6. Elements(buffer'[r][msg.type]) = Elements(buffer[r][msg.type]) \cup {msg}
    <3>1. IsSeq(buffer[r][msg.type])
      BY SMTT(30), <1>3, <2>2
    <3>2. buffer'[r][msg.type] = Append(buffer[r][msg.type], msg)
      BY <1>3, <2>1, <2>2
    <3> QED BY ONLY <3>1, <3>2, ElementsAppend
  <2>7. /\ \A d, x \in Replicas : \A m \in Elements(chan[d][x]) :
             m \in Elements(chan'[d][x]) \/ (d = r /\ x = s /\ m = msg)
        /\ \A d, x \in Replicas : \A m \in Elements(chan'[d][x]) : m \in Elements(chan[d][x])
    BY SMTT(30), <1>4, <1>5, <2>1
  <2>8. Others(r)
    BY <1>2, <2>3, <2>4 DEF Others
  <2>9. Moved(r, s, msg, answer)
    BY <2>7 DEF Moved
  <2>10. Up(r) /\ UNCHANGED <<life, phase, starting, started, reloads, internal, running>>
    BY <1>2
  <2>11. \A t \in Buffered \ {msg.type} : buffer'[r][t] = buffer[r][t] /\ timer'[r][t] = timer[r][t]
    BY <2>3, <2>4
  <2>12. msg.type \in Buffered
    BY <2>2
  <2>13. msg \in Elements(chan[r][s]) /\ msg.from = s /\ timer'[r].GREET = timer[r].GREET
    BY <1>4, <1>6, <2>4
  <2> QED BY SMTT(30), <1>8, <2>5, <2>6, <2>8, <2>9, <2>10, <2>11, <2>12, <2>13
<1> QED BY <1>7, <1>8

\* The other steps only let replicas begin, fail, or wait for the lock.
Bides ==
  /\ UNCHANGED <<chan, buffer, starting, started, reloads, internal, running>>
  /\ \A x \in Replicas :
       /\ \/ life'[x] \in {life[x], "failing"}
          \/ life[x] = "off" /\ life'[x] = "up" /\ timer'[x].GREET # Off
       /\ \A who \in {"HELLO", "SHARE", "CLUSTER"} :
            /\ who \in Wanted(phase[x]) => who \in Wanted(phase'[x])
            /\ who \in Awaited(phase[x]) => who \in Awaited(phase'[x])
       /\ timer[x].GREET # Off => timer'[x].GREET # Off \/ "HELLO" \in Awaited(phase'[x])
       /\ timer[x].SHARE # Off => timer'[x].SHARE # Off \/ "SHARE" \in Awaited(phase'[x])

LEMMA AcquiringBides ==
  ASSUME StepInv, NEW r \in Replicas, NEW who \in {"HELLO", "SHARE", "CLOSE"},
         phase' = [phase EXCEPT ![r] = Acquired(phase[r], who)],
         timer' = timer \/ \E t \in {"GREET", "SHARE", "CLOSE"} :
                             timer' = [timer EXCEPT ![r][t] = Off] /\ (t = "GREET" => who = "HELLO")
                               /\ (t = "SHARE" => who = "SHARE"),
         UNCHANGED <<life, chan, buffer, starting, started, reloads, internal, running>>
  PROVE  Bides
<1>1. DOMAIN phase = Replicas /\ DOMAIN timer = Replicas /\ timer[r] \in [Timers -> Int]
  BY StepParts, LockParts
<1>2. phase'[r] = Acquired(phase[r], who) /\ \A x \in Replicas \ {r} : phase'[x] = phase[x]
  BY <1>1
<1>3. PICK q : q = phase'[r]
  OBVIOUS
<1>4. \A x \in {"HELLO", "SHARE", "CLUSTER"} :
        /\ x \in Wanted(q) <=> x \in Wanted(phase[r]) \/ x = who
        /\ x \in Awaited(q) <=> x \in Awaited(phase[r]) \/ x = who
  <2> TAKE x \in {"HELLO", "SHARE", "CLUSTER"}
  <2>1. x # "none"
    BY Tellings
  <2> QED BY <1>2, <1>3, <2>1, LockParts, AcquiredWants
<1>5. \A x \in Replicas \ {r} : timer'[x] = timer[x]
  BY <1>1
<1>6. /\ timer[r].GREET # Off => timer'[r].GREET # Off \/ who = "HELLO"
      /\ timer[r].SHARE # Off => timer'[r].SHARE # Off \/ who = "SHARE"
  <2>1. {"GREET", "SHARE", "CLOSE"} \subseteq Timers
    BY DEF Timers, Buffered
  <2>2. ASSUME NEW t \in {"GREET", "SHARE", "CLOSE"}, timer' = [timer EXCEPT ![r][t] = Off]
        PROVE  \A u \in {"GREET", "SHARE"} : u # t => timer'[r][u] = timer[r][u]
    BY <1>1, <2>1, <2>2
  <2> QED BY <2>1, <2>2
<1> QED BY <1>2, <1>3, <1>4, <1>5, <1>6 DEF Bides

LEMMA BootBides ==
  ASSUME StepInv, NEW r \in Replicas, Boot(r)
  PROVE  Bides
<1>1. /\ life[r] = "off" /\ life' = [life EXCEPT ![r] = "up"]
      /\ timer' = [timer EXCEPT ![r].GREET = InitDelay]
      /\ UNCHANGED <<phase, chan, buffer, starting, started, reloads, internal, running>>
  BY DEF Boot, schedVars
<1>2. DOMAIN life = Replicas /\ DOMAIN timer = Replicas /\ timer[r] \in [Timers -> Int]
  BY StepParts, LockParts
<1>3. InitDelay # Off
  <2>1. InitDelay \in Nat
    BY DelaysAssumption
  <2> QED BY <2>1 DEF Off
<1>4. /\ life'[r] = "up" /\ timer'[r].GREET = InitDelay /\ timer'[r].SHARE = timer[r].SHARE
      /\ \A x \in Replicas \ {r} : life'[x] = life[x] /\ timer'[x] = timer[x]
  BY <1>1, <1>2, Tellings
<1> QED BY <1>1, <1>3, <1>4 DEF Bides

LEMMA TickBides ==
  ASSUME StepInv, Tick
  PROVE  Bides
<1>1. UNCHANGED <<life, phase, chan, buffer, starting, started, reloads, internal, running>>
  BY DEF Tick, schedVars
<1>2. ASSUME NEW x \in Replicas, NEW t \in {"GREET", "SHARE"}, timer[x][t] # Off
      PROVE  timer'[x][t] # Off
  <2>1. timer[x] \in [Timers -> Int] /\ t \in Timers
    BY LockParts, Tellings
  <2>2. timer'[x][t] = IF timer[x][t] > 0 THEN timer[x][t] - 1 ELSE timer[x][t]
    BY <2>1 DEF Tick
  <2>3. timer[x][t] \in Int
    BY <2>1
  <2> QED BY <1>2, <2>2, <2>3 DEF Off
<1> QED BY <1>1, <1>2 DEF Bides

Prepares(r) == Boot(r) \/ Resync(r) \/ RateLimitExceeded(r) \/ Greet(r) \/ ShareDue(r) \/ CloseDue(r)
               \/ PhaseTimeout(r) \/ BackoffStart(r)

LEMMA OthersBide ==
  ASSUME StepInv, NEW r \in Replicas, Prepares(r)
  PROVE  Bides
<1>1. ~PhaseTimeout(r)
  BY StepParts, PhaseTimeoutRound
<1>2. CASE Resync(r)
  <2>1. /\ phase' = [phase EXCEPT ![r] = Acquired(phase[r], "HELLO")]
        /\ UNCHANGED <<timer, life, chan, buffer, starting, started, reloads, internal, running>>
    BY <1>2 DEF Resync, schedVars
  <2>2. "HELLO" \in {"HELLO", "SHARE", "CLOSE"}
    OBVIOUS
  <2> QED BY <2>1, <2>2, AcquiringBides
<1>3. ASSUME NEW t, NEW who, AwaitPhase(r, t, who)
      PROVE  /\ phase' = [phase EXCEPT ![r] = Acquired(phase[r], who)]
             /\ timer' = [timer EXCEPT ![r][t] = Off]
             /\ UNCHANGED <<life, chan, buffer, starting, started, reloads, internal, running>>
  BY <1>3 DEF AwaitPhase, schedVars
<1>4. CASE Greet(r)
  <2>1. AwaitPhase(r, "GREET", "HELLO") /\ "GREET" # "SHARE" /\ "GREET" \in {"GREET", "SHARE", "CLOSE"}
        /\ "HELLO" \in {"HELLO", "SHARE", "CLOSE"}
    BY <1>4 DEF Greet
  <2> QED BY <1>3, <2>1, AcquiringBides
<1>5. CASE ShareDue(r)
  <2>1. AwaitPhase(r, "SHARE", "SHARE") /\ "GREET" # "SHARE" /\ "SHARE" \in {"GREET", "SHARE", "CLOSE"}
        /\ "SHARE" \in {"HELLO", "SHARE", "CLOSE"}
    BY <1>5 DEF ShareDue
  <2> QED BY <1>3, <2>1, AcquiringBides
<1>6. CASE CloseDue(r)
  <2>1. AwaitPhase(r, "CLOSE", "CLOSE") /\ "CLOSE" \notin {"GREET", "SHARE"}
        /\ "CLOSE" \in {"GREET", "SHARE", "CLOSE"} /\ "CLOSE" \in {"HELLO", "SHARE", "CLOSE"}
    BY <1>6 DEF CloseDue
  <2> QED BY <1>3, <2>1, AcquiringBides
<1>7. CASE RateLimitExceeded(r)
  <2>1. /\ life' = life \/ Fail(r)
        /\ UNCHANGED <<phase, timer, chan, buffer, starting, started, reloads, internal, running>>
    BY <1>7 DEF RateLimitExceeded, roundVars
  <2>2. \A x \in Replicas : life'[x] \in {life[x], "failing"}
    <3>1. DOMAIN life = Replicas
      BY StepParts
    <3> QED BY <2>1, <3>1 DEF Fail
  <2> QED BY <2>1, <2>2 DEF Bides
<1>8. CASE BackoffStart(r)
  <2>1. UNCHANGED <<life, phase, timer, chan, buffer, starting, started, reloads, internal, running>>
    BY <1>8 DEF BackoffStart, roundVars
  <2> QED BY <2>1 DEF Bides
<1> QED BY <1>1, <1>2, <1>4, <1>5, <1>6, <1>7, <1>8, BootBides DEF Prepares

LEMMA BidesRest ==
  ASSUME StepInv, Bides
  PROVE  RestInv'
<1> SUFFICES ASSUME NEW x \in Replicas, life'[x] \in {"off", "up"} PROVE RestOK(x)'
  BY DEF RestInv
<1>1. /\ \/ life'[x] = life[x]
         \/ life[x] = "off" /\ life'[x] = "up" /\ timer'[x].GREET # Off
      /\ RestOK(x)
  BY DEF Bides, StepInv, RestInv
<1>2. "HELLO" \in Awaited(phase'[x]) => "HELLO" \in Wanted(phase'[x])
  BY DEF Awaited, Wanted
<1>3. Launched(x) => Launched(x)'
  BY <1>2 DEF Bides, Launched
<1>4. Heeding(x) => Heeding(x)'
  BY DEF Bides, Heeding
<1>5. timer'[x].GREET # Off => Launched(x)'
  BY DEF Launched
<1> QED BY <1>1, <1>3, <1>4, <1>5 DEF Bides, RestOK, Up, InStep

LEMMA ReleasedRest ==
  ASSUME StepInv, NEW r \in Replicas, Up(r), phase'[r] = Released(phase[r]),
         TimersKept(r), phase[r].held # "HELLO" \/ started'[r],
         started[r] => started'[r],
         phase[r].entered \/ phase[r].held # "SHARE" \/ buffer'[r].SHARE = <<>>,
         buffer'[r].SHARE \in {<<>>, buffer[r].SHARE}
  PROVE  /\ Up(r)' /\ ~started'[r] => Launched(r)'
         /\ Heeding(r)'
<1>1. phase[r] \in LockType /\ RestOK(r)
  BY LockParts, RestOfUp
<1>2. \A x \in {"HELLO", "SHARE"} :
        /\ x \in Wanted(phase'[r]) <=> x \in Elements(phase[r].queue)
        /\ x \in Awaited(phase'[r]) <=> x \in Elements(phase[r].queue)
  <2> TAKE x \in {"HELLO", "SHARE"}
  <2>1. x # "none"
    BY Tellings
  <2> QED BY <1>1, <2>1, ReleasedWants
<1>3. Up(r)' /\ ~started'[r] => Launched(r)'
  BY <1>1, <1>2 DEF RestOK, Launched, Wanted, TimersKept
<1>4. Heeding(r)'
  BY <1>1, <1>2 DEF RestOK, Heeding, Awaited, TimersKept
<1> QED BY <1>3, <1>4

LEMMA EnteredRest ==
  ASSUME StepInv, NEW r \in Replicas, Up(r), ~phase[r].entered,
         phase'[r] = [phase[r] EXCEPT !.entered = TRUE], TimersKept(r), started'[r] = started[r],
         (phase[r].held # "SHARE" /\ buffer'[r].SHARE = buffer[r].SHARE) \/ buffer'[r].SHARE = <<>>
  PROVE  /\ Up(r)' /\ ~started'[r] => Launched(r)'
         /\ Heeding(r)'
<1>1. phase[r] \in LockType /\ RestOK(r)
  BY LockParts, RestOfUp
<1>2. PICK q : q = phase'[r]
  OBVIOUS
<1>3. \A x : /\ x \in Wanted(q) <=> x \in Wanted(phase[r])
             /\ x \in Awaited(q) <=> x \in Elements(phase[r].queue)
  BY <1>1, <1>2, EnteredWants
<1>4. Up(r)' /\ ~started'[r] => Launched(r)'
  BY <1>1, <1>2, <1>3 DEF RestOK, Launched, TimersKept
<1>5. Heeding(r)'
  BY <1>1, <1>2, <1>3 DEF RestOK, Heeding, Awaited, TimersKept
<1> QED BY <1>4, <1>5

LEMMA SayHelloRest ==
  ASSUME StepInv, NEW r \in Replicas, NEW who \in Round, SayHello(r, who)
  PROVE  RestInv'
<1>1. /\ Up(r) /\ Others(r) /\ phase[r].held = who /\ ~phase[r].entered
      /\ UNCHANGED <<life, buffer, starting, started, reloads, internal, running>>
      /\ phase'[r] = [phase[r] EXCEPT !.entered = TRUE] /\ TimersKept(r)
  BY SayHelloActs
<1>2. /\ Up(r)' /\ ~started'[r] => Launched(r)'
      /\ Heeding(r)'
  <2>1. who # "SHARE"
    BY Tellings
  <2> QED BY <1>1, <2>1, EnteredRest
<1>3. RestOK(r)
  BY <1>1, RestOfUp
<1>4. RestOK(r)'
  BY <1>1, <1>2, <1>3 DEF RestOK, InStep
<1> QED BY <1>1, <1>4, RestStep DEF StepInv

LEMMA StatusDueRest ==
  ASSUME StepInv, NEW r \in Replicas, StatusDue(r)
  PROVE  RestInv'
<1>1. PICK state : state = AggregateState(r, buffer[r].STATUS)
  OBVIOUS
<1>2. /\ Up(r) /\ Others(r) /\ InRound(phase[r]) /\ starting[r] = <<>>
      /\ UNCHANGED <<life, started, reloads, running>> /\ TimersKept(r)
      /\ buffer'[r].SHARE = buffer[r].SHARE
      /\ IF started[r]
         THEN phase'[r] = Released(phase[r]) /\ UNCHANGED <<starting, internal>>
         ELSE /\ internal'[r] = SetDynamicConfig(internal[r], NormalizeState(r, state))
              /\ starting'[r] = <<state>> /\ UNCHANGED phase
  BY <1>1, StatusDueActs
<1>3. RestOK(r) /\ UpwardInv
  BY <1>2, RestOfUp, StepParts
<1>4. CASE started[r]
  <2>1. Heeding(r)'
    BY <1>2, <1>4, ReleasedRest DEF InRound
  <2>2. RestOK(r)'
    BY <1>2, <1>3, <1>4, <2>1 DEF RestOK, InStep, Up
  <2> QED BY <1>2, <2>2, RestStep DEF StepInv
<1>5. CASE ~started[r]
  <2>1. reloads[r] = <<>>
    BY <1>2, <1>3, <1>5, NothingReloaded
  <2>2. DOMAIN internal[r] = ConfigFields
    BY <1>2, StepParts, PlaceOfUp DEF Settled, Scheduled, InPlace
  <2>3. PICK new, todo, config : /\ new = internal'[r] /\ todo = starting'[r]
                                 /\ config = NormalizeState(r, state)
    OBVIOUS
  <2>4. SetDynamicConfig(new, config) = new
    BY <1>2, <1>5, <2>2, <2>3, SetTwice
  <2>5. Head(todo) = state
    BY <1>2, <1>5, <2>3
  <2>6. starting'[r] # <<>> => Told(internal'[r], NormalizeState(r, Head(starting'[r])))
    BY <2>3, <2>4, <2>5 DEF Told
  <2>7. Launched(r)' /\ Heeding(r)'
    BY <1>2, <1>3, <1>5 DEF RestOK, Launched, Heeding, TimersKept
  <2>8. RestOK(r)'
    BY <1>2, <1>5, <2>1, <2>6, <2>7 DEF RestOK, Up
  <2> QED BY <1>2, <2>8, RestStep DEF StepInv
<1> QED BY <1>4, <1>5

LEMMA MarketsStartedRest ==
  ASSUME StepInv, NEW r \in Replicas, MarketsStarted(r)
  PROVE  RestInv'
<1>1. PICK state, config : state = Head(starting[r]) /\ config = NormalizeState(r, state)
  OBVIOUS
<1>2. /\ Up(r) /\ Others(r) /\ starting[r] # <<>> /\ InRound(phase[r]) /\ reloads[r] = <<>>
      /\ UNCHANGED <<life, buffer, reloads, internal>> /\ TimersKept(r)
      /\ starting'[r] = <<>> /\ started'[r] /\ phase'[r] = Released(phase[r])
      /\ running'[r] = SetDynamicConfig(internal[r], config)
  BY <1>1, MarketsStartedActs
<1>3. RestOK(r) /\ TypeInv
  BY <1>2, RestOfUp, StepParts
<1>4. running'[r] = internal[r]
  BY <1>1, <1>2, <1>3 DEF RestOK, Told
<1>5. Heeding(r)'
  BY <1>2, ReleasedRest DEF InRound
<1>6. internal[r].clusterMembers # Null /\ internal[r] # Null
  <2>1. internal[r] \in Config(Windows)
    BY <1>3 DEF TypeInv, SetConfigs
  <2>2. config.clusterMembers # Null
    <3>1. config.clusterMembers = IdentityIntervals(state.clusterMembers)
      BY <1>1 DEF NormalizeState
    <3>2. state \in State
      <4>1. starting[r] \in Seq(State)
        BY <1>3 DEF TypeInv, SetConfigs
      <4> QED BY <1>1, <1>2, <4>1
    <3>3. state.clusterMembers \in Seq(Entry(Multipliers)) /\ Multipliers \in SUBSET Nat
      BY <3>2, TypeNames DEF StateOf
    <3>4. config.clusterMembers \in Windows
      BY <3>1, <3>3, IntervalsAreNumbers
    <3> QED BY <3>4, WindowIsOne
  <2>3. internal[r].clusterMembers # Null
    BY <1>2, <1>4, <2>1, <2>2, WindowKept
  <2> QED BY <2>1, <2>3, Configured
<1>7. RestOK(r)'
  BY <1>2, <1>4, <1>5, <1>6 DEF RestOK, InStep, Up
<1> QED BY <1>2, <1>7, RestStep DEF StepInv

LEMMA HeadOfAppend ==
  ASSUME NEW q, IsSeq(q), NEW m, NEW new, new = Append(q, m)
  PROVE  /\ new # <<>> /\ Head(new) = IF q = <<>> THEN m ELSE Head(q)
         /\ Elements(new) = Elements(q) \cup {m}
<1>1. /\ IsSeq(new) /\ Len(q) \in Nat /\ DOMAIN q = 1..Len(q)
      /\ DOMAIN new = DOMAIN q \cup {Len(q) + 1}
      /\ \A i \in DOMAIN q : new[i] = q[i]
      /\ new[Len(q) + 1] = m
  BY AppendElements
<1>2. new # <<>>
  <2>1. Len(q) + 1 \in DOMAIN new
    BY <1>1
  <2> QED BY <2>1
<1>3. Head(new) = new[1]
  BY <1>1, <1>2, TailElements
<1>4. Elements(new) = Elements(q) \cup {m}
  BY ElementsAppend
<1>5. Head(new) = IF q = <<>> THEN m ELSE Head(q)
  <2>1. CASE q = <<>>
    <3>1. Len(q) + 1 = 1
      BY <2>1
    <3> QED BY <1>1, <1>3, <2>1, <3>1
  <2>2. CASE q # <<>>
    <3>1. Head(q) = q[1] /\ 1 \in DOMAIN q
      BY <2>2, TailElements
    <3> QED BY <1>1, <1>3, <2>2, <3>1
  <2> QED BY <2>1, <2>2
<1> QED BY <1>2, <1>4, <1>5

LEMMA CalledRest ==
  ASSUME StepInv, NEW r \in Replicas, Up(r), Others(r), NEW call, Called(r, call), starting[r] = <<>>,
         UNCHANGED <<life, starting, started, running>>, ~started[r] => Launched(r)', Heeding(r)'
  PROVE  RestInv'
<1>1. RestOK(r) /\ IsSeq(reloads[r])
  BY RestOfUp, LockParts
<1>2. PICK calls, new : calls = reloads'[r] /\ new = internal'[r]
  OBVIOUS
<1>3. calls # <<>> /\ Head(calls) = IF reloads[r] = <<>> THEN call ELSE Head(reloads[r])
  BY <1>1, <1>2, HeadOfAppend DEF Called
<1>4. Told(new, Head(calls).config)
  <2>1. CASE reloads[r] = <<>>
    <3>1. DOMAIN internal[r] = ConfigFields
      BY StepParts, PlaceOfUp DEF Settled, Scheduled, InPlace
    <3>2. new = SetDynamicConfig(internal[r], call.config)
      BY <1>2, <2>1 DEF Called
    <3>3. SetDynamicConfig(new, call.config) = new
      BY <3>1, <3>2, SetTwice
    <3> QED BY <1>3, <2>1, <3>3 DEF Told
  <2>2. CASE reloads[r] # <<>>
    <3>1. new = internal[r]
      BY <1>2, <2>2 DEF Called
    <3> QED BY <1>1, <1>3, <2>2, <3>1 DEF RestOK
  <2> QED BY <2>1, <2>2
<1>5. started[r] => InStep(r)'
  <2> SUFFICES ASSUME started[r] PROVE InStep(r)'
    OBVIOUS
  <2>1. InStep(r)
    BY <1>1 DEF RestOK
  <2>2. new = SetDynamicConfig(running[r], Head(calls).config)
    BY <1>2, <1>3, <2>1 DEF InStep, Called
  <2> QED BY <1>2, <1>3, <2>1, <2>2 DEF InStep
<1>6. RestOK(r)'
  BY <1>2, <1>4, <1>5 DEF RestOK, Up
<1> QED BY <1>6, RestStep DEF StepInv

LEMMA HandleShareRest ==
  ASSUME StepInv, NEW r \in Replicas, HandleShare(r)
  PROVE  RestInv'
<1>1. PICK state, call : /\ state = ShareState(r, buffer[r].SHARE, internal[r].rateLimitMultiplier)
                         /\ call = [by |-> "SHARE", config |-> NormalizeState(r, state)]
  OBVIOUS
<1>2. /\ Up(r) /\ Others(r) /\ phase[r].held = "SHARE" /\ ~phase[r].entered /\ starting[r] = <<>>
      /\ UNCHANGED <<chan, starting, started, running>> /\ TimersKept(r)
      /\ buffer'[r].SHARE = <<>>
      /\ \/ UNCHANGED life /\ Called(r, call) /\ phase'[r] = [phase[r] EXCEPT !.entered = TRUE]
         \/ /\ UNCHANGED <<reloads, internal>> /\ phase'[r] = Released(phase[r])
            /\ (UNCHANGED life \/ life'[r] = "failing")
  BY <1>1, HandleShareActs
<1>3. CASE UNCHANGED life /\ Called(r, call) /\ phase'[r] = [phase[r] EXCEPT !.entered = TRUE]
  <2>1. /\ Up(r)' /\ ~started'[r] => Launched(r)'
        /\ Heeding(r)'
    BY <1>2, <1>3, EnteredRest
  <2> QED BY <1>2, <1>3, <2>1, CalledRest DEF Up
<1>4. CASE life'[r] = "failing"
  BY <1>2, <1>4, RestStep DEF StepInv
<1>5. CASE UNCHANGED <<reloads, internal, life>> /\ phase'[r] = Released(phase[r])
  <2>1. /\ Up(r)' /\ ~started'[r] => Launched(r)'
        /\ Heeding(r)'
    BY <1>2, <1>5, ReleasedRest
  <2>2. RestOK(r)
    BY <1>2, RestOfUp
  <2>3. RestOK(r)'
    BY <1>2, <1>5, <2>1, <2>2 DEF RestOK, InStep, Up
  <2> QED BY <1>2, <2>3, RestStep DEF StepInv
<1> QED BY <1>2, <1>3, <1>4, <1>5

LEMMA HandleCloseRest ==
  ASSUME StepInv, NEW r \in Replicas, HandleClose(r)
  PROVE  RestInv'
<1>1. /\ Up(r) /\ Others(r) /\ phase[r].held = "CLOSE" /\ ~phase[r].entered /\ starting[r] = <<>>
      /\ UNCHANGED <<chan, starting, started, running>> /\ TimersKept(r)
      /\ buffer'[r].SHARE = buffer[r].SHARE
      /\ \/ /\ UNCHANGED life /\ phase'[r] = [phase[r] EXCEPT !.entered = TRUE]
            /\ \E call : Called(r, call)
         \/ life'[r] = "failing"
  BY HandleCloseActs
<1>2. ASSUME NEW call, UNCHANGED life, phase'[r] = [phase[r] EXCEPT !.entered = TRUE], Called(r, call)
      PROVE  RestInv'
  <2>1. /\ Up(r)' /\ ~started'[r] => Launched(r)'
        /\ Heeding(r)'
    BY <1>1, <1>2, EnteredRest
  <2> QED BY <1>1, <1>2, <2>1, CalledRest DEF Up
<1>3. CASE life'[r] = "failing"
  BY <1>1, <1>3, RestStep DEF StepInv
<1> QED BY <1>1, <1>2, <1>3

LEMMA HandleRateLimitRest ==
  ASSUME StepInv, NEW r \in Replicas, HandleRateLimit(r)
  PROVE  RestInv'
<1>1. /\ Up(r) /\ Others(r) /\ starting[r] = <<>>
      /\ UNCHANGED <<life, chan, buffer, timer, phase, starting, started, running>>
      /\ UNCHANGED <<reloads, internal>> \/ \E call : Called(r, call)
  BY HandleRateLimitActs
<1>2. RestOK(r)
  BY <1>1, RestOfUp
<1>3. /\ ~started[r] => Launched(r)'
      /\ Heeding(r)'
  BY <1>1, <1>2 DEF RestOK, Launched, Heeding
<1>4. CASE UNCHANGED <<reloads, internal>>
  <2>1. RestOK(r)'
    BY <1>1, <1>2, <1>4 DEF RestOK, Launched, Heeding, InStep, Up
  <2> QED BY <1>1, <2>1, RestStep DEF StepInv
<1> QED BY <1>1, <1>3, <1>4, CalledRest

LEMMA ReloadedRest ==
  ASSUME StepInv, NEW r \in Replicas, Reloaded(r)
  PROVE  RestInv'
<1>1. PICK done, rest : done = Head(reloads[r]) /\ rest = Tail(reloads[r])
  OBVIOUS
<1>2. /\ Up(r) /\ Others(r) /\ reloads[r] # <<>>
      /\ UNCHANGED <<life, chan, buffer, starting, started>> /\ TimersKept(r)
      /\ reloads'[r] = rest
      /\ internal'[r] = IF rest = <<>> THEN internal[r]
                        ELSE SetDynamicConfig(internal[r], Head(rest).config)
      /\ running'[r] = IF running[r] = Null THEN Null ELSE SetDynamicConfig(running[r], done.config)
      /\ IF done.by = "BACKOFF" THEN phase'[r] = Acquired(phase[r], "CLUSTER")
         ELSE /\ phase[r].held \in {"SHARE", "CLOSE"} /\ phase[r].entered
              /\ phase'[r] = Released(phase[r])
  BY <1>1, ReloadedActs
<1>3. RestOK(r) /\ TypeInv /\ phase[r] \in LockType
  BY <1>2, RestOfUp, StepParts, LockParts
<1>4. /\ ~started[r] => Launched(r)'
      /\ Heeding(r)'
  <2>1. CASE done.by = "BACKOFF"
    <3>1. PICK q : q = phase'[r]
      OBVIOUS
    <3>2. \A x \in {"HELLO", "SHARE"} : /\ x \in Wanted(phase[r]) => x \in Wanted(q)
                                        /\ x \in Awaited(phase[r]) => x \in Awaited(q)
      <4> TAKE x \in {"HELLO", "SHARE"}
      <4>1. x # "none"
        BY Tellings
      <4> QED BY <1>2, <2>1, <3>1, <4>1, LockParts, AcquiredWants
    <3> QED BY <1>2, <1>3, <3>1, <3>2 DEF RestOK, Launched, Heeding, TimersKept
  <2>2. CASE done.by # "BACKOFF"
    <3>1. phase[r].held # "HELLO" /\ phase[r].entered /\ phase'[r] = Released(phase[r])
      BY <1>2, <2>2
    <3> QED BY <1>2, <3>1, ReleasedRest DEF Up
  <2> QED BY <2>1, <2>2
<1>5. PICK new : new = internal'[r]
  OBVIOUS
<1>6. rest # <<>> => Told(new, Head(rest).config)
  <2> SUFFICES ASSUME rest # <<>> PROVE Told(new, Head(rest).config)
    OBVIOUS
  <2>1. DOMAIN internal[r] = ConfigFields
    BY <1>2, StepParts, PlaceOfUp DEF Settled, Scheduled, InPlace
  <2>2. PICK config : config = Head(rest).config
    OBVIOUS
  <2>3. SetDynamicConfig(new, config) = new
    BY <1>2, <1>5, <2>1, <2>2, SetTwice
  <2> QED BY <2>2, <2>3 DEF Told
<1>7. ~started[r] /\ starting'[r] # <<>> => Told(new, NormalizeState(r, Head(starting'[r])))
  <2>1. starting[r] # <<>> /\ ~started[r] => reloads[r] = <<>>
    BY <1>2, Stages
  <2> QED BY <1>2, <2>1
<1>8. started[r] => InStep(r)'
  <2> SUFFICES ASSUME started[r] PROVE InStep(r)'
    OBVIOUS
  <2>1. InStep(r)
    BY <1>3 DEF RestOK
  <2>2. running'[r] = internal[r]
    BY <1>1, <1>2, <2>1 DEF InStep
  <2>3. internal[r].clusterMembers # Null
    <3>1. running[r] \in Config(Windows)
      BY <1>3, <2>1 DEF TypeInv, SetConfigs, InStep
    <3> QED BY <1>1, <1>2, <2>1, <3>1, WindowKept DEF InStep
  <2>4. internal[r] # Null
    <3>1. internal[r] \in Config(Windows)
      BY <1>3 DEF TypeInv, SetConfigs
    <3> QED BY <2>3, <3>1, Configured
  <2> QED BY <1>2, <2>1, <2>2, <2>3, <2>4 DEF InStep
<1>9. RestOK(r)'
  <2>1. CASE started[r]
    <3>1. starting'[r] = <<>>
      BY <1>2, <1>3, <2>1 DEF RestOK, InStep
    <3> QED BY <1>2, <1>4, <1>5, <1>6, <1>8, <2>1, <3>1 DEF RestOK, Up
  <2>2. CASE ~started[r]
    BY <1>2, <1>4, <1>5, <1>6, <1>7, <2>2 DEF RestOK, Up
  <2> QED BY <2>1, <2>2
<1> QED BY <1>2, <1>9, RestStep DEF StepInv

LEMMA DeliverRest ==
  ASSUME StepInv, NEW r \in Replicas, NEW s \in Replicas, Deliver(s, r)
  PROVE  RestInv'
<1>1. PICK msg, answer : msg = Head(chan[r][s]) /\ answer = StatusMsg(r, internal[r].rateLimitMultiplier)
  OBVIOUS
<1>2. /\ Up(r) /\ Others(r)
      /\ UNCHANGED <<life, phase, starting, started, reloads, internal, running>>
      /\ timer'[r].GREET = timer[r].GREET
      /\ IF msg.type = "HELLO" THEN UNCHANGED <<buffer, timer>>
         ELSE /\ timer'[r][msg.type] # Off
              /\ \A t \in Buffered \ {msg.type} : buffer'[r][t] = buffer[r][t] /\ timer'[r][t] = timer[r][t]
  BY <1>1, DeliverActs
<1>3. RestOK(r)
  BY <1>2, RestOfUp
<1>4. Heeding(r)'
  <2>1. "SHARE" \in Buffered
    BY Tellings
  <2> QED BY <1>2, <1>3, <2>1 DEF RestOK, Heeding
<1>5. RestOK(r)'
  BY <1>2, <1>3, <1>4 DEF RestOK, Launched, InStep, Up
<1> QED BY <1>2, <1>5, RestStep DEF StepInv

LEMMA NextRest == StepInv /\ [Next]_vars => RestInv'
<1> SUFFICES ASSUME StepInv, [Next]_vars PROVE RestInv'
  OBVIOUS
<1>1. ASSUME NEW r \in Replicas, Stop(r) \/ Crash(r) PROVE RestInv'
  <2>1. /\ life' = [life EXCEPT ![r] = "gone"]
        /\ buffer' = [buffer EXCEPT ![r] = [t \in Buffered |-> <<>>]]
        /\ timer' = [timer EXCEPT ![r] = NoTimers] /\ phase' = [phase EXCEPT ![r] = FreePhase]
        /\ members' = [members EXCEPT ![r] = [l \in Lists |-> <<>>]]
        /\ starting' = [starting EXCEPT ![r] = <<>>] /\ started' = [started EXCEPT ![r] = FALSE]
        /\ reloads' = [reloads EXCEPT ![r] = <<>>] /\ internal' = [internal EXCEPT ![r] = DefaultConfig]
        /\ running' = [running EXCEPT ![r] = Null]
    BY <1>1 DEF Stop, Crash, Forget
  <2>2. Others(r) /\ life'[r] = "gone"
    BY <2>1, StepParts DEF Others
  <2> QED BY <2>2, RestStep DEF StepInv
<1>2. ASSUME NEW r \in Replicas, Lifecycle(r) PROVE RestInv'
  BY <1>1, <1>2, OthersBide, BidesRest DEF Lifecycle, Prepares
<1>3. ASSUME NEW r \in Replicas, Progress(r) PROVE RestInv'
  BY <1>3, Tellings, OthersBide, BidesRest, SayHelloRest, StatusDueRest, MarketsStartedRest, HandleShareRest,
     HandleCloseRest, HandleRateLimitRest, ReloadedRest, DeliverRest DEF Progress, Prepares
<1>4. CASE Tick
  BY <1>4, TickBides, BidesRest
<1>5. CASE UNCHANGED vars
  <2>1. UNCHANGED <<chan, buffer, starting, started, reloads, internal, running, life, timer, phase>>
    BY <1>5 DEF vars
  <2>2. Bides
    BY <2>1 DEF Bides
  <2> QED BY <2>2, BidesRest
<1> QED BY <1>2, <1>3, <1>4, <1>5 DEF Next

-----------------------------------------------------------------------------
(* How a multiplier spreads.                                                 *)

Level(r) == internal[r].rateLimitMultiplier
Raises(call, m) == call.config.rateLimitMultiplier # Null /\ call.config.rateLimitMultiplier >= m
Raised(r, m) == Level(r) >= m \/ \E call \in Elements(reloads[r]) : Raises(call, m)
BacksOff(r, m) == \E call \in Elements(reloads[r]) : call.by = "BACKOFF" /\ Raises(call, m)

\* Somebody runs with multiplier m, or will, and with it runs everybody in the end.
Held(m) == \E r \in Replicas : Up(r) /\ (Level(r) >= m \/ BacksOff(r, m))

\* r is about to tell everybody of m: it is backing off, or it has learnt of m in
\* its round ...
Brings(msgs, type, m) == \E msg \in Elements(msgs) : msg.type = type /\ msg.rateLimitMultiplier >= m
Own(r, m) ==
  \/ BacksOff(r, m)
  \/ Level(r) >= m /\ "CLUSTER" \in Awaited(phase[r])
  \/ Brings(buffer[r].STATUS, "STATUS", m)
  \/ starting[r] # <<>> /\ Head(starting[r]).rateLimitMultiplier >= m
\* ... or is going to.
Answers(r, m) == \E s \in Replicas : Brings(chan[r][s], "STATUS", m)
Inquires(r, m) ==
  \E s \in Replicas : Up(s) /\ Level(s) >= m /\ \E msg \in Elements(chan[s][r]) : msg.type = "HELLO"
Announces(r, m) == Up(r) /\ (Own(r, m) \/ Answers(r, m) \/ Inquires(r, m))

\* r runs with m, or will, as it has been told of m or has yet to ask.
ToGreet(r) == timer[r].GREET # Off \/ "HELLO" \in Awaited(phase[r])
Ready(r, m) == Raised(r, m) \/ Brings(buffer[r].SHARE, "SHARE", m) \/ ToGreet(r)
Coming(r, m) == \E s \in Replicas : Brings(chan[r][s], "SHARE", m)
Reached(r, m) == Ready(r, m) \/ Coming(r, m)

Spreads(m) ==
  \/ \E r \in Replicas : Announces(r, m)
  \/ \A r \in Replicas : Up(r) => Reached(r, m)
SpreadInv == Intact => \A m \in Nat : Held(m) => Spreads(m)

\* What is said of multipliers is true.
Heeded(r) ==
  {msg.rateLimitMultiplier : msg \in Elements(buffer[r].STATUS) \cup Elements(buffer[r].SHARE)
                                       \cup Elements(starting[r])}
    \cup ({call.config.rateLimitMultiplier : call \in Elements(reloads[r])} \ {Null})
SourceInv ==
  Intact => \A r \in Replicas :
    /\ \A s \in Replicas : \A msg \in Elements(chan[r][s]) :
         msg.type \in {"STATUS", "SHARE"} => Held(msg.rateLimitMultiplier)
    /\ \A m \in Heeded(r) : Held(m)

AgreeInv == StepInv /\ SourceInv /\ SpreadInv

\* Multipliers are numbers.
LEMMA Numbers ==
  ASSUME StepInv, NEW r \in Replicas
  PROVE  /\ Level(r) \in Nat /\ Level(r) >= 1 /\ Heeded(r) \subseteq Nat
         /\ \A s \in Replicas : \A msg \in Elements(chan[r][s]) :
              msg.type \in {"STATUS", "SHARE"} => msg.rateLimitMultiplier \in Nat
         /\ \A msg \in Elements(buffer[r].STATUS) \cup Elements(buffer[r].SHARE) : msg.rateLimitMultiplier \in Nat
         /\ \A state \in Elements(starting[r]) : state.rateLimitMultiplier \in Nat
         /\ \A call \in Elements(reloads[r]) : call.config.rateLimitMultiplier \in Nat \cup {Null}
<1>1. AllInv /\ UpwardInv /\ RateInv(Positive)
  BY StepParts DEF UpwardInv
<1>2. Level(r) \in Nat /\ Level(r) >= 1
  BY <1>1, OwnMultiplier DEF Level, Positive
<1>3. ASSUME NEW s \in Replicas, NEW msg \in Elements(chan[r][s]), msg.type \in {"STATUS", "SHARE"}
      PROVE  msg.rateLimitMultiplier \in Nat
  <2>1. msg \in Post(Positive)
    BY <1>1 DEF RateInv, RatedMail
  <2> QED BY <1>3, <2>1 DEF Post, Positive
<1>4. \A msg \in Elements(buffer[r].STATUS) \cup Elements(buffer[r].SHARE) : msg.rateLimitMultiplier \in Nat
  BY <1>1, BufferedRates DEF Positive
<1>5. \A state \in Elements(starting[r]) : state.rateLimitMultiplier \in Nat
  BY <1>1 DEF RateInv, RatedReplica, StateOf, Positive
<1>6. \A call \in Elements(reloads[r]) : call.config.rateLimitMultiplier \in Nat \cup {Null}
  BY <1>1 DEF RateInv, RatedReplica, Positive
<1>7. Heeded(r) \subseteq Nat
  BY <1>4, <1>5, <1>6 DEF Heeded
<1> QED BY <1>2, <1>3, <1>4, <1>5, <1>6, <1>7

\* What the step of r leaves as it is with the others.
LEMMA OthersSame ==
  ASSUME NEW r \in Replicas, Others(r), NEW x \in Replicas \ {r}, NEW m
  PROVE  /\ Up(x)' <=> Up(x) 
         /\ Level(x)' = Level(x)
         /\ BacksOff(x, m)' <=> BacksOff(x, m)
         /\ Own(x, m)' <=> Own(x, m)
         /\ Ready(x, m)' <=> Ready(x, m)
         /\ Heeded(x)' = Heeded(x)
<1>1. /\ life'[x] = life[x] /\ buffer'[x] = buffer[x] /\ timer'[x] = timer[x] /\ phase'[x] = phase[x]
      /\ starting'[x] = starting[x] /\ reloads'[x] = reloads[x] /\ internal'[x] = internal[x]
  BY DEF Others
<1>2. Up(x)' <=> Up(x)
  BY <1>1 DEF Up
<1>3. Level(x)' = Level(x)
  BY <1>1 DEF Level
<1>4. BacksOff(x, m)' <=> BacksOff(x, m)
  BY <1>1 DEF BacksOff
<1>5. Own(x, m)' <=> Own(x, m)
  BY <1>1, <1>3, <1>4 DEF Own
<1>6. Ready(x, m)' <=> Ready(x, m)
  BY <1>1, <1>3 DEF Ready, Raised, ToGreet
<1>7. Heeded(x)' = Heeded(x)
  BY <1>1 DEF Heeded
<1> QED BY <1>2, <1>3, <1>4, <1>5, <1>6, <1>7

\* Levels do not fall, and a backoff ends with its multiplier.
Levels(r) ==
  /\ life' = life /\ Others(r)
  /\ Level(r)' \in Nat /\ Level(r)' >= Level(r)
  /\ \A m \in Nat : BacksOff(r, m) => Level(r)' >= m \/ BacksOff(r, m)'

LEMMA LevelKept ==
  ASSUME StepInv, NEW r \in Replicas, Levels(r), NEW m \in Nat, NEW x \in Replicas
  PROVE  /\ Up(x)' <=> Up(x)
         /\ Level(x) >= m => Level(x)' >= m
<1>1. Level(x) \in Nat
  BY Numbers
<1>2. CASE x = r
  BY <1>1, <1>2 DEF Levels, Up
<1>3. CASE x # r
  BY <1>3, OthersSame DEF Levels
<1> QED BY <1>2, <1>3

LEMMA HeldKept ==
  ASSUME StepInv, NEW r \in Replicas, Levels(r), NEW m \in Nat, Held(m)
  PROVE  Held(m)'
<1>1. PICK x \in Replicas : Up(x) /\ (Level(x) >= m \/ BacksOff(x, m))
  BY DEF Held
<1>2. Up(x)' /\ (Level(x) >= m => Level(x)' >= m)
  BY <1>1, LevelKept
<1>3. BacksOff(x, m) => Level(x)' >= m \/ BacksOff(x, m)'
  <2>1. CASE x = r
    BY <2>1 DEF Levels
  <2>2. CASE x # r
    BY <2>2, OthersSame DEF Levels
  <2> QED BY <2>1, <2>2
<1> QED BY <1>1, <1>2, <1>3 DEF Held

\* What r hears of, and what it says, is true.
Truthful(r) ==
  /\ \A d, x \in Replicas : \A msg \in Elements(chan'[d][x]) :
       msg.type \in {"STATUS", "SHARE"} =>
         msg \in Elements(chan[d][x]) \/ Held(msg.rateLimitMultiplier)'
  /\ \A m \in Heeded(r)' : m \in Heeded(r) \/ Held(m)'

LEMMA SourceStep ==
  ASSUME AgreeInv, NEW r \in Replicas, Levels(r), Intact, Truthful(r)
  PROVE  SourceInv'
<1>1. StepInv /\ SourceInv
  BY DEF AgreeInv
<1>2. ASSUME NEW x \in Replicas, NEW s \in Replicas, NEW msg \in Elements(chan'[x][s]),
             msg.type \in {"STATUS", "SHARE"}
      PROVE  Held(msg.rateLimitMultiplier)'
  <2>1. CASE msg \in Elements(chan[x][s])
    <3>1. PICK m \in Nat : m = msg.rateLimitMultiplier
      BY <1>1, <1>2, <2>1, Numbers
    <3>2. Held(m)
      BY <1>1, <1>2, <2>1, <3>1 DEF SourceInv
    <3>3. Held(m)'
      BY <1>1, <3>2, HeldKept
    <3> QED BY <3>1, <3>3
  <2> QED BY <1>2, <2>1 DEF Truthful
<1>3. ASSUME NEW x \in Replicas, NEW m \in Heeded(x)' PROVE Held(m)'
  <2>1. CASE m \in Heeded(x)
    <3>1. m \in Nat /\ Held(m)
      BY <1>1, <2>1, Numbers DEF SourceInv
    <3> QED BY <1>1, <3>1, HeldKept
  <2>2. CASE m \notin Heeded(x)
    <3>1. x = r
      BY <1>3, <2>2, OthersSame DEF Levels
    <3> QED BY <1>3, <2>2, <3>1 DEF Truthful
  <2> QED BY <2>1, <2>2
<1> QED BY <1>2, <1>3 DEF SourceInv

\* News of m that are under way get there.
Carried(m) ==
  \A x \in Replicas : /\ Up(x) /\ (Answers(x, m) \/ Inquires(x, m)) => Announces(x, m)'
                      /\ Up(x) /\ Coming(x, m) => Reached(x, m)'
\* r spreads m as it should.
Passed(r, m) ==
  /\ Level(r)' >= m => Held(m) \/ BacksOff(r, m)'
  /\ Own(r, m) => Announces(r, m)' \/ Spreads(m)'
  /\ Held(m) /\ Ready(r, m) => Reached(r, m)' \/ Spreads(m)'

LEMMA SpreadStep ==
  ASSUME AgreeInv, NEW r \in Replicas, Up(r), Levels(r), Intact,
         \A m \in Nat : Carried(m) /\ Passed(r, m)
  PROVE  SpreadInv'
<1> SUFFICES ASSUME NEW m \in Nat, Held(m)' PROVE Spreads(m)'
  BY DEF SpreadInv
<1>1. StepInv /\ SpreadInv /\ Others(r) /\ (Up(r)' <=> Up(r))
  BY DEF AgreeInv, Levels, Up
<1>2. BacksOff(r, m)' => Spreads(m)'
  BY <1>1 DEF Announces, Own, Spreads
<1>3. CASE Held(m)
  <2>1. Spreads(m)
    BY <1>1, <1>3 DEF SpreadInv
  <2>2. ASSUME NEW x \in Replicas, Announces(x, m) PROVE Spreads(m)'
    <3>1. Up(x) /\ (Own(x, m) \/ Answers(x, m) \/ Inquires(x, m))
      BY <2>2 DEF Announces
    <3>2. CASE Answers(x, m) \/ Inquires(x, m)
      <4>1. Announces(x, m)'
        BY <3>1, <3>2 DEF Carried
      <4> QED BY <4>1 DEF Spreads
    <3>3. CASE Own(x, m) /\ x = r
      <4>1. Announces(r, m)' \/ Spreads(m)'
        BY <3>3 DEF Passed
      <4> QED BY <4>1 DEF Spreads
    <3>4. CASE Own(x, m) /\ x # r
      <4>1. Up(x)' /\ Own(x, m)'
        BY <1>1, <3>1, <3>4, OthersSame
      <4> QED BY <4>1 DEF Announces, Spreads
    <3> QED BY <3>1, <3>2, <3>3, <3>4
  <2>3. ASSUME \A x \in Replicas : Up(x) => Reached(x, m) PROVE Spreads(m)'
    <3>1. ASSUME NEW x \in Replicas, Up(x)' PROVE Reached(x, m)' \/ Spreads(m)'
      <4>1. Up(x)
        BY <1>1, <3>1, OthersSame
      <4>2. CASE Coming(x, m)
        BY <4>1, <4>2 DEF Carried
      <4>3. CASE Ready(x, m) /\ x = r
        BY <1>3, <4>3 DEF Passed
      <4>4. CASE Ready(x, m) /\ x # r
        <5>1. Ready(x, m)'
          BY <1>1, <4>4, OthersSame
        <5> QED BY <5>1 DEF Reached
      <4>5. Ready(x, m) \/ Coming(x, m)
        BY <2>3, <4>1 DEF Reached
      <4> QED BY <4>2, <4>3, <4>4, <4>5
    <3> QED BY <3>1 DEF Spreads
  <2> QED BY <2>1, <2>2, <2>3 DEF Spreads
<1>4. CASE ~Held(m)
  <2>1. PICK x \in Replicas : Up(x)' /\ (Level(x)' >= m \/ BacksOff(x, m)')
    BY DEF Held
  <2>2. x = r
    BY <1>1, <1>4, <2>1, OthersSame DEF Held
  <2>3. BacksOff(r, m)'
    BY <1>4, <2>1, <2>2 DEF Passed
  <2> QED BY <1>2, <2>3
<1> QED BY <1>3, <1>4

\* A step that takes nothing from the queues.
LEMMA MailCarries ==
  ASSUME StepInv, NEW r \in Replicas, Levels(r), NEW m \in Nat,
         \A d, x \in Replicas : Elements(chan[d][x]) \subseteq Elements(chan'[d][x])
  PROVE  Carried(m)
<1> SUFFICES ASSUME NEW x \in Replicas, Up(x)
             PROVE  /\ Answers(x, m) \/ Inquires(x, m) => Announces(x, m)'
                    /\ Coming(x, m) => Reached(x, m)'
  BY DEF Carried
<1>1. Up(x)'
  BY LevelKept
<1>2. Answers(x, m) => Answers(x, m)'
  BY DEF Answers, Brings
<1>3. Coming(x, m) => Coming(x, m)'
  BY DEF Coming, Brings
<1>4. ASSUME Inquires(x, m) PROVE Inquires(x, m)'
  <2>1. PICK s \in Replicas : /\ Up(s) /\ Level(s) >= m
                              /\ \E msg \in Elements(chan[s][x]) : msg.type = "HELLO"
    BY <1>4 DEF Inquires
  <2>2. Up(s)' /\ Level(s)' >= m
    BY <2>1, LevelKept
  <2> QED BY <2>1, <2>2 DEF Inquires
<1> QED BY <1>1, <1>2, <1>3, <1>4 DEF Announces, Reached

\* A share to everybody.
LEMMA ShareSpreads ==
  ASSUME NEW r \in Replicas, NEW state, life' = life, Posted(r, ShareMsg(r, state)),
         NEW m, state.rateLimitMultiplier >= m
  PROVE  Spreads(m)'
<1>1. PICK msg : msg = ShareMsg(r, state)
  OBVIOUS
<1>2. msg.type = "SHARE" /\ msg.rateLimitMultiplier >= m
  BY <1>1 DEF ShareMsg
<1>3. ASSUME NEW x \in Replicas, Up(x)' PROVE Reached(x, m)'
  <2>1. msg \in Elements(chan'[x][r])
    BY <1>1, <1>3 DEF Posted, Up
  <2> QED BY <1>2, <2>1 DEF Reached, Coming, Brings
<1> QED BY <1>3 DEF Spreads

LEMMA HeldBelow ==
  ASSUME StepInv, NEW h \in Nat, NEW m \in Nat, h >= m, Held(h)
  PROVE  Held(m)
<1>1. PICK x \in Replicas : Up(x) /\ (Level(x) >= h \/ BacksOff(x, h))
  BY DEF Held
<1>2. Level(x) >= h => Level(x) >= m
  BY Numbers
<1>3. BacksOff(x, h) => BacksOff(x, m)
  BY Numbers, NullAssumption DEF BacksOff, Raises
<1> QED BY <1>1, <1>2, <1>3 DEF Held

\* What a replica announces somebody holds.
LEMMA OwnHeld ==
  ASSUME AgreeInv, Intact, NEW r \in Replicas, Up(r), NEW m \in Nat, Own(r, m)
  PROVE  Held(m)
<1>1. StepInv /\ SourceInv
  BY DEF AgreeInv
<1>2. \A h \in Heeded(r) : h >= m => Held(m)
  <2> TAKE h \in Heeded(r)
  <2>1. h \in Nat /\ Held(h)
    BY <1>1, Numbers DEF SourceInv
  <2> QED BY <1>1, <2>1, HeldBelow
<1>3. Brings(buffer[r].STATUS, "STATUS", m) => Held(m)
  BY <1>2 DEF Brings, Heeded
<1>4. ASSUME starting[r] # <<>>, Head(starting[r]).rateLimitMultiplier >= m PROVE Held(m)
  <2>1. Head(starting[r]) \in Elements(starting[r])
    <3>1. starting[r] \in Seq(State)
      BY <1>1, StepParts DEF TypeInv, SetConfigs
    <3>2. IsSeq(starting[r])
      BY <3>1, SeqIsSeq
    <3> QED BY <1>4, <3>2, ElementsTail
  <2> QED BY <1>2, <1>4, <2>1 DEF Heeded
<1>5. Level(r) >= m \/ BacksOff(r, m) => Held(m)
  BY DEF Held
<1> QED BY <1>3, <1>4, <1>5 DEF Own

LEMMA SameLevels ==
  ASSUME StepInv, NEW r \in Replicas, Others(r), life' = life,
         reloads'[r] = reloads[r], internal'[r] = internal[r]
  PROVE  /\ Levels(r) /\ Level(r)' = Level(r)
         /\ \A m : (BacksOff(r, m)' <=> BacksOff(r, m)) /\ (Raised(r, m)' <=> Raised(r, m))
<1>1. Level(r) \in Nat /\ Level(r)' = Level(r)
  BY Numbers DEF Level
<1>2. \A m : (BacksOff(r, m)' <=> BacksOff(r, m)) /\ (Raised(r, m)' <=> Raised(r, m))
  BY <1>1 DEF BacksOff, Raised
<1> QED BY <1>1, <1>2 DEF Levels

\* Those who wait for the lock still do when somebody else has gone.
LEMMA ReleasedAwaits ==
  ASSUME StepInv, NEW r \in Replicas, phase'[r] = Released(phase[r]),
         phase[r].entered \/ phase[r].held \notin Round, NEW x \in Round, x \in Awaited(phase[r])
  PROVE  x \in Awaited(phase'[r])
<1>1. phase[r] \in LockType /\ x # "none"
  BY LockParts, Tellings
<1>2. x \in Elements(phase[r].queue)
  BY DEF Awaited
<1> QED BY <1>1, <1>2, ReleasedWants

LEMMA EnteredAwaits ==
  ASSUME StepInv, NEW r \in Replicas, ~phase[r].entered,
         phase'[r] = [phase[r] EXCEPT !.entered = TRUE], NEW x, x # phase[r].held, x \in Awaited(phase[r])
  PROVE  x \in Awaited(phase'[r])
<1>1. PICK q : q = phase'[r]
  OBVIOUS
<1>2. phase[r] \in LockType /\ x \in Elements(phase[r].queue)
  BY LockParts DEF Awaited
<1>3. x \in Awaited(q)
  BY <1>1, <1>2, EnteredWants
<1> QED BY <1>1, <1>3

LEMMA OwnPasses ==
  ASSUME StepInv, NEW r \in Replicas, Up(r), Levels(r), NEW m \in Nat,
         "CLUSTER" \in Awaited(phase[r]) => "CLUSTER" \in Awaited(phase'[r]),
         BacksOff(r, m) => Own(r, m)',
         \/ buffer'[r].STATUS = buffer[r].STATUS
         \/ Brings(buffer[r].STATUS, "STATUS", m) => Own(r, m)' \/ Spreads(m)',
         starting[r] # <<>> =>
           starting'[r] = starting[r] \/ (Head(starting[r]).rateLimitMultiplier >= m => Spreads(m)')
  PROVE  Own(r, m) => Announces(r, m)' \/ Spreads(m)'
<1>1. Up(r)' /\ (Level(r) >= m => Level(r)' >= m)
  BY LevelKept
<1>2. Level(r) >= m /\ "CLUSTER" \in Awaited(phase[r]) => Own(r, m)'
  BY <1>1 DEF Own
<1>3. Brings(buffer[r].STATUS, "STATUS", m) => Own(r, m)' \/ Spreads(m)'
  BY DEF Own
<1>4. starting[r] # <<>> /\ Head(starting[r]).rateLimitMultiplier >= m => Own(r, m)' \/ Spreads(m)'
  BY DEF Own
<1> QED BY <1>1, <1>2, <1>3, <1>4 DEF Own, Announces

LEMMA ReadyPasses ==
  ASSUME StepInv, NEW r \in Replicas, Levels(r), NEW m \in Nat,
         "HELLO" \in Awaited(phase[r]) => "HELLO" \in Awaited(phase'[r]), timer'[r].GREET = timer[r].GREET,
         \A call \in Elements(reloads[r]) : Raises(call, m) => Raised(r, m)',
         buffer'[r].SHARE = buffer[r].SHARE \/ (Brings(buffer[r].SHARE, "SHARE", m) => Raised(r, m)')
  PROVE  Ready(r, m) => Reached(r, m)'
<1>1. Level(r) >= m => Level(r)' >= m
  BY LevelKept
<1>2. Raised(r, m) => Raised(r, m)'
  BY <1>1 DEF Raised
<1>3. ToGreet(r) => ToGreet(r)'
  BY DEF ToGreet
<1> QED BY <1>2, <1>3 DEF Ready, Reached

LEMMA SayHelloSpread ==
  ASSUME AgreeInv, Intact, NEW r \in Replicas, NEW who \in Round, SayHello(r, who)
  PROVE  SourceInv' /\ SpreadInv'
<1>1. /\ Up(r) /\ Others(r) /\ phase[r].held = who /\ ~phase[r].entered
      /\ UNCHANGED <<life, buffer, starting, started, reloads, internal, running>>
      /\ phase'[r] = [phase[r] EXCEPT !.entered = TRUE] /\ TimersKept(r)
      /\ Posted(r, HelloMsg(r))
  BY SayHelloActs DEF AgreeInv
<1>2. StepInv /\ Levels(r) /\ Level(r)' = Level(r) /\ \A m : BacksOff(r, m)' <=> BacksOff(r, m)
  BY <1>1, SameLevels DEF AgreeInv
<1>3. PICK hello : hello = HelloMsg(r)
  OBVIOUS
<1>4. hello.type = "HELLO"
  BY <1>3 DEF HelloMsg
<1>5. Truthful(r)
  <2>1. Heeded(r)' = Heeded(r)
    BY <1>1 DEF Heeded
  <2>2. ASSUME NEW d \in Replicas, NEW x \in Replicas, NEW msg \in Elements(chan'[d][x]),
               msg.type \in {"STATUS", "SHARE"}
        PROVE  msg \in Elements(chan[d][x])
    <3>1. Elements(chan'[d][x]) \subseteq Elements(chan[d][x]) \cup {hello}
      BY <1>1, <1>3 DEF Posted
    <3>2. msg # hello
      BY <1>4, <2>2
    <3> QED BY <3>1, <3>2
  <2>3. \A d, x \in Replicas : \A msg \in Elements(chan'[d][x]) :
          msg.type \in {"STATUS", "SHARE"} => msg \in Elements(chan[d][x])
    BY <2>2
  <2> QED BY <2>1, <2>3 DEF Truthful
<1>6. \A d, x \in Replicas : Elements(chan[d][x]) \subseteq Elements(chan'[d][x])
  BY <1>1 DEF Posted
<1>7. ASSUME NEW m \in Nat, Held(m) PROVE Spreads(m)'
  <2>1. PICK s \in Replicas : Up(s) /\ (Level(s) >= m \/ BacksOff(s, m))
    BY <1>7 DEF Held
  <2>2. CASE BacksOff(s, m)
    <3>1. Up(s)' /\ BacksOff(s, m)'
      BY <1>1, <1>2, <2>1, <2>2, OthersSame, LevelKept
    <3> QED BY <3>1 DEF Own, Announces, Spreads
  <2>3. CASE Level(s) >= m
    <3>1. Up(s)' /\ Level(s)' >= m
      BY <1>2, <2>1, <2>3, LevelKept
    <3>2. hello \in Elements(chan'[s][r])
      BY <1>1, <1>3, <2>1 DEF Posted
    <3>3. Inquires(r, m)'
      BY <1>4, <3>1, <3>2 DEF Inquires
    <3> QED BY <1>1, <3>3 DEF Announces, Spreads, Up
  <2> QED BY <2>1, <2>2, <2>3
<1>8. ASSUME NEW m \in Nat PROVE Carried(m) /\ Passed(r, m)
  <2>1. Level(r)' >= m => Held(m)
    BY <1>1, <1>2 DEF Held
  <2>2. Own(r, m) => Held(m)
    BY <1>1, OwnHeld
  <2> QED BY <1>2, <1>6, <1>7, <2>1, <2>2, MailCarries DEF Passed
<1> QED BY <1>1, <1>2, <1>5, <1>8, SourceStep, SpreadStep

\* What is said of r's new multiplier is true when it comes from what r heard.
LEMMA HeardHeld ==
  ASSUME AgreeInv, Intact, NEW r \in Replicas, Levels(r), NEW h \in Heeded(r)
  PROVE  h \in Nat /\ Held(h) /\ Held(h)'
<1>1. StepInv /\ SourceInv
  BY DEF AgreeInv
<1>2. h \in Nat /\ Held(h)
  BY <1>1, Numbers DEF SourceInv
<1> QED BY <1>1, <1>2, HeldKept

LEMMA PostedTruthful ==
  ASSUME NEW r \in Replicas, NEW state, Posted(r, ShareMsg(r, state)),
         Held(state.rateLimitMultiplier)', Heeded(r)' \subseteq Heeded(r)
  PROVE  Truthful(r)
<1>1. PICK share : share = ShareMsg(r, state)
  OBVIOUS
<1>2. share.rateLimitMultiplier = state.rateLimitMultiplier
  BY <1>1 DEF ShareMsg
<1>3. PICK h : h = state.rateLimitMultiplier
  OBVIOUS
<1>4. \A d, x \in Replicas : Elements(chan'[d][x]) \subseteq Elements(chan[d][x]) \cup {share}
  BY <1>1 DEF Posted
<1>5. ASSUME NEW d \in Replicas, NEW x \in Replicas, NEW msg \in Elements(chan'[d][x])
      PROVE  msg \in Elements(chan[d][x]) \/ Held(msg.rateLimitMultiplier)'
  <2>1. CASE msg = share
    <3>1. Held(msg.rateLimitMultiplier)'
      BY <1>2, <2>1
    <3> QED BY <3>1
  <2> QED BY <1>4, <1>5, <2>1
<1> QED BY <1>5 DEF Truthful

\* What a round agrees on.
LEMMA StatusRate ==
  ASSUME StepInv, NEW r \in Replicas, Up(r), timer[r].STATUS = 0,
         NEW state, state = AggregateState(r, buffer[r].STATUS)
  PROVE  /\ state.rateLimitMultiplier \in Heeded(r)
         /\ \A m \in Nat : Brings(buffer[r].STATUS, "STATUS", m) => state.rateLimitMultiplier >= m
<1>1. AllInv /\ UpwardInv /\ RateInv(Positive)
  BY StepParts DEF UpwardInv
<1>2. PICK statuses, h : statuses = buffer[r].STATUS /\ h = HighestMultiplier(statuses)
  OBVIOUS
<1>3. state.rateLimitMultiplier = h
  BY <1>2 DEF AggregateState
<1>4. IsSeq(statuses) /\ \A msg \in Elements(statuses) : msg.rateLimitMultiplier \in Positive
  BY <1>1, <1>2, BufferedRates
<1>5. /\ h \in Nat
      /\ \A msg \in Elements(statuses) : h >= msg.rateLimitMultiplier
      /\ h = 0 \/ \E msg \in Elements(statuses) : h = msg.rateLimitMultiplier
  BY <1>2, <1>4, HighestOf DEF Positive
<1>6. \E msg \in Elements(statuses) : h = msg.rateLimitMultiplier
  <2>1. PICK msg \in Elements(statuses) : TRUE
    BY <1>1, <1>2, OwnStatus
  <2>2. h # 0
    BY <1>4, <1>5, <2>1 DEF Positive
  <2> QED BY <1>5, <2>2
<1>7. \A m \in Nat : Brings(statuses, "STATUS", m) => h >= m
  BY <1>4, <1>5 DEF Brings, Positive
<1> QED BY <1>2, <1>3, <1>6, <1>7 DEF Heeded

LEMMA StatusDueSpread ==
  ASSUME AgreeInv, Intact, NEW r \in Replicas, StatusDue(r), Level(r)' >= Level(r)
  PROVE  SourceInv' /\ SpreadInv'
<1>1. PICK state, h : state = AggregateState(r, buffer[r].STATUS) /\ h = state.rateLimitMultiplier
  OBVIOUS
<1>2. /\ Up(r) /\ Others(r) /\ timer[r].STATUS = 0 /\ InRound(phase[r]) /\ starting[r] = <<>>
      /\ UNCHANGED <<life, started, reloads, running>> /\ TimersKept(r)
      /\ buffer'[r].STATUS = <<>> /\ buffer'[r].SHARE = buffer[r].SHARE
      /\ IF started[r]
         THEN /\ Posted(r, ShareMsg(r, state)) /\ phase'[r] = Released(phase[r])
              /\ UNCHANGED <<starting, internal>>
         ELSE /\ internal'[r] = SetDynamicConfig(internal[r], NormalizeState(r, state))
              /\ starting'[r] = <<state>> /\ UNCHANGED <<chan, phase>>
  BY <1>1, StatusDueActs DEF AgreeInv
<1>3. StepInv
  BY DEF AgreeInv
<1>4. h \in Heeded(r) /\ h \in Nat /\ \A m \in Nat : Brings(buffer[r].STATUS, "STATUS", m) => h >= m
  <2>1. h \in Heeded(r) /\ \A m \in Nat : Brings(buffer[r].STATUS, "STATUS", m) => h >= m
    BY <1>1, <1>2, <1>3, StatusRate
  <2> QED BY <1>3, <2>1, Numbers
<1>5. ASSUME Levels(r), Truthful(r), \A d, x \in Replicas : Elements(chan[d][x]) \subseteq Elements(chan'[d][x]),
             \A m \in Nat : /\ Level(r)' >= m => Held(m)
                            /\ BacksOff(r, m) <=> BacksOff(r, m)' 
                            /\ h >= m => Own(r, m)' \/ Spreads(m)',
             \A who \in Round : who \in Awaited(phase[r]) => who \in Awaited(phase'[r])
      PROVE  SourceInv' /\ SpreadInv'
  <2>1. ASSUME NEW m \in Nat PROVE Carried(m) /\ Passed(r, m)
    <3>1. Own(r, m) => Announces(r, m)' \/ Spreads(m)'
      <4>1. BacksOff(r, m) => Own(r, m)'
        BY <1>5 DEF Own
      <4>2. "CLUSTER" \in Round
        BY DEF Round
      <4> QED BY <1>2, <1>3, <1>4, <1>5, <4>1, <4>2, OwnPasses
    <3>2. Ready(r, m) => Reached(r, m)'
      <4>1. \A call \in Elements(reloads[r]) : Raises(call, m) => Raised(r, m)'
        BY <1>2 DEF Raised
      <4>2. "HELLO" \in Round
        BY DEF Round
      <4> QED BY <1>2, <1>3, <1>5, <4>1, <4>2, ReadyPasses DEF TimersKept
    <3> QED BY <1>3, <1>5, <3>1, <3>2, MailCarries DEF Passed
  <2> QED BY <1>2, <1>5, <2>1, SourceStep, SpreadStep
<1>6. \A m : BacksOff(r, m) <=> BacksOff(r, m)'
  BY <1>2 DEF BacksOff
<1>7. CASE started[r]
  <2>1. Levels(r) /\ Level(r)' = Level(r)
    BY <1>2, <1>3, <1>7, SameLevels
  <2>2. Truthful(r)
    <3>1. Held(state.rateLimitMultiplier)'
      BY <1>1, <1>4, <2>1, HeardHeld
    <3>2. Heeded(r)' \subseteq Heeded(r)
      <4>1. Elements(<<>>) = {}
        BY ElementsEmpty
      <4> QED BY <1>2, <1>7, <4>1 DEF Heeded
    <3> QED BY <1>2, <1>7, <3>1, <3>2, PostedTruthful
  <2>3. \A d, x \in Replicas : Elements(chan[d][x]) \subseteq Elements(chan'[d][x])
    BY <1>2, <1>7 DEF Posted
  <2>4. \A m \in Nat : /\ Level(r)' >= m => Held(m)
                       /\ h >= m => Spreads(m)'
    BY <1>1, <1>2, <1>7, <2>1, ShareSpreads DEF Held
  <2>5. \A who \in Round : who \in Awaited(phase[r]) => who \in Awaited(phase'[r])
    BY <1>2, <1>3, <1>7, ReleasedAwaits DEF InRound
  <2> QED BY <1>5, <1>6, <2>1, <2>2, <2>3, <2>4, <2>5
<1>8. CASE ~started[r]
  <2>1. Level(r)' = h
    <3>1. InPlace(internal[r])
      BY <1>2, <1>3, StepParts, PlaceOfUp DEF Settled, Scheduled
    <3>2. NormalizeState(r, state).rateLimitMultiplier = h
      BY <1>1 DEF NormalizeState
    <3>3. h # Null
      BY <1>4, NullAssumption
    <3> QED BY <1>2, <1>8, <3>1, <3>2, <3>3, RateTaken DEF Level
  <2>2. Levels(r)
    BY <1>2, <1>4, <1>6, <2>1 DEF Levels
  <2>3. Held(h) /\ Held(h)'
    BY <1>4, <2>2, HeardHeld
  <2>4. Truthful(r)
    <3>1. Heeded(r)' \subseteq Heeded(r) \cup {h}
      <4>1. Elements(<<>>) = {} /\ Elements(<<state>>) = {state}
        BY ElementsEmpty DEF Elements
      <4> QED BY <1>1, <1>2, <1>8, <4>1 DEF Heeded
    <3> QED BY <1>2, <1>8, <2>3, <3>1 DEF Truthful
  <2>5. \A m \in Nat : /\ Level(r)' >= m => Held(m)
                       /\ h >= m => Own(r, m)'
    <3>1. \A m \in Nat : h >= m => Held(m)
      BY <1>3, <1>4, <2>3, HeldBelow
    <3>2. PICK todo : todo = starting'[r] /\ todo = <<state>>
      BY <1>2, <1>8
    <3>3. todo # <<>> /\ Head(todo) = state
      BY <3>2
    <3>4. \A m \in Nat : h >= m => Own(r, m)'
      BY <1>1, <3>2, <3>3 DEF Own
    <3> QED BY <2>1, <3>1, <3>4
  <2> QED BY <1>2, <1>5, <1>6, <1>8, <2>2, <2>4, <2>5
<1> QED BY <1>7, <1>8

LEMMA MarketsStartedSpread ==
  ASSUME AgreeInv, Intact, NEW r \in Replicas, MarketsStarted(r)
  PROVE  SourceInv' /\ SpreadInv'
<1>1. PICK state, h : state = Head(starting[r]) /\ h = state.rateLimitMultiplier
  OBVIOUS
<1>2. /\ Up(r) /\ Others(r) /\ starting[r] # <<>> /\ InRound(phase[r])
      /\ UNCHANGED <<life, buffer, reloads, internal>> /\ TimersKept(r)
      /\ starting'[r] = <<>> /\ phase'[r] = Released(phase[r])
      /\ Posted(r, ShareMsg(r, state))
  BY <1>1, MarketsStartedActs DEF AgreeInv
<1>3. StepInv /\ Levels(r) /\ Level(r)' = Level(r) /\ \A m : BacksOff(r, m)' <=> BacksOff(r, m)
  BY <1>2, SameLevels DEF AgreeInv
<1>4. h \in Heeded(r)
  <2>1. starting[r] \in Seq(State)
    BY <1>3, StepParts DEF TypeInv, SetConfigs
  <2>2. IsSeq(starting[r])
    BY <2>1, SeqIsSeq
  <2>3. state \in Elements(starting[r])
    BY <1>1, <1>2, <2>2, ElementsTail
  <2> QED BY <1>1, <2>3 DEF Heeded
<1>5. Truthful(r)
  <2>1. Held(state.rateLimitMultiplier)'
    BY <1>1, <1>3, <1>4, HeardHeld
  <2>2. Heeded(r)' \subseteq Heeded(r)
    <3>1. Elements(<<>>) = {}
      BY ElementsEmpty
    <3> QED BY <1>2, <3>1 DEF Heeded
  <2> QED BY <1>2, <2>1, <2>2, PostedTruthful
<1>6. \A d, x \in Replicas : Elements(chan[d][x]) \subseteq Elements(chan'[d][x])
  BY <1>2 DEF Posted
<1>7. \A who \in Round : who \in Awaited(phase[r]) => who \in Awaited(phase'[r])
  BY <1>2, <1>3, ReleasedAwaits DEF InRound
<1>8. ASSUME NEW m \in Nat PROVE Carried(m) /\ Passed(r, m)
  <2>1. Level(r)' >= m => Held(m)
    BY <1>2, <1>3 DEF Held
  <2>2. Head(starting[r]).rateLimitMultiplier >= m => Spreads(m)'
    BY <1>1, <1>2, ShareSpreads
  <2>3. Own(r, m) => Announces(r, m)' \/ Spreads(m)'
    <3>1. BacksOff(r, m) => Own(r, m)'
      BY <1>3 DEF Own
    <3>2. "CLUSTER" \in Round
      BY DEF Round
    <3> QED BY <1>2, <1>3, <1>7, <2>2, <3>1, <3>2, OwnPasses
  <2>4. Ready(r, m) => Reached(r, m)'
    <3>1. \A call \in Elements(reloads[r]) : Raises(call, m) => Raised(r, m)'
      BY <1>2 DEF Raised
    <3>2. "HELLO" \in Round
      BY DEF Round
    <3> QED BY <1>2, <1>3, <1>7, <3>1, <3>2, ReadyPasses DEF TimersKept
  <2> QED BY <1>3, <1>6, <2>1, <2>3, <2>4, MailCarries DEF Passed
<1> QED BY <1>2, <1>3, <1>5, <1>8, SourceStep, SpreadStep

\* A reload is called for: by a backoff, or as the shares say.
LEMMA CalledSpread ==
  ASSUME AgreeInv, Intact, NEW r \in Replicas, Up(r), Others(r), NEW call, Called(r, call),
         UNCHANGED <<life, chan, starting>>, starting[r] = <<>>, timer'[r].GREET = timer[r].GREET,
         \A who \in Round : who \in Awaited(phase[r]) => who \in Awaited(phase'[r]),
         Level(r)' >= Level(r),
         \/ call.config.rateLimitMultiplier = Null
         \/ /\ call.config.rateLimitMultiplier \in Nat
            /\ call.by = "BACKOFF" \/ call.config.rateLimitMultiplier \in Heeded(r),
         buffer'[r].STATUS = buffer[r].STATUS,
         \/ buffer'[r].SHARE = buffer[r].SHARE
         \/ /\ buffer'[r].SHARE = <<>>
            /\ \A m \in Nat : Brings(buffer[r].SHARE, "SHARE", m) => Level(r) >= m \/ Raises(call, m)
  PROVE  SourceInv' /\ SpreadInv'
<1>1. StepInv /\ Level(r) \in Nat /\ IsSeq(reloads[r])
  BY Numbers, LockParts DEF AgreeInv
<1>2. PICK calls, h : calls = reloads'[r] /\ h = call.config.rateLimitMultiplier
  OBVIOUS
<1>3. Elements(calls) = Elements(reloads[r]) \cup {call}
  BY <1>1, <1>2, HeadOfAppend DEF Called
<1>4. Level(r)' = Level(r) \/ (h # Null /\ Level(r)' = h)
  <2>1. InPlace(internal[r])
    BY <1>1, StepParts, PlaceOfUp DEF Settled, Scheduled
  <2> QED BY <1>2, <2>1, RateTaken DEF Called, Level
<1>5. h # Null => h \in Nat
  BY <1>2
<1>6. \A m : BacksOff(r, m) => BacksOff(r, m)'
  BY <1>2, <1>3 DEF BacksOff
<1>7. \A m \in Nat : h # Null /\ h >= m => Raised(r, m)' /\ (call.by = "BACKOFF" => BacksOff(r, m)')
  BY <1>2, <1>3 DEF Raised, BacksOff, Raises
<1>8. Levels(r)
  BY <1>1, <1>4, <1>5, <1>6 DEF Levels
<1>9. h # Null => Held(h)'
  <2>1. h \in Nat /\ call.by = "BACKOFF" => BacksOff(r, h)' /\ Up(r)'
    BY <1>5, <1>7, NullAssumption DEF Up
  <2>2. h \in Heeded(r) => Held(h)'
    BY <1>8, HeardHeld
  <2> QED BY <1>2, <2>1, <2>2 DEF Held
<1>10. Truthful(r)
  <2>1. Heeded(r)' \subseteq Heeded(r) \cup ({h} \ {Null})
    <3>1. Elements(<<>>) = {}
      BY ElementsEmpty
    <3> QED BY <1>2, <1>3, <3>1 DEF Heeded
  <2> QED BY <1>9, <2>1 DEF Truthful
<1>11. ASSUME NEW m \in Nat PROVE Carried(m) /\ Passed(r, m)
  <2>1. Level(r)' >= m => Held(m) \/ BacksOff(r, m)'
    <3>1. Level(r) >= m => Held(m)
      BY DEF Held
    <3>2. h \in Heeded(r) /\ h >= m => Held(m)
      <4>1. h \in Heeded(r) => h \in Nat /\ Held(h)
        BY <1>8, HeardHeld
      <4> QED BY <1>1, <4>1, HeldBelow
    <3> QED BY <1>2, <1>4, <1>7, <3>1, <3>2
  <2>2. Own(r, m) => Announces(r, m)' \/ Spreads(m)'
    <3>1. BacksOff(r, m) => Own(r, m)'
      BY <1>6 DEF Own
    <3>2. "CLUSTER" \in Round
      BY DEF Round
    <3> QED BY <1>1, <1>8, <3>1, <3>2, OwnPasses
  <2>3. Ready(r, m) => Reached(r, m)'
    <3>1. \A c \in Elements(reloads[r]) : Raises(c, m) => Raised(r, m)'
      BY <1>2, <1>3 DEF Raised
    <3>2. Level(r) >= m => Level(r)' >= m
      BY <1>1, <1>8, LevelKept
    <3>3. Level(r)' >= m \/ Raises(call, m) => Raised(r, m)'
      BY <1>2, <1>3 DEF Raised
    <3>4. buffer'[r].SHARE = buffer[r].SHARE \/ (Brings(buffer[r].SHARE, "SHARE", m) => Raised(r, m)')
      BY <3>2, <3>3
    <3>5. "HELLO" \in Round
      BY DEF Round
    <3> QED BY <1>1, <1>8, <3>1, <3>4, <3>5, ReadyPasses
  <2> QED BY <1>1, <1>8, <2>1, <2>2, <2>3, MailCarries DEF Passed
<1> QED BY <1>8, <1>10, <1>11, SourceStep, SpreadStep

\* What the shares of a window agree on.
LEMMA ShareRate ==
  ASSUME StepInv, NEW r \in Replicas,
         NEW state, state = ShareState(r, buffer[r].SHARE, internal[r].rateLimitMultiplier)
  PROVE  /\ state.rateLimitMultiplier = Null \/ state.rateLimitMultiplier \in Heeded(r)
         /\ \A m \in Nat : Brings(buffer[r].SHARE, "SHARE", m) =>
              Level(r) >= m \/ (state.rateLimitMultiplier # Null /\ state.rateLimitMultiplier >= m)
<1>1. AllInv /\ UpwardInv /\ RateInv(Positive) /\ Level(r) \in Positive /\ Level(r) \in Nat
  BY StepParts, OwnMultiplier, Numbers DEF UpwardInv, Level
<1>2. PICK shares, h : shares = buffer[r].SHARE /\ h = HighestMultiplier(shares)
  OBVIOUS
<1>3. state.rateLimitMultiplier = IF h > Level(r) THEN h ELSE Null
  BY <1>2 DEF ShareState, Level
<1>4. IsSeq(shares) /\ \A msg \in Elements(shares) : msg.rateLimitMultiplier \in Positive
  BY <1>1, <1>2, BufferedRates
<1>5. /\ h \in Nat
      /\ \A msg \in Elements(shares) : h >= msg.rateLimitMultiplier
  BY <1>2, <1>4, HighestOf DEF Positive
<1>6. \A m \in Nat : Brings(shares, "SHARE", m) => h >= m
  BY <1>4, <1>5 DEF Brings, Positive
<1>7. state.rateLimitMultiplier = Null \/ \E msg \in Elements(shares) : msg.rateLimitMultiplier = state.rateLimitMultiplier
  <2>1. state = ShareState(r, shares, Level(r))
    BY <1>2 DEF Level
  <2> QED BY <1>1, <1>4, <2>1, AllPositive, SharedRate
<1>8. h # Null
  BY <1>5, NullAssumption
<1>9. \A m \in Nat : Brings(shares, "SHARE", m) => Level(r) >= m \/ h > Level(r)
  BY <1>1, <1>5, <1>6
<1> QED BY <1>2, <1>3, <1>6, <1>7, <1>8, <1>9 DEF Heeded

LEMMA Departs ==
  ASSUME NEW r \in Replicas, life'[r] \in {"failing", "gone"}
  PROVE  SourceInv' /\ SpreadInv'
<1>1. ~Intact'
  BY DEF Intact
<1> QED BY <1>1 DEF SourceInv, SpreadInv

LEMMA HandleShareSpread ==
  ASSUME AgreeInv, Intact, NEW r \in Replicas, HandleShare(r), Level(r)' >= Level(r)
  PROVE  SourceInv' /\ SpreadInv'
<1>1. PICK state, call, h : /\ state = ShareState(r, buffer[r].SHARE, internal[r].rateLimitMultiplier)
                            /\ call = [by |-> "SHARE", config |-> NormalizeState(r, state)]
                            /\ h = state.rateLimitMultiplier
  OBVIOUS
<1>2. /\ Up(r) /\ Others(r) /\ phase[r].held = "SHARE" /\ ~phase[r].entered /\ starting[r] = <<>>
      /\ UNCHANGED <<chan, starting, started, running>> /\ TimersKept(r)
      /\ buffer'[r].SHARE = <<>> /\ buffer'[r].STATUS = buffer[r].STATUS
      /\ \/ /\ UNCHANGED life /\ Called(r, call) /\ phase'[r] = [phase[r] EXCEPT !.entered = TRUE]
         \/ /\ UNCHANGED <<reloads, internal>> /\ phase'[r] = Released(phase[r])
            /\ \/ UNCHANGED life /\ h = Null
               \/ life'[r] = "failing"
  BY <1>1, HandleShareActs DEF AgreeInv
<1>3. StepInv /\ Level(r) \in Nat
  BY Numbers DEF AgreeInv
<1>4. /\ h = Null \/ h \in Heeded(r)
      /\ \A m \in Nat : Brings(buffer[r].SHARE, "SHARE", m) => Level(r) >= m \/ (h # Null /\ h >= m)
  BY <1>1, <1>3, ShareRate
<1>5. CASE UNCHANGED life /\ Called(r, call) /\ phase'[r] = [phase[r] EXCEPT !.entered = TRUE]
  <2>1. call.config.rateLimitMultiplier = h
    BY <1>1 DEF NormalizeState
  <2>2. h = Null \/ (h \in Nat /\ h \in Heeded(r))
    BY <1>3, <1>4, Numbers
  <2>3. \A m \in Nat : Brings(buffer[r].SHARE, "SHARE", m) => Level(r) >= m \/ Raises(call, m)
    BY <1>4, <2>1 DEF Raises
  <2>4. \A who \in Round : who \in Awaited(phase[r]) => who \in Awaited(phase'[r])
    <3> TAKE who \in Round
    <3>1. who # phase[r].held
      BY <1>2 DEF Round
    <3> QED BY <1>2, <1>3, <1>5, <3>1, EnteredAwaits
  <2> QED BY <1>2, <1>5, <2>1, <2>2, <2>3, <2>4, CalledSpread DEF TimersKept
<1>6. CASE UNCHANGED <<reloads, internal, life>> /\ phase'[r] = Released(phase[r]) /\ h = Null
  <2>1. Levels(r) /\ Level(r)' = Level(r) /\ \A m : BacksOff(r, m)' <=> BacksOff(r, m)
    BY <1>2, <1>3, <1>6, SameLevels
  <2>2. Truthful(r)
    <3>1. Heeded(r)' \subseteq Heeded(r)
      <4>1. Elements(<<>>) = {}
        BY ElementsEmpty
      <4> QED BY <1>2, <1>6, <4>1 DEF Heeded
    <3> QED BY <1>2, <3>1 DEF Truthful
  <2>3. \A who \in Round : who \in Awaited(phase[r]) => who \in Awaited(phase'[r])
    <3>1. phase[r].held \notin Round
      BY <1>2 DEF Round
    <3> QED BY <1>3, <1>6, <3>1, ReleasedAwaits
  <2>4. ASSUME NEW m \in Nat PROVE Carried(m) /\ Passed(r, m)
    <3>1. Level(r)' >= m => Held(m)
      BY <1>2, <2>1 DEF Held
    <3>2. Own(r, m) => Announces(r, m)' \/ Spreads(m)'
      <4>1. BacksOff(r, m) => Own(r, m)'
        BY <2>1 DEF Own
      <4>2. "CLUSTER" \in Round
        BY DEF Round
      <4> QED BY <1>2, <1>3, <2>1, <2>3, <4>1, <4>2, OwnPasses
    <3>3. Ready(r, m) => Reached(r, m)'
      <4>1. \A c \in Elements(reloads[r]) : Raises(c, m) => Raised(r, m)'
        BY <1>6 DEF Raised
      <4>2. Brings(buffer[r].SHARE, "SHARE", m) => Raised(r, m)'
        BY <1>4, <1>6, <2>1 DEF Raised
      <4>3. "HELLO" \in Round
        BY DEF Round
      <4> QED BY <1>2, <1>3, <2>1, <2>3, <4>1, <4>2, <4>3, ReadyPasses DEF TimersKept
    <3> QED BY <1>2, <1>3, <2>1, <3>1, <3>2, <3>3, MailCarries DEF Passed
  <2> QED BY <1>2, <2>1, <2>2, <2>4, SourceStep, SpreadStep
<1>7. CASE life'[r] = "failing"
  BY <1>7, Departs
<1> QED BY <1>2, <1>5, <1>6, <1>7

LEMMA HandleCloseSpread ==
  ASSUME AgreeInv, Intact, NEW r \in Replicas, HandleClose(r), Level(r)' >= Level(r)
  PROVE  SourceInv' /\ SpreadInv'
<1>1. /\ Up(r) /\ Others(r) /\ phase[r].held = "CLOSE" /\ ~phase[r].entered /\ starting[r] = <<>>
      /\ UNCHANGED <<chan, starting, started, running>> /\ TimersKept(r)
      /\ buffer'[r].SHARE = buffer[r].SHARE /\ buffer'[r].STATUS = buffer[r].STATUS
      /\ \/ /\ UNCHANGED life /\ phase'[r] = [phase[r] EXCEPT !.entered = TRUE]
            /\ \E call : Called(r, call) /\ call.by = "CLOSE" /\ call.config.rateLimitMultiplier = Null
         \/ life'[r] = "failing"
  BY HandleCloseActs DEF AgreeInv
<1>2. ASSUME NEW call, UNCHANGED life, phase'[r] = [phase[r] EXCEPT !.entered = TRUE],
             Called(r, call), call.config.rateLimitMultiplier = Null
      PROVE  SourceInv' /\ SpreadInv'
  <2>1. \A who \in Round : who \in Awaited(phase[r]) => who \in Awaited(phase'[r])
    <3> TAKE who \in Round
    <3>1. who # phase[r].held /\ StepInv
      BY <1>1 DEF Round, AgreeInv
    <3> QED BY <1>1, <1>2, <3>1, EnteredAwaits
  <2> QED BY <1>1, <1>2, <2>1, CalledSpread DEF TimersKept
<1>3. CASE life'[r] = "failing"
  BY <1>3, Departs
<1> QED BY <1>1, <1>2, <1>3

LEMMA HandleRateLimitSpread ==
  ASSUME AgreeInv, Intact, NEW r \in Replicas, HandleRateLimit(r), Level(r)' >= Level(r)
  PROVE  SourceInv' /\ SpreadInv'
<1>1. /\ Up(r) /\ Others(r) /\ starting[r] = <<>>
      /\ UNCHANGED <<life, chan, buffer, timer, phase, starting, started, running>>
      /\ \/ UNCHANGED <<reloads, internal>>
         \/ \E call : /\ Called(r, call) /\ call.by = "BACKOFF"
                      /\ call.config.rateLimitMultiplier \in Nat
  BY HandleRateLimitActs DEF AgreeInv
<1>2. CASE UNCHANGED <<reloads, internal>>
  <2>1. StepInv /\ Levels(r) /\ Level(r)' = Level(r) /\ \A m : BacksOff(r, m)' <=> BacksOff(r, m)
    BY <1>1, <1>2, SameLevels DEF AgreeInv
  <2>2. Truthful(r)
    BY <1>1, <1>2 DEF Truthful, Heeded
  <2>3. ASSUME NEW m \in Nat PROVE Carried(m) /\ Passed(r, m)
    <3>1. Level(r)' >= m => Held(m)
      BY <1>1, <2>1 DEF Held
    <3>2. Own(r, m) => Announces(r, m)' \/ Spreads(m)'
      <4>1. BacksOff(r, m) => Own(r, m)'
        BY <2>1 DEF Own
      <4> QED BY <1>1, <2>1, <4>1, OwnPasses
    <3>3. Ready(r, m) => Reached(r, m)'
      <4>1. \A c \in Elements(reloads[r]) : Raises(c, m) => Raised(r, m)'
        BY <1>2 DEF Raised
      <4> QED BY <1>1, <2>1, <4>1, ReadyPasses
    <3> QED BY <1>1, <2>1, <3>1, <3>2, <3>3, MailCarries DEF Passed
  <2> QED BY <1>1, <2>1, <2>2, <2>3, SourceStep, SpreadStep
<1>3. ASSUME NEW call, Called(r, call), call.by = "BACKOFF", call.config.rateLimitMultiplier \in Nat
      PROVE  SourceInv' /\ SpreadInv'
  BY <1>1, <1>3, CalledSpread
<1> QED BY <1>1, <1>2, <1>3

LEMMA ReloadedSpread ==
  ASSUME AgreeInv, Intact, NEW r \in Replicas, Reloaded(r), Level(r)' >= Level(r)
  PROVE  SourceInv' /\ SpreadInv'
<1>1. PICK done, rest : done = Head(reloads[r]) /\ rest = Tail(reloads[r])
  OBVIOUS
<1>2. /\ Up(r) /\ Others(r) /\ reloads[r] # <<>>
      /\ UNCHANGED <<life, chan, buffer, starting, started>> /\ TimersKept(r)
      /\ reloads'[r] = rest
      /\ internal'[r] = IF rest = <<>> THEN internal[r]
                        ELSE SetDynamicConfig(internal[r], Head(rest).config)
      /\ IF done.by = "BACKOFF" THEN phase'[r] = Acquired(phase[r], "CLUSTER")
         ELSE phase[r].entered /\ phase'[r] = Released(phase[r])
  BY <1>1, ReloadedActs DEF AgreeInv
<1>3. StepInv /\ Level(r) \in Nat /\ IsSeq(reloads[r]) /\ RestOK(r)
  BY <1>2, Numbers, LockParts, RestOfUp DEF AgreeInv
<1>4. IsSeq(rest) /\ Elements(reloads[r]) = {done} \cup Elements(rest)
  BY <1>1, <1>2, <1>3, ElementsTail
<1>5. rest # <<>> => Head(rest) \in Elements(rest)
  BY <1>4, ElementsTail
<1>6. InPlace(internal[r])
  BY <1>2, <1>3, StepParts, PlaceOfUp DEF Settled, Scheduled
<1>7. done.config.rateLimitMultiplier # Null => Level(r) = done.config.rateLimitMultiplier
  <2>1. internal[r] = SetDynamicConfig(internal[r], done.config)
    BY <1>1, <1>2, <1>3 DEF RestOK, Told
  <2> QED BY <1>6, <2>1, RateTaken DEF Level
<1>8. Level(r)' = Level(r) \/ \E h \in Heeded(r) : h \in Nat /\ Level(r)' = h
  <2>1. CASE rest = <<>>
    BY <1>2, <2>1 DEF Level
  <2>2. CASE rest # <<>>
    <3>1. PICK h : h = Head(rest).config.rateLimitMultiplier
      OBVIOUS
    <3>2. Level(r)' = IF h = Null THEN Level(r) ELSE h
      BY <1>2, <1>6, <2>2, <3>1, RateTaken DEF Level
    <3>3. h # Null => h \in Heeded(r)
      BY <1>4, <1>5, <2>2, <3>1 DEF Heeded
    <3>4. h # Null => h \in Nat
      BY <1>3, <3>3, Numbers
    <3> QED BY <3>2, <3>3, <3>4
  <2> QED BY <2>1, <2>2
<1>9. \A m \in Nat : \A c \in Elements(reloads[r]) : Raises(c, m) => Level(r)' >= m \/ c \in Elements(rest)
  <2> TAKE m \in Nat
  <2> TAKE c \in Elements(reloads[r])
  <2>1. Raises(done, m) => Level(r) >= m
    BY <1>7 DEF Raises
  <2>2. Level(r)' \in Nat
    BY <1>3, <1>8
  <2> QED BY <1>3, <1>4, <2>1, <2>2
<1>10. Levels(r)
  <2>1. \A m \in Nat : BacksOff(r, m) => Level(r)' >= m \/ BacksOff(r, m)'
    BY <1>2, <1>9 DEF BacksOff
  <2> QED BY <1>2, <1>3, <1>8, <2>1 DEF Levels
<1>11. Truthful(r)
  <2>1. Heeded(r)' \subseteq Heeded(r)
    BY <1>2, <1>4 DEF Heeded
  <2> QED BY <1>2, <2>1 DEF Truthful
<1>12. /\ \A who \in Round : who \in Awaited(phase[r]) => who \in Awaited(phase'[r])
       /\ done.by = "BACKOFF" => "CLUSTER" \in Awaited(phase'[r])
  <2>1. CASE done.by = "BACKOFF"
    <3>1. PICK q : q = phase'[r]
      OBVIOUS
    <3>2. \A who \in Round : (who \in Awaited(q) <=> who \in Awaited(phase[r]) \/ who = "CLUSTER")
      <4> TAKE who \in Round
      <4>1. who # "none"
        BY DEF Round
      <4> QED BY <1>2, <1>3, <2>1, <3>1, <4>1, LockParts, AcquiredWants
    <3> QED BY <3>1, <3>2 DEF Round
  <2>2. CASE done.by # "BACKOFF"
    BY <1>2, <1>3, <2>2, ReleasedAwaits
  <2> QED BY <2>1, <2>2
<1>13. ASSUME NEW m \in Nat PROVE Carried(m) /\ Passed(r, m)
  <2>1. Level(r)' >= m => Held(m)
    <3>1. Level(r) >= m => Held(m)
      BY <1>2 DEF Held
    <3>2. \A h \in Heeded(r) : h >= m => Held(m)
      <4> TAKE h \in Heeded(r)
      <4>1. h \in Nat /\ Held(h)
        BY <1>10, HeardHeld
      <4> QED BY <1>3, <4>1, HeldBelow
    <3> QED BY <1>8, <3>1, <3>2
  <2>2. BacksOff(r, m) => Own(r, m)'
    <3> SUFFICES ASSUME BacksOff(r, m) PROVE Own(r, m)'
      OBVIOUS
    <3>1. PICK c \in Elements(reloads[r]) : c.by = "BACKOFF" /\ Raises(c, m)
      BY DEF BacksOff
    <3>2. CASE c \in Elements(rest)
      <4>1. BacksOff(r, m)'
        BY <1>2, <3>1, <3>2 DEF BacksOff
      <4> QED BY <4>1 DEF Own
    <3>3. CASE c \notin Elements(rest)
      <4>1. c = done /\ Level(r)' >= m
        BY <1>4, <1>9, <3>1, <3>3
      <4> QED BY <1>12, <3>1, <4>1 DEF Own
    <3> QED BY <3>2, <3>3
  <2>3. Own(r, m) => Announces(r, m)' \/ Spreads(m)'
    <3>1. "CLUSTER" \in Round
      BY DEF Round
    <3> QED BY <1>2, <1>3, <1>10, <1>12, <2>2, <3>1, OwnPasses
  <2>4. Ready(r, m) => Reached(r, m)'
    <3>1. \A c \in Elements(reloads[r]) : Raises(c, m) => Raised(r, m)'
      BY <1>2, <1>9 DEF Raised
    <3>2. "HELLO" \in Round
      BY DEF Round
    <3> QED BY <1>2, <1>3, <1>10, <1>12, <3>1, <3>2, ReadyPasses DEF TimersKept
  <2> QED BY <1>2, <1>3, <1>10, <2>1, <2>3, <2>4, MailCarries DEF Passed
<1> QED BY <1>2, <1>10, <1>11, <1>13, SourceStep, SpreadStep

LEMMA DeliverSpread ==
  ASSUME AgreeInv, Intact, NEW r \in Replicas, NEW s \in Replicas, Deliver(s, r)
  PROVE  SourceInv' /\ SpreadInv'
<1>1. PICK msg, answer : msg = Head(chan[r][s]) /\ answer = StatusMsg(r, internal[r].rateLimitMultiplier)
  OBVIOUS
<1>2. /\ Up(r) /\ Others(r) /\ msg \in Elements(chan[r][s])
      /\ UNCHANGED <<life, phase, starting, started, reloads, internal, running>>
      /\ timer'[r].GREET = timer[r].GREET
      /\ Moved(r, s, msg, answer)
      /\ IF msg.type = "HELLO"
         THEN UNCHANGED buffer /\ (Up(s) => answer \in Elements(chan'[s][r]))
         ELSE /\ msg.type \in Buffered
              /\ Elements(buffer'[r][msg.type]) = Elements(buffer[r][msg.type]) \cup {msg}
              /\ \A t \in Buffered \ {msg.type} : buffer'[r][t] = buffer[r][t]
  <2>1. StepInv
    BY DEF AgreeInv
  <2> QED BY <1>1, <2>1, DeliverActs
<1>3. /\ StepInv /\ SourceInv /\ Levels(r) /\ Level(r)' = Level(r) /\ Level(r) \in Nat
      /\ \A m : (BacksOff(r, m)' <=> BacksOff(r, m)) /\ (Raised(r, m)' <=> Raised(r, m))
  BY <1>2, SameLevels, Numbers DEF AgreeInv
<1>4. answer.type = "STATUS" /\ answer.rateLimitMultiplier = Level(r)
  BY <1>1 DEF StatusMsg, Level
<1>5. \A t \in {"STATUS", "SHARE"} :
        Elements(buffer'[r][t]) = Elements(buffer[r][t]) \cup (IF msg.type = t THEN {msg} ELSE {})
  <2> TAKE t \in {"STATUS", "SHARE"}
  <2>1. t # "HELLO" /\ t \in Buffered
    BY Tellings
  <2>2. CASE msg.type = "HELLO"
    <3>1. buffer'[r][t] = buffer[r][t] /\ msg.type # t
      BY <1>2, <2>1, <2>2
    <3> QED BY <3>1
  <2>3. CASE msg.type = t
    BY <1>2, <2>1, <2>3
  <2>4. CASE msg.type # "HELLO" /\ msg.type # t
    <3>1. buffer'[r][t] = buffer[r][t]
      BY <1>2, <2>1, <2>4
    <3> QED BY <2>4, <3>1
  <2> QED BY <2>2, <2>3, <2>4
<1>6. Truthful(r)
  <2>1. Held(answer.rateLimitMultiplier)'
    <3>1. Up(r)' /\ Level(r)' >= answer.rateLimitMultiplier
      BY <1>2, <1>3, <1>4 DEF Up
    <3> QED BY <3>1 DEF Held
  <2>2. msg.type \in {"STATUS", "SHARE"} => Held(msg.rateLimitMultiplier)'
    <3> SUFFICES ASSUME msg.type \in {"STATUS", "SHARE"} PROVE Held(msg.rateLimitMultiplier)'
      OBVIOUS
    <3>1. PICK m \in Nat : m = msg.rateLimitMultiplier
      BY <1>2, <1>3, Numbers
    <3>2. Held(m)
      BY <1>2, <1>3, <3>1 DEF SourceInv
    <3>3. Held(m)'
      BY <1>3, <3>2, HeldKept
    <3> QED BY <3>1, <3>3
  <2>3. \A m \in Heeded(r)' : m \in Heeded(r) \/ (msg.type \in {"STATUS", "SHARE"} /\ m = msg.rateLimitMultiplier)
    BY <1>2, <1>5 DEF Heeded
  <2>4. \A m \in Heeded(r)' : m \in Heeded(r) \/ Held(m)'
    BY <2>2, <2>3
  <2>5. \A d, x \in Replicas : \A m \in Elements(chan'[d][x]) :
          m \in Elements(chan[d][x]) \/ Held(m.rateLimitMultiplier)'
    BY <1>2, <2>1 DEF Moved
  <2> QED BY <2>4, <2>5 DEF Truthful
<1>7. ASSUME NEW m \in Nat PROVE Carried(m)
  <2> SUFFICES ASSUME NEW x \in Replicas, Up(x)
               PROVE  /\ Answers(x, m) \/ Inquires(x, m) => Announces(x, m)'
                      /\ Coming(x, m) => Reached(x, m)'
    BY DEF Carried
  <2>1. Up(x)'
    BY <1>2 DEF Up
  <2>2. ASSUME Answers(x, m) PROVE Announces(x, m)'
    <3>1. PICK d \in Replicas : \E b \in Elements(chan[x][d]) : b.type = "STATUS" /\ b.rateLimitMultiplier >= m
      BY <2>2 DEF Answers, Brings
    <3>2. PICK a \in Elements(chan[x][d]) : a.type = "STATUS" /\ a.rateLimitMultiplier >= m
      BY <3>1
    <3>3. CASE a \in Elements(chan'[x][d])
      BY <2>1, <3>2, <3>3 DEF Answers, Brings, Announces
    <3>4. CASE a \notin Elements(chan'[x][d])
      <4>1. x = r /\ a = msg
        BY <1>2, <3>2, <3>4 DEF Moved
      <4>2. a \in Elements(buffer'[r].STATUS)
        BY <1>5, <3>2, <4>1
      <4> QED BY <2>1, <3>2, <4>1, <4>2 DEF Brings, Own, Announces
    <3> QED BY <3>3, <3>4
  <2>3. ASSUME Inquires(x, m) PROVE Announces(x, m)'
    <3>1. PICK d \in Replicas : \E b \in Elements(chan[d][x]) : Up(d) /\ Level(d) >= m /\ b.type = "HELLO"
      BY <2>3 DEF Inquires
    <3>2. PICK a \in Elements(chan[d][x]) : Up(d) /\ Level(d) >= m /\ a.type = "HELLO"
      BY <3>1
    <3>3. Up(d)' /\ Level(d)' >= m
      BY <1>3, <3>2, LevelKept
    <3>4. CASE a \in Elements(chan'[d][x])
      BY <2>1, <3>2, <3>3, <3>4 DEF Inquires, Announces
    <3>5. CASE a \notin Elements(chan'[d][x])
      <4>1. d = r /\ x = s /\ a = msg
        BY <1>2, <3>2, <3>5 DEF Moved
      <4>2. answer \in Elements(chan'[x][r]) /\ answer.rateLimitMultiplier >= m
        BY <1>2, <1>4, <3>2, <4>1
      <4> QED BY <1>4, <2>1, <4>2 DEF Answers, Brings, Announces
    <3> QED BY <3>4, <3>5
  <2>4. ASSUME Coming(x, m) PROVE Reached(x, m)'
    <3>1. PICK d \in Replicas : \E b \in Elements(chan[x][d]) : b.type = "SHARE" /\ b.rateLimitMultiplier >= m
      BY <2>4 DEF Coming, Brings
    <3>2. PICK a \in Elements(chan[x][d]) : a.type = "SHARE" /\ a.rateLimitMultiplier >= m
      BY <3>1
    <3>3. CASE a \in Elements(chan'[x][d])
      BY <3>2, <3>3 DEF Coming, Brings, Reached
    <3>4. CASE a \notin Elements(chan'[x][d])
      <4>1. x = r /\ a = msg
        BY <1>2, <3>2, <3>4 DEF Moved
      <4>2. a \in Elements(buffer'[r].SHARE)
        BY <1>5, <3>2, <4>1
      <4> QED BY <3>2, <4>1, <4>2 DEF Brings, Ready, Reached
    <3> QED BY <3>3, <3>4
  <2> QED BY <2>2, <2>3, <2>4
<1>8. ASSUME NEW m \in Nat PROVE Passed(r, m)
  <2>1. Level(r)' >= m => Held(m)
    BY <1>2, <1>3 DEF Held
  <2>2. Own(r, m) => Announces(r, m)'
    <3>1. Brings(buffer[r].STATUS, "STATUS", m) => Brings(buffer'[r].STATUS, "STATUS", m)
      BY <1>5 DEF Brings
    <3>2. Own(r, m) => Own(r, m)'
      BY <1>2, <1>3, <3>1 DEF Own
    <3> QED BY <1>2, <3>2 DEF Announces, Up
  <2>3. Ready(r, m) => Reached(r, m)'
    <3>1. Brings(buffer[r].SHARE, "SHARE", m) => Brings(buffer'[r].SHARE, "SHARE", m)
      BY <1>5 DEF Brings
    <3>2. ToGreet(r) => ToGreet(r)'
      BY <1>2 DEF ToGreet
    <3> QED BY <1>3, <3>1, <3>2 DEF Ready, Reached
  <2> QED BY <2>1, <2>2, <2>3 DEF Passed
<1> QED BY <1>2, <1>3, <1>6, <1>7, <1>8, SourceStep, SpreadStep

LEMMA BidesSpread ==
  ASSUME AgreeInv, Bides
  PROVE  SourceInv' /\ SpreadInv'
<1> SUFFICES ASSUME Intact' PROVE SourceInv' /\ SpreadInv'
  BY DEF SourceInv, SpreadInv
<1>1. StepInv /\ SourceInv /\ SpreadInv /\ RestInv
  BY DEF AgreeInv, StepInv
<1>2. \A x \in Replicas : /\ life'[x] \in {"off", "up"}
                          /\ life'[x] = life[x] \/ (life[x] = "off" /\ life'[x] = "up" /\ timer'[x].GREET # Off)
  <2> TAKE x \in Replicas
  <2>1. life'[x] \in {"off", "up"}
    BY DEF Intact
  <2> QED BY <2>1 DEF Bides
<1>3. Intact
  BY <1>2 DEF Intact
<1>4. chan' = chan /\ \A x \in Replicas : Up(x) => Up(x)'
  BY <1>2 DEF Bides, Up
<1>5. \A x \in Replicas : \A m :
        /\ Level(x)' = Level(x) /\ (BacksOff(x, m) <=> BacksOff(x, m)') /\ Heeded(x)' = Heeded(x)
        /\ (Own(x, m) => Own(x, m)') /\ (Ready(x, m) => Ready(x, m)')
  <2> TAKE x \in Replicas
  <2> TAKE m
  <2>1. Level(x)' = Level(x) /\ (BacksOff(x, m) <=> BacksOff(x, m)') /\ Heeded(x)' = Heeded(x)
    BY DEF Bides, Level, BacksOff, Heeded
  <2>2. Own(x, m) => Own(x, m)'
    BY <2>1 DEF Bides, Own
  <2>3. Ready(x, m) => Ready(x, m)'
    BY <2>1 DEF Bides, Ready, Raised, ToGreet
  <2> QED BY <2>1, <2>2, <2>3
<1>6. \A m : Held(m) => Held(m)'
  BY <1>4, <1>5 DEF Held
<1>7. SourceInv'
  <2>1. ASSUME NEW x \in Replicas
        PROVE  /\ \A s \in Replicas : \A msg \in Elements(chan'[x][s]) :
                    msg.type \in {"STATUS", "SHARE"} => Held(msg.rateLimitMultiplier)'
               /\ \A m \in Heeded(x)' : Held(m)'
    BY <1>1, <1>3, <1>4, <1>5, <1>6 DEF SourceInv
  <2> QED BY <2>1 DEF SourceInv
<1>8. ASSUME NEW m \in Nat, Held(m)' PROVE Spreads(m)'
  <2>1. CASE Held(m)
    <3>1. Spreads(m)
      BY <1>1, <1>3, <2>1 DEF SpreadInv
    <3>2. ASSUME NEW x \in Replicas, Announces(x, m) PROVE Spreads(m)'
      <4>1. Up(x) /\ (Own(x, m) \/ Answers(x, m) \/ Inquires(x, m))
        BY <3>2 DEF Announces
      <4>2. Answers(x, m) => Answers(x, m)'
        BY <1>4 DEF Answers
      <4>3. Inquires(x, m) => Inquires(x, m)'
        BY <1>4, <1>5 DEF Inquires
      <4> QED BY <1>4, <1>5, <4>1, <4>2, <4>3 DEF Announces, Spreads
    <3>3. ASSUME \A x \in Replicas : Up(x) => Reached(x, m) PROVE Spreads(m)'
      <4>1. ASSUME NEW x \in Replicas, Up(x)' PROVE Reached(x, m)'
        <5>1. CASE Up(x)
          <6>1. Coming(x, m) => Coming(x, m)'
            BY <1>4 DEF Coming
          <6> QED BY <1>5, <3>3, <5>1, <6>1 DEF Reached
        <5>2. CASE ~Up(x)
          BY <1>2, <4>1, <5>2 DEF Up, Reached, Ready, ToGreet
        <5> QED BY <5>1, <5>2
      <4> QED BY <4>1 DEF Spreads
    <3> QED BY <3>1, <3>2, <3>3 DEF Spreads
  <2>2. CASE ~Held(m)
    <3>1. PICK x \in Replicas : Up(x)' /\ (Level(x)' >= m \/ BacksOff(x, m)')
      BY <1>8 DEF Held
    <3>2. life[x] = "off"
      BY <1>2, <1>5, <2>2, <3>1 DEF Held, Up
    <3>3. Level(x) = 1 /\ ~BacksOff(x, m)
      <4>1. RestOK(x)
        BY <1>1, <3>2 DEF RestInv
      <4>2. reloads[x] = <<>> /\ Level(x) = 1
        BY <3>2, <4>1 DEF RestOK, Level
      <4> QED BY <4>2, ElementsEmpty DEF BacksOff
    <3>4. 1 >= m
      BY <1>5, <3>1, <3>3
    <3>5. ASSUME NEW y \in Replicas PROVE Reached(y, m)'
      <4>1. Level(y)' >= m
        BY <1>1, <1>5, <3>4, Numbers
      <4> QED BY <4>1 DEF Reached, Ready, Raised
    <3> QED BY <3>5 DEF Spreads
  <2> QED BY <2>1, <2>2
<1> QED BY <1>7, <1>8 DEF SpreadInv

\* Who proceeds is up, and stays up or fails.
LEMMA ProgressLife ==
  ASSUME NEW r \in Replicas, Progress(r)
  PROVE  Up(r) /\ (life' = life \/ Fail(r))
<1>1. CASE Greet(r) \/ ShareDue(r) \/ CloseDue(r) \/ PhaseTimeout(r)
  BY <1>1 DEF Greet, ShareDue, CloseDue, AwaitPhase, PhaseTimeout, Free
<1>2. CASE StatusDue(r) \/ MarketsStarted(r) \/ Reloaded(r) \/ SayHello(r, "HELLO") \/ SayHello(r, "CLUSTER")
  <2>1. CASE StatusDue(r)
    BY <2>1 DEF StatusDue, Free
  <2>2. CASE MarketsStarted(r)
    BY <2>2 DEF MarketsStarted, Free
  <2>3. CASE Reloaded(r)
    BY <2>3 DEF Reloaded, Free
  <2>4. CASE SayHello(r, "HELLO") \/ SayHello(r, "CLUSTER")
    BY <2>4 DEF SayHello, Granted
  <2> QED BY <1>2, <2>1, <2>2, <2>3, <2>4
<1>3. CASE HandleShare(r) \/ HandleClose(r)
  <2>1. CASE HandleShare(r)
    BY <2>1 DEF HandleShare, Granted
  <2>2. CASE HandleClose(r)
    BY SMTT(30), <2>2 DEF HandleClose, Granted
  <2> QED BY <1>3, <2>1, <2>2
<1>4. CASE BackoffStart(r) \/ HandleRateLimit(r) \/ \E s \in Replicas : Deliver(s, r)
  BY <1>4 DEF BackoffStart, HandleRateLimit, Deliver, Free
<1> QED BY <1>1, <1>2, <1>3, <1>4 DEF Progress

\* Who has failed or gone does not come back.
LEMMA LifeEnds ==
  ASSUME AllInv, [Next]_vars, NEW x \in Replicas, life[x] \notin {"off", "up"}
  PROVE  life'[x] \notin {"off", "up"}
<1>1. DOMAIN life = Replicas
  BY Everywhere
<1>2. ASSUME NEW r \in Replicas, Lifecycle(r) PROVE life'[x] \notin {"off", "up"}
  <2>1. CASE Boot(r)
    BY <1>1, <2>1 DEF Boot
  <2>2. CASE Stop(r) \/ Crash(r)
    BY <1>1, <2>2 DEF Stop, Crash, Forget
  <2>3. CASE Resync(r) \/ RateLimitExceeded(r)
    BY <1>1, <2>3 DEF Resync, RateLimitExceeded, Fail
  <2> QED BY <1>2, <2>1, <2>2, <2>3 DEF Lifecycle
<1>3. ASSUME NEW r \in Replicas, Progress(r) PROVE life'[x] \notin {"off", "up"}
  BY <1>1, <1>3, ProgressLife DEF Fail
<1>4. CASE Tick \/ UNCHANGED vars
  BY <1>4 DEF Tick, vars
<1> QED BY <1>2, <1>3, <1>4 DEF Next

LEMMA NextAgree == AgreeInv /\ [Next]_vars => AgreeInv'
<1> SUFFICES ASSUME AgreeInv, [Next]_vars PROVE AgreeInv'
  OBVIOUS
<1>1. StepInv /\ UpwardInv /\ AllInv /\ TypeInv
  BY StepParts DEF AgreeInv
<1>2. UpwardInv' /\ NoFall
  BY <1>1, NextIInv, NextRound, NextPlace, NextRates, NextRise, AllPositive DEF AllInv, UpwardInv
<1>3. StepInv'
  BY <1>1, <1>2, NextTypes, NextRest DEF StepInv, AllInv
<1>4. ~Intact => ~Intact'
  <2>1. ASSUME NEW x \in Replicas, life[x] \notin {"off", "up"} PROVE life'[x] \notin {"off", "up"}
    BY <1>1, <2>1, LifeEnds
  <2> QED BY <2>1 DEF Intact
<1> SUFFICES ASSUME Intact PROVE SourceInv' /\ SpreadInv'
  BY <1>3, <1>4 DEF AgreeInv, SourceInv, SpreadInv
<1>5. \A r \in Replicas : Up(r) /\ Up(r)' => Level(r)' >= Level(r)
  BY <1>2 DEF NoFall, Level
<1>6. ASSUME NEW r \in Replicas, Stop(r) \/ Crash(r) PROVE SourceInv' /\ SpreadInv'
  <2>1. life' = [life EXCEPT ![r] = "gone"] /\ DOMAIN life = Replicas
    BY <1>1, <1>6, StepParts DEF Stop, Crash, Forget
  <2> QED BY <2>1, Departs
<1>7. ASSUME NEW r \in Replicas, Lifecycle(r) PROVE SourceInv' /\ SpreadInv'
  BY <1>1, <1>6, <1>7, OthersBide, BidesSpread DEF Lifecycle, Prepares
<1>8. ASSUME NEW r \in Replicas, Progress(r), life' = life PROVE SourceInv' /\ SpreadInv'
  <2>1. Level(r)' >= Level(r)
    BY <1>5, <1>8, ProgressLife DEF Up
  <2> QED BY <1>1, <1>8, <2>1, Tellings, OthersBide, BidesSpread, SayHelloSpread, StatusDueSpread,
       MarketsStartedSpread, HandleShareSpread, HandleCloseSpread, HandleRateLimitSpread, ReloadedSpread,
       DeliverSpread DEF Progress, Prepares
<1>9. ASSUME NEW r \in Replicas, Progress(r) PROVE SourceInv' /\ SpreadInv'
  <2>1. CASE Fail(r)
    <3>1. life'[r] = "failing"
      BY <1>1, <2>1, StepParts DEF Fail
    <3> QED BY <3>1, Departs
  <2> QED BY <1>8, <1>9, <2>1, ProgressLife
<1>10. CASE Tick
  BY <1>1, <1>10, TickBides, BidesSpread
<1>11. CASE UNCHANGED vars
  <2>1. UNCHANGED <<chan, buffer, starting, started, reloads, internal, running, life, timer, phase>>
    BY <1>11 DEF vars
  <2>2. Bides
    BY <2>1 DEF Bides
  <2> QED BY <2>2, BidesSpread
<1> QED BY <1>7, <1>9, <1>10, <1>11 DEF Next

\* At rest nobody has anything left to tell or to ask.
LEMMA NothingToTell ==
  ASSUME AgreeInv, Quiet, NEW x \in Replicas, Up(x)
  PROVE  /\ timer[x].GREET = Off /\ reloads[x] = <<>> /\ starting[x] = <<>>
         /\ \A who \in Holders : who \notin Wanted(phase[x]) /\ who \notin Awaited(phase[x])
         /\ \A s \in Replicas : Elements(chan[x][s]) = {}
         /\ Elements(reloads[x]) = {} /\ Elements(buffer[x].STATUS) = {} /\ Elements(buffer[x].SHARE) = {}
<1>1. /\ timer[x] = NoTimers /\ phase[x] = FreePhase /\ reloads[x] = <<>> /\ starting[x] = <<>>
      /\ \A s \in Replicas : chan[x][s] = <<>>
  BY DEF Quiet, Live
<1>2. StepInv /\ UpwardInv /\ RestOK(x) /\ RiseOK(x)
  <2>1. StepInv
    BY DEF AgreeInv
  <2> QED BY <2>1, StepParts, RestOfUp, UpRises
<1>3. timer[x].GREET = Off /\ timer[x].STATUS = Off /\ timer[x].SHARE = Off
  BY <1>1 DEF NoTimers, Buffered
<1>4. Elements(<<>>) = {}
  BY ElementsEmpty
<1>5. \A who \in Holders : who \notin Wanted(phase[x]) /\ who \notin Awaited(phase[x])
  BY <1>1, <1>4 DEF FreePhase, Wanted, Awaited, Holders, Round
<1>6. buffer[x].STATUS = <<>> /\ buffer[x].SHARE = <<>>
  BY <1>2, <1>3, <1>5 DEF RiseOK, RestOK, Heeding, Holders
<1> QED BY <1>1, <1>3, <1>4, <1>5, <1>6

LEMMA AgreedAtRest == AgreeInv => MultiplierAgrees
<1> SUFFICES ASSUME AgreeInv, Quiet PROVE MultiplierAgrees
  BY DEF MultiplierAgrees
<1>1. StepInv /\ SpreadInv /\ {"HELLO", "CLUSTER", "SHARE"} \subseteq Holders
  BY DEF AgreeInv, Holders, Round
<1>2. ASSUME NEW x \in Live PROVE running[x] = internal[x]
  <2>1. x \in Replicas /\ Up(x)
    BY <1>2 DEF Live
  <2>2. RestOK(x) /\ timer[x].GREET = Off /\ "HELLO" \notin Wanted(phase[x]) /\ reloads[x] = <<>>
    BY <1>1, <2>1, RestOfUp, NothingToTell
  <2> QED BY <2>1, <2>2 DEF RestOK, Launched, InStep
<1>3. ASSUME Intact, NEW m \in Nat, Held(m), NEW x \in Live PROVE Level(x) >= m
  <2>1. Spreads(m)
    BY <1>1, <1>3 DEF SpreadInv
  <2>2. ASSUME NEW y \in Replicas PROVE ~Announces(y, m)
    <3> SUFFICES ASSUME Up(y) PROVE ~Own(y, m) /\ ~Answers(y, m) /\ ~Inquires(y, m)
      BY DEF Announces
    <3>1. ~Own(y, m)
      BY <1>1, NothingToTell DEF Own, BacksOff, Brings
    <3>2. ~Answers(y, m)
      BY NothingToTell DEF Answers, Brings
    <3>3. ~Inquires(y, m)
      BY NothingToTell DEF Inquires
    <3> QED BY <3>1, <3>2, <3>3
  <2>3. x \in Replicas /\ Up(x)
    BY <1>3 DEF Live
  <2>4. Reached(x, m)
    BY <2>1, <2>2, <2>3 DEF Spreads
  <2>5. ~Coming(x, m) /\ ~ToGreet(x) /\ ~Brings(buffer[x].SHARE, "SHARE", m)
    BY <1>1, <2>3, NothingToTell DEF Coming, Brings, ToGreet
  <2>6. Raised(x, m)
    BY <2>4, <2>5 DEF Reached, Ready
  <2> QED BY <2>3, <2>6, NothingToTell DEF Raised
<1>4. ASSUME Intact, NEW r \in Live, NEW p \in Live PROVE Level(p) >= Level(r)
  <2>1. r \in Replicas /\ Up(r) /\ Level(r) \in Nat
    BY <1>1, <1>4, Numbers DEF Live
  <2>2. Held(Level(r))
    BY <2>1 DEF Held
  <2> QED BY <1>3, <1>4, <2>1, <2>2
<1>5. ASSUME Intact, NEW r \in Live, NEW p \in Live PROVE Level(r) = Level(p)
  <2>1. Level(p) >= Level(r) /\ Level(r) >= Level(p)
    BY <1>4, <1>5
  <2>2. Level(r) \in Nat /\ Level(p) \in Nat
    BY <1>1, Numbers DEF Live
  <2> QED BY <2>1, <2>2
<1>6. ASSUME Intact, NEW r \in Live, NEW p \in Live
      PROVE  running[r].rateLimitMultiplier = running[p].rateLimitMultiplier
  BY <1>2, <1>5, <1>6 DEF Level
<1> QED BY <1>2, <1>6 DEF MultiplierAgrees

LEMMA InitAgree == Init /\ budget.late = {} => AgreeInv
<1> SUFFICES ASSUME Init, budget.late = {} PROVE AgreeInv
  OBVIOUS
<1>1. UpwardInv /\ TypeInv
  <2>1. Reachable(Positive)
    BY DEF Reachable, Positive
  <2> QED BY <2>1, InitIInv, InitRound, InitPlace, InitRates, InitRise, InitTypes, AllPositive DEF AllInv, UpwardInv
<1>2. \A x \in Replicas :
        /\ internal[x] = DefaultConfig /\ ~started[x] /\ starting[x] = <<>> /\ reloads[x] = <<>>
        /\ buffer[x].STATUS = <<>> /\ buffer[x].SHARE = <<>>
        /\ timer[x].GREET # Off \/ life[x] = "off"
        /\ \A s \in Replicas : chan[x][s] = <<>>
  <2> TAKE x \in Replicas
  <2>1. /\ internal[x] = DefaultConfig /\ ~started[x] /\ starting[x] = <<>> /\ reloads[x] = <<>>
        /\ \A s \in Replicas : chan[x][s] = <<>>
    BY DEF Init
  <2>2. buffer[x].STATUS = <<>> /\ buffer[x].SHARE = <<>>
    BY DEF Init, Buffered
  <2>3. timer[x].GREET # Off \/ life[x] = "off"
    BY DelaysAssumption DEF Init, NoTimers, Off
  <2> QED BY <2>1, <2>2, <2>3
<1>3. RestInv
  BY <1>2 DEF RestInv, RestOK, Launched, Heeding, DefaultConfig, Up
<1>4. Elements(<<>>) = {}
  BY ElementsEmpty
<1>5. SourceInv
  BY <1>2, <1>4 DEF SourceInv, Heeded
<1>6. SpreadInv
  <2> SUFFICES ASSUME NEW m \in Nat PROVE Spreads(m)
    BY DEF SpreadInv
  <2>1. ASSUME NEW x \in Replicas, Up(x) PROVE ToGreet(x)
    BY <1>2, <2>1 DEF Up, ToGreet
  <2> QED BY <2>1 DEF Spreads, Reached, Ready
<1> QED BY <1>1, <1>3, <1>5, <1>6 DEF AgreeInv, StepInv

THEOREM AllAgree == Spec /\ budget.late = {} => []AgreeInv
BY InitAgree, NextAgree, PTL DEF Spec

\* As long as no message is late: at rest the schedulers run with what the
\* internal one says, and while nobody has left, all with one multiplier.
THEOREM MultiplierAgreesHolds == Spec /\ budget.late = {} => []MultiplierAgrees
BY AllAgree, AgreedAtRest, PTL

=============================================================================
