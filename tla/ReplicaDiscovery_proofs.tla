---------------------- MODULE ReplicaDiscovery_proofs ----------------------
(***************************************************************************)
(* What holds of replica discovery for any number of replicas, any delays  *)
(* the schema allows and any number of joins, departures, crashes and rate *)
(* limit failures: first however late the messages are, then, of the       *)
(* rounds, of the slots that replicas take in them and of the multipliers  *)
(* they learn, as long as none is late; that nobody fails as long as       *)
(* nobody is asked to leave and no rate limit is exceeded; and that every  *)
(* variable has its type, again however late the messages are.             *)
(***************************************************************************)
EXTENDS ReplicaDiscovery, SequenceTheorems, FiniteSetTheorems, WellFoundedInduction, TLAPS

\* A reload under way that ends with a release of the phase lock.
Releasing(calls) == \E i \in DOMAIN calls : calls[i].by # "BACKOFF"

\* A lock p that somebody will free, where left is what its timer has left and
\* calls are the pending reloads.  A free lock has not been entered.
Sound(p, left, calls) ==
  /\ p \in LockType
  /\ p.held = "none" => p.queue = <<>> /\ ~p.entered
  /\ p.held \in Round /\ p.entered => left # Off
  /\ p.held \in {"SHARE", "CLOSE"} /\ p.entered => Releasing(calls)

LockInv ==
  /\ phase \in [Replicas -> LockType] /\ timer \in [Replicas -> [Timers -> Int]]
  /\ DOMAIN reloads = Replicas
  /\ \A r \in Replicas : IsSeq(reloads[r]) /\ Sound(phase[r], timer[r].PHASE, reloads[r])

ListInv ==
  /\ known \in [Replicas -> SUBSET Lists] /\ started \in [Replicas -> BOOLEAN]
  /\ DOMAIN starting = Replicas /\ StartedKnowsMembers

IInv == LockInv /\ ListInv

\* The variables of the two halves.
lockVars == <<phase, timer, reloads>>
listVars == <<known, started, starting>>

-----------------------------------------------------------------------------
(* Sequences of calls. *)

LEMMA IsSeqEmpty == IsSeq(<<>>) /\ ~Releasing(<<>>)
BY DEF IsSeq, Releasing

LEMMA SeqIsSeq ==
  ASSUME NEW S, NEW s \in Seq(S)
  PROVE  IsSeq(s)
<1> DEFINE T == {s[i] : i \in DOMAIN s}
<1>1. PICK n \in Nat : s \in [1..n -> S]
  BY SeqDef
<1>2. \A i \in 1..n : s[i] \in T
  BY <1>1
<1>3. s \in [1..n -> T]
  BY <1>1, <1>2
<1> HIDE DEF T
<1>4. s \in Seq(T)
  BY <1>3, SeqDef
<1> QED BY <1>4 DEF IsSeq, T

\* A call that has been queued is still pending, and so are those before it.
LEMMA AppendCall ==
  ASSUME NEW s, IsSeq(s), NEW e
  PROVE  /\ IsSeq(Append(s, e))
         /\ Releasing(s) \/ e.by # "BACKOFF" => Releasing(Append(s, e))
<1> DEFINE S == {s[i] : i \in DOMAIN s}
<1>1. s \in Seq(S)
  BY DEF IsSeq
<1> HIDE DEF S
<1>2. s \in Seq(S \cup {e})
  BY <1>1, SeqMonotonic
<1>3. /\ Append(s, e) \in Seq(S \cup {e})
      /\ \A i \in DOMAIN s : i \in DOMAIN Append(s, e) /\ Append(s, e)[i] = s[i]
      /\ Len(s) + 1 \in DOMAIN Append(s, e)
      /\ Append(s, e)[Len(s) + 1] = e
  BY <1>2
<1> QED BY <1>3, SeqIsSeq DEF Releasing

\* The end of a call for a backoff leaves the others pending.
LEMMA TailCall ==
  ASSUME NEW s, IsSeq(s), s # <<>>
  PROVE  /\ IsSeq(Tail(s))
         /\ Head(s).by = "BACKOFF" /\ Releasing(s) => Releasing(Tail(s))
<1> DEFINE S == {s[i] : i \in DOMAIN s}
<1>1. s \in Seq(S)
  BY DEF IsSeq
<1> HIDE DEF S
<1>2. /\ Tail(s) \in Seq(S)
      /\ DOMAIN Tail(s) = 1..(Len(s) - 1)
      /\ \A i \in DOMAIN Tail(s) : Tail(s)[i] = s[i + 1]
      /\ Head(s) = s[1]
      /\ DOMAIN s = 1..Len(s) /\ Len(s) \in Nat
  BY <1>1
<1>3. ASSUME Head(s).by = "BACKOFF", NEW i \in DOMAIN s, s[i].by # "BACKOFF"
      PROVE  Releasing(Tail(s))
  <2>1. i # 1
    BY <1>2, <1>3
  <2>2. i - 1 \in DOMAIN Tail(s) /\ Tail(s)[i - 1] = s[i]
    BY <1>2, <2>1
  <2> QED BY <1>3, <2>2 DEF Releasing
<1> QED BY <1>2, <1>3, SeqIsSeq DEF Releasing

-----------------------------------------------------------------------------
(* The lock. *)

\* A lock that is free, or whose holder has yet to go on, asks for nothing.
LEMMA FreePhaseSound ==
  ASSUME NEW left, NEW calls
  PROVE  Sound(FreePhase, left, calls)
BY DEF Sound, FreePhase, LockType, Holders, Round

\* acquire() takes a free lock at once, so it makes nobody wait for it.
LEMMA AcquiredSound ==
  ASSUME NEW p, NEW left, NEW calls, Sound(p, left, calls), NEW who \in Holders
  PROVE  Sound(Acquired(p, who), left, calls)
<1>1. CASE p.held = "none"
  <2>1. Acquired(p, who) = [p EXCEPT !.held = who]
    BY <1>1 DEF Acquired
  <2>2. ~p.entered
    BY <1>1 DEF Sound
  <2>3. who # "none"
    BY DEF Holders, Round
  <2> QED BY <2>1, <2>2, <2>3 DEF Sound, LockType
<1>2. CASE p.held # "none"
  <2>1. Acquired(p, who) = [p EXCEPT !.queue = Append(@, who)]
    BY <1>2 DEF Acquired
  <2>2. Append(p.queue, who) \in Seq(Holders)
    BY DEF Sound, LockType
  <2> QED BY <1>2, <2>1, <2>2 DEF Sound, LockType
<1> QED BY <1>1, <1>2

\* release() hands the lock to the first in the queue, whoever held it.
LEMMA ReleasedSound ==
  ASSUME NEW p \in LockType, NEW left, NEW calls
  PROVE  Sound(Released(p), left, calls)
<1>1. CASE p.queue = <<>>
  BY <1>1, FreePhaseSound DEF Released
<1>2. CASE p.queue # <<>>
  <2>1. Released(p) = [held |-> Head(p.queue), entered |-> FALSE, queue |-> Tail(p.queue)]
    BY <1>2 DEF Released
  <2>2. p.queue \in Seq(Holders)
    BY DEF LockType
  <2>3. Head(p.queue) \in Holders /\ Tail(p.queue) \in Seq(Holders)
    BY <1>2, <2>2
  <2>4. "none" \notin Holders
    BY DEF Holders, Round
  <2> QED BY <2>1, <2>3, <2>4 DEF Sound, LockType
<1> QED BY <1>1, <1>2

\* The code after acquire() runs and sees to it that the lock will be freed.
LEMMA EnteredSound ==
  ASSUME NEW p \in LockType, NEW left, NEW calls,
         \/ p.held \in Round /\ left # Off
         \/ p.held \in {"SHARE", "CLOSE"} /\ Releasing(calls)
  PROVE  Sound([p EXCEPT !.entered = TRUE], left, calls)
<1>1. p.held # "none" /\ ~(p.held \in Round /\ p.held \in {"SHARE", "CLOSE"})
  BY DEF Round
<1>2. [p EXCEPT !.entered = TRUE].held = p.held /\ [p EXCEPT !.entered = TRUE] \in LockType
  BY DEF LockType
<1> QED BY <1>1, <1>2 DEF Sound

-----------------------------------------------------------------------------
(* Steps in general. *)

\* A step of r keeps the lock invariant if it keeps r's share of it.
LEMMA LockStep ==
  ASSUME LockInv, NEW r \in Replicas,
         NEW p, phase' = phase \/ phase' = [phase EXCEPT ![r] = p],
         NEW t, timer' = timer \/ timer' = [timer EXCEPT ![r] = t],
         NEW q, reloads' = reloads \/ reloads' = [reloads EXCEPT ![r] = q],
         timer'[r] \in [Timers -> Int], IsSeq(reloads'[r]),
         Sound(phase'[r], timer'[r].PHASE, reloads'[r])
  PROVE  LockInv'
<1>1. \A x \in Replicas : x # r => /\ phase'[x] = phase[x]
                                   /\ timer'[x] = timer[x]
                                   /\ reloads'[x] = reloads[x]
  BY DEF LockInv
<1>2. DOMAIN reloads' = Replicas
  BY DEF LockInv
<1>3. phase'[r] \in LockType
  BY DEF Sound
<1>4. phase' \in [Replicas -> LockType]
  BY <1>1, <1>3 DEF LockInv
<1>5. timer' \in [Replicas -> [Timers -> Int]]
  BY <1>1 DEF LockInv
<1>6. \A x \in Replicas : IsSeq(reloads'[x]) /\ Sound(phase'[x], timer'[x].PHASE, reloads'[x])
  BY <1>1 DEF LockInv
<1> QED BY <1>2, <1>4, <1>5, <1>6 DEF LockInv

\* A step that only does something with r's lock.
LEMMA PhaseStep ==
  ASSUME LockInv, NEW r \in Replicas, NEW p, Sound(p, timer[r].PHASE, reloads[r]),
         phase' = [phase EXCEPT ![r] = p], UNCHANGED <<timer, reloads>>
  PROVE  LockInv'
<1>1. phase'[r] = p
  BY DEF LockInv
<1> QED BY <1>1, LockStep DEF LockInv

LEMMA IdleLock ==
  ASSUME LockInv, UNCHANGED lockVars
  PROVE  LockInv'
BY DEF LockInv, lockVars

\* What becomes of r's lists and start.
LEMMA ListStep ==
  ASSUME ListInv, NEW r \in Replicas,
         NEW k \in SUBSET Lists, known' = known \/ known' = [known EXCEPT ![r] = k],
         NEW b \in BOOLEAN, started' = started \/ started' = [started EXCEPT ![r] = b],
         NEW q, starting' = starting \/ starting' = [starting EXCEPT ![r] = q],
         started'[r] \/ starting'[r] # <<>> => known'[r] = Lists
  PROVE  ListInv'
<1>1. known' \in [Replicas -> SUBSET Lists] /\ started' \in [Replicas -> BOOLEAN]
      /\ DOMAIN starting' = Replicas
  BY DEF ListInv
<1>2. StartedKnowsMembers'
  BY DEF ListInv, StartedKnowsMembers
<1> QED BY <1>1, <1>2 DEF ListInv

LEMMA IdleLists ==
  ASSUME ListInv, UNCHANGED listVars
  PROVE  ListInv'
BY DEF ListInv, StartedKnowsMembers, listVars

LEMMA DelaysAreNat ==
  /\ InitDelay \in Nat /\ PhaseDelay \in Nat
  /\ \A type : DebounceDelay(type) \in Nat
BY DelaysAssumption DEF DebounceDelay

LEMMA TimersExcept ==
  ASSUME NEW t \in [Timers -> Int], NEW x, NEW d \in Int
  PROVE  [t EXCEPT ![x] = d] \in [Timers -> Int]
OBVIOUS

LEMMA OffIsInt == Off \in Int
BY DEF Off

\* A timer other than that of the lock is set or fires.
LEMMA OtherTimerStep ==
  ASSUME LockInv, NEW r \in Replicas, NEW t, NEW d \in Int, t # "PHASE" \/ d # Off,
         timer' = [timer EXCEPT ![r][t] = d], UNCHANGED reloads,
         NEW p, phase' = [phase EXCEPT ![r] = p] \/ phase' = phase,
         Sound(phase'[r], timer[r].PHASE, reloads[r])
  PROVE  LockInv'
<1>1. timer[r] \in [Timers -> Int] /\ "PHASE" \in Timers
  BY DEF LockInv, Timers
<1>2. timer' = [timer EXCEPT ![r] = [timer[r] EXCEPT ![t] = d]]
  OBVIOUS
<1>3. timer'[r] = [timer[r] EXCEPT ![t] = d]
  BY DEF LockInv
<1>4. timer'[r] \in [Timers -> Int]
  BY <1>1, <1>3
<1>5. timer[r].PHASE # Off => timer'[r].PHASE # Off
  BY <1>1, <1>3
<1>6. Sound(phase'[r], timer'[r].PHASE, reloads'[r])
  BY <1>5 DEF Sound
<1>7. IsSeq(reloads'[r])
  BY DEF LockInv
<1> QED BY <1>2, <1>4, <1>6, <1>7, LockStep

-----------------------------------------------------------------------------
(* The steps of the model. *)

\* The same, with the lock left alone.
LEMMA TimerStep ==
  ASSUME LockInv, NEW r \in Replicas, NEW t, NEW d \in Int, t # "PHASE" \/ d # Off,
         timer' = [timer EXCEPT ![r][t] = d], UNCHANGED <<phase, reloads>>
  PROVE  LockInv'
<1>1. phase' = [phase EXCEPT ![r] = phase[r]] \/ phase' = phase
  OBVIOUS
<1>2. Sound(phase'[r], timer[r].PHASE, reloads[r])
  BY DEF LockInv
<1> QED BY <1>1, <1>2, OtherTimerStep

LEMMA InitIInv == Init => IInv
<1> SUFFICES ASSUME Init PROVE IInv
  OBVIOUS
<1>1. ListInv
  BY DEF Init, ListInv, StartedKnowsMembers
<1>2. phase \in [Replicas -> LockType]
  BY DEF Init, FreePhase, LockType
<1>3. timer \in [Replicas -> [Timers -> Int]]
  BY DelaysAreNat DEF Init, NoTimers, Timers, Off
<1>4. \A r \in Replicas : IsSeq(reloads[r]) /\ Sound(phase[r], timer[r].PHASE, reloads[r])
  BY FreePhaseSound, IsSeqEmpty DEF Init
<1>5. DOMAIN reloads = Replicas
  BY DEF Init
<1> QED BY <1>1, <1>2, <1>3, <1>4, <1>5 DEF IInv, LockInv

LEMMA LifecycleStep ==
  ASSUME IInv, NEW r \in Replicas, Lifecycle(r)
  PROVE  IInv'
<1> USE DEF IInv
<1>1. CASE Boot(r)
  <2>1. ListInv'
    BY <1>1, IdleLists DEF Boot, listVars
  <2>2. /\ timer' = [timer EXCEPT ![r]["GREET"] = InitDelay]
        /\ UNCHANGED <<phase, reloads>>
    BY <1>1 DEF Boot, schedVars
  <2>3. InitDelay \in Int
    BY DelaysAreNat
  <2>4. LockInv'
    BY <2>2, <2>3, TimerStep
  <2> QED BY <2>1, <2>4
<1>2. ASSUME Forget(r) PROVE IInv'
  <2>1. ListInv'
    <3>1. /\ known' = [known EXCEPT ![r] = {}]
          /\ started' = [started EXCEPT ![r] = FALSE]
          /\ starting' = [starting EXCEPT ![r] = <<>>]
      BY <1>2 DEF Forget
    <3>2. started'[r] = FALSE /\ starting'[r] = <<>>
      BY <3>1 DEF ListInv
    <3>3. {} \in SUBSET Lists
      OBVIOUS
    <3> QED BY <3>1, <3>2, <3>3, ListStep
  <2>2. LockInv'
    <3>1. /\ phase' = [phase EXCEPT ![r] = FreePhase]
          /\ timer' = [timer EXCEPT ![r] = NoTimers]
          /\ reloads' = [reloads EXCEPT ![r] = <<>>]
      BY <1>2 DEF Forget
    <3>2. phase'[r] = FreePhase /\ timer'[r] = NoTimers /\ reloads'[r] = <<>>
      BY <3>1 DEF LockInv
    <3>3. NoTimers \in [Timers -> Int]
      BY DEF NoTimers, Timers, Off
    <3> QED BY <3>1, <3>2, <3>3, FreePhaseSound, IsSeqEmpty, LockStep
  <2> QED BY <2>1, <2>2
<1>3. CASE Stop(r)
  BY <1>2, <1>3 DEF Stop
<1>4. CASE Crash(r)
  BY <1>2, <1>4 DEF Crash
<1>5. CASE Resync(r)
  <2>1. Sound(Acquired(phase[r], "HELLO"), timer[r].PHASE, reloads[r])
    BY AcquiredSound DEF LockInv, Holders, Round
  <2>2. phase' = [phase EXCEPT ![r] = Acquired(phase[r], "HELLO")]
    BY <1>5 DEF Resync
  <2>3. LockInv'
    BY <1>5, <2>1, <2>2, PhaseStep DEF Resync, schedVars
  <2>4. ListInv'
    BY <1>5, IdleLists DEF Resync, listVars
  <2> QED BY <2>3, <2>4
<1>6. CASE RateLimitExceeded(r)
  BY <1>6, IdleLists, IdleLock DEF RateLimitExceeded, listVars, lockVars, roundVars
<1> QED BY <1>1, <1>3, <1>4, <1>5, <1>6 DEF Lifecycle

\* The timers whose callbacks wait for the lock.
LEMMA AwaitPhaseStep ==
  ASSUME IInv, NEW r \in Replicas, Greet(r) \/ ShareDue(r) \/ CloseDue(r)
  PROVE  IInv'
<1>1. PICK t \in {"GREET", "SHARE", "CLOSE"}, who \in {"HELLO", "SHARE", "CLOSE"} :
        AwaitPhase(r, t, who)
  BY DEF Greet, ShareDue, CloseDue
<1>2. Sound(Acquired(phase[r], who), timer[r].PHASE, reloads[r])
  BY AcquiredSound DEF IInv, LockInv, Holders, Round
<1>3. phase' = [phase EXCEPT ![r] = Acquired(phase[r], who)]
  BY <1>1 DEF AwaitPhase
<1>4. phase'[r] = Acquired(phase[r], who)
  BY <1>3 DEF IInv, LockInv
<1>5. timer' = [timer EXCEPT ![r][t] = Off] /\ UNCHANGED reloads /\ t # "PHASE"
  BY <1>1 DEF AwaitPhase, schedVars
<1>6. LockInv'
  BY <1>2, <1>3, <1>4, <1>5, OtherTimerStep, OffIsInt DEF IInv
<1>7. ListInv'
  BY <1>1, IdleLists DEF AwaitPhase, listVars, IInv
<1> QED BY <1>6, <1>7 DEF IInv

\* The broadcast of HELLO arms the timer of the lock.
LEMMA SayHelloStep ==
  ASSUME IInv, NEW r \in Replicas, NEW who \in Round, SayHello(r, who)
  PROVE  IInv'
<1> DEFINE p == [phase[r] EXCEPT !.entered = TRUE]
           t == [timer[r] EXCEPT !.PHASE = PhaseDelay]
<1>1. /\ phase' = [phase EXCEPT ![r] = p]
      /\ timer' = [timer EXCEPT ![r] = t]
      /\ UNCHANGED reloads
  BY DEF SayHello
<1>2. phase'[r] = p /\ timer'[r] = t
  BY <1>1 DEF IInv, LockInv
<1>3. t \in [Timers -> Int] /\ t.PHASE = PhaseDelay /\ PhaseDelay # Off
  BY DelaysAreNat DEF IInv, LockInv, Timers, Off
<1>4. phase[r].held \in Round /\ phase[r] \in LockType
  BY DEF SayHello, Granted, IInv, LockInv
<1>5. Sound(p, t.PHASE, reloads[r])
  BY <1>3, <1>4, EnteredSound
<1>6. LockInv'
  BY <1>1, <1>2, <1>3, <1>5, LockStep DEF IInv, LockInv
<1>7. ListInv'
  BY IdleLists DEF SayHello, listVars, IInv
<1> QED BY <1>6, <1>7 DEF IInv

\* Whoever releases the lock leaves it sound, whatever timers it drops.
LEMMA ReleaseStep ==
  ASSUME LockInv, NEW r \in Replicas,
         NEW t, timer' = timer \/ timer' = [timer EXCEPT ![r] = t],
         timer'[r] \in [Timers -> Int],
         NEW q, reloads' = reloads \/ reloads' = [reloads EXCEPT ![r] = q], IsSeq(reloads'[r]),
         phase' = [phase EXCEPT ![r] = Released(phase[r])]
  PROVE  LockInv'
<1>1. phase[r] \in LockType /\ phase'[r] = Released(phase[r])
  BY DEF LockInv
<1>2. Sound(phase'[r], timer'[r].PHASE, reloads'[r])
  BY <1>1, ReleasedSound
<1> QED BY <1>2, LockStep

LEMMA PhaseTimeoutStep ==
  ASSUME IInv, NEW r \in Replicas, PhaseTimeout(r)
  PROVE  IInv'
<1> DEFINE t == [timer[r] EXCEPT !.PHASE = Off]
<1>1. /\ timer' = [timer EXCEPT ![r] = t]
      /\ phase' = [phase EXCEPT ![r] = Released(phase[r])]
      /\ UNCHANGED reloads
  BY DEF PhaseTimeout, schedVars
<1>2. timer'[r] \in [Timers -> Int]
  BY <1>1, TimersExcept, OffIsInt DEF IInv, LockInv
<1>3. IsSeq(reloads'[r])
  BY <1>1 DEF IInv, LockInv
<1>4. LockInv'
  BY <1>1, <1>2, <1>3, ReleaseStep DEF IInv
<1>5. ListInv'
  BY IdleLists DEF PhaseTimeout, listVars, IInv
<1> QED BY <1>4, <1>5 DEF IInv

LEMMA StatusDueStep ==
  ASSUME IInv, NEW r \in Replicas, StatusDue(r)
  PROVE  IInv'
<1>1. ListInv'
  <2>1. known' = [known EXCEPT ![r] = Lists] /\ UNCHANGED started
    BY DEF StatusDue, Store
  <2>2. known'[r] = Lists
    BY <2>1 DEF IInv, ListInv
  <2>3. PICK q : starting' = starting \/ starting' = [starting EXCEPT ![r] = q]
    BY DEF StatusDue
  <2>4. Lists \in SUBSET Lists
    OBVIOUS
  <2>5. started[r] \in BOOLEAN
    BY DEF IInv, ListInv
  <2> HIDE DEF Lists
  <2> QED BY <2>1, <2>2, <2>3, <2>4, <2>5, ListStep DEF IInv
<1>2. LockInv'
  <2> DEFINE t == [timer[r] EXCEPT !.STATUS = Off]
             u == [t EXCEPT !.PHASE = Off]
  <2>1. timer[r] \in [Timers -> Int] /\ IsSeq(reloads[r])
        /\ Sound(phase[r], timer[r].PHASE, reloads[r])
    BY DEF IInv, LockInv
  <2>2. UNCHANGED reloads
    BY DEF StatusDue
  <2>3. CASE started[r]
    <3>1. timer' = [[timer EXCEPT ![r].STATUS = Off] EXCEPT ![r].PHASE = Off]
      BY <2>3 DEF StatusDue, ShareAndRelease
    <3>2. timer' = [timer EXCEPT ![r] = u]
      BY <3>1 DEF LockInv, IInv
    <3>3. timer'[r] \in [Timers -> Int]
      BY <2>1, <3>2, TimersExcept, OffIsInt DEF IInv, LockInv
    <3>4. phase' = [phase EXCEPT ![r] = Released(phase[r])]
      BY <2>3 DEF StatusDue, ShareAndRelease
    <3>5. IsSeq(reloads'[r])
      BY <2>1, <2>2
    <3> HIDE DEF u
    <3> QED BY <2>2, <3>2, <3>3, <3>4, <3>5, ReleaseStep DEF IInv
  <2>4. CASE ~started[r]
    <3>1. timer' = [timer EXCEPT ![r]["STATUS"] = Off] /\ UNCHANGED phase
      BY <2>4 DEF StatusDue
    <3> QED BY <2>2, <3>1, TimerStep, OffIsInt DEF IInv
  <2> QED BY <2>3, <2>4
<1> QED BY <1>1, <1>2 DEF IInv

LEMMA MarketsStartedStep ==
  ASSUME IInv, NEW r \in Replicas, MarketsStarted(r)
  PROVE  IInv'
<1>1. ListInv'
  <2>1. known[r] = Lists /\ UNCHANGED known
    BY DEF MarketsStarted, IInv, ListInv, StartedKnowsMembers
  <2>2. started' = [started EXCEPT ![r] = TRUE]
        /\ starting' = [starting EXCEPT ![r] = Tail(starting[r])]
    BY DEF MarketsStarted
  <2> QED BY <2>1, <2>2, ListStep DEF IInv
<1>2. LockInv'
  <2>1. /\ timer' = [timer EXCEPT ![r] = [timer[r] EXCEPT !.PHASE = Off]]
        /\ phase' = [phase EXCEPT ![r] = Released(phase[r])]
        /\ UNCHANGED reloads
    BY DEF MarketsStarted, ShareAndRelease
  <2>2. timer'[r] \in [Timers -> Int] /\ IsSeq(reloads'[r])
    BY <2>1, TimersExcept, OffIsInt DEF IInv, LockInv
  <2> QED BY <2>1, <2>2, ReleaseStep DEF IInv
<1> QED BY <1>1, <1>2 DEF IInv

\* A handler that has called reloadActive can count on its end.
LEMMA CalledStep ==
  ASSUME LockInv, NEW r \in Replicas, NEW by \in {"SHARE", "CLOSE"}, phase[r].held = by,
         NEW config, CallReload(r, by, config),
         phase' = [phase EXCEPT ![r].entered = TRUE], UNCHANGED timer
  PROVE  LockInv'
<1> DEFINE call == [by |-> by, config |-> config]
           p == [phase[r] EXCEPT !.entered = TRUE]
<1>1. /\ reloads' = [reloads EXCEPT ![r] = Append(reloads[r], call)]
      /\ phase' = [phase EXCEPT ![r] = p]
  BY DEF CallReload
<1>2. reloads'[r] = Append(reloads[r], call) /\ phase'[r] = p
  BY <1>1 DEF LockInv
<1>3. IsSeq(reloads[r]) /\ call.by # "BACKOFF"
  BY DEF LockInv
<1> HIDE DEF call
<1>4. IsSeq(reloads'[r]) /\ Releasing(reloads'[r])
  BY <1>2, <1>3, AppendCall
<1>5. phase[r] \in LockType
  BY DEF LockInv
<1>6. Sound(p, timer'[r].PHASE, reloads'[r])
  BY <1>4, <1>5, EnteredSound
<1>7. timer'[r] \in [Timers -> Int]
  BY DEF LockInv
<1> QED BY <1>1, <1>2, <1>4, <1>6, <1>7, LockStep

LEMMA HandleShareStep ==
  ASSUME IInv, NEW r \in Replicas, HandleShare(r)
  PROVE  IInv'
<1>1. ListInv'
  <2>1. UNCHANGED <<started, starting>>
    BY DEF HandleShare
  <2>2. PICK state : known' = known \/ known' = [known EXCEPT ![r] = known[r] \cup Given(state)]
    BY DEF HandleShare
  <2>3. known[r] \cup Given(state) \in SUBSET Lists /\ started[r] \in BOOLEAN
    BY DEF IInv, ListInv, Given
  <2>4. started'[r] \/ starting'[r] # <<>> => known'[r] = Lists
    BY <2>1, <2>2, <2>3 DEF IInv, ListInv, StartedKnowsMembers
  <2> QED BY <2>1, <2>2, <2>3, <2>4, ListStep DEF IInv
<1>2. LockInv'
  <2>1. phase[r].held = "SHARE" /\ UNCHANGED timer
    BY DEF HandleShare, Granted
  <2>2. \/ \E config : CallReload(r, "SHARE", config) /\ phase' = [phase EXCEPT ![r].entered = TRUE]
        \/ phase' = [phase EXCEPT ![r] = Released(phase[r])] /\ UNCHANGED reloads
    BY DEF HandleShare
  <2>3. timer'[r] \in [Timers -> Int] /\ IsSeq(reloads[r])
    BY <2>1 DEF IInv, LockInv
  <2> QED BY <2>1, <2>2, <2>3, CalledStep, ReleaseStep DEF IInv
<1> QED BY <1>1, <1>2 DEF IInv

LEMMA HandleCloseStep ==
  ASSUME IInv, NEW r \in Replicas, HandleClose(r)
  PROVE  IInv'
<1>1. ListInv'
  BY IdleLists DEF HandleClose, listVars, IInv
<1>2. phase[r].held = "CLOSE" /\ UNCHANGED timer
  BY DEF HandleClose, Granted
<1>3. \/ \E config : CallReload(r, "CLOSE", config) /\ phase' = [phase EXCEPT ![r].entered = TRUE]
      \/ phase' = [phase EXCEPT ![r] = Released(phase[r])] /\ UNCHANGED reloads
  BY DEF HandleClose
<1>4. timer'[r] \in [Timers -> Int] /\ IsSeq(reloads[r])
  BY <1>2 DEF IInv, LockInv
<1>5. LockInv'
  BY <1>2, <1>3, <1>4, CalledStep, ReleaseStep DEF IInv
<1> QED BY <1>1, <1>5 DEF IInv

\* The end of a reload: the one of a handler releases the lock, the one of a
\* backoff does not, and leaves the reload the holder counts on pending.
LEMMA ReloadedStep ==
  ASSUME IInv, NEW r \in Replicas, Reloaded(r)
  PROVE  IInv'
<1>1. ListInv'
  BY IdleLists DEF Reloaded, listVars, IInv
<1>2. /\ reloads[r] # <<>> /\ IsSeq(reloads[r]) /\ timer[r] \in [Timers -> Int]
      /\ Sound(phase[r], timer[r].PHASE, reloads[r])
  BY DEF Reloaded, IInv, LockInv
<1>3. reloads' = [reloads EXCEPT ![r] = Tail(reloads[r])]
  BY DEF Reloaded
<1>4. reloads'[r] = Tail(reloads[r]) /\ IsSeq(reloads'[r])
  BY <1>2, <1>3, TailCall DEF IInv, LockInv
<1>5. CASE Head(reloads[r]).by = "BACKOFF"
  <2>1. phase' = [phase EXCEPT ![r] = Acquired(phase[r], "CLUSTER")] /\ UNCHANGED timer
    BY <1>5 DEF Reloaded
  <2>2. Sound(phase[r], timer'[r].PHASE, reloads'[r])
    BY <1>2, <1>4, <1>5, <2>1, TailCall DEF Sound
  <2>3. Sound(Acquired(phase[r], "CLUSTER"), timer'[r].PHASE, reloads'[r])
    BY <2>2, AcquiredSound DEF Holders, Round
  <2>4. phase'[r] = Acquired(phase[r], "CLUSTER") /\ timer'[r] \in [Timers -> Int]
    BY <1>2, <2>1 DEF IInv, LockInv
  <2>5. LockInv'
    BY <1>3, <1>4, <2>1, <2>3, <2>4, LockStep DEF IInv
  <2> QED BY <1>1, <2>5 DEF IInv
<1>6. CASE Head(reloads[r]).by # "BACKOFF"
  <2>1. /\ timer' = [timer EXCEPT ![r] = [timer[r] EXCEPT !.PHASE = Off]]
        /\ phase' = [phase EXCEPT ![r] = Released(phase[r])]
    BY <1>6 DEF Reloaded
  <2>2. timer'[r] \in [Timers -> Int]
    BY <1>2, <2>1, TimersExcept, OffIsInt DEF IInv, LockInv
  <2>3. LockInv'
    BY <1>3, <1>4, <2>1, <2>2, ReleaseStep DEF IInv
  <2> QED BY <1>1, <2>3 DEF IInv
<1> QED BY <1>5, <1>6

\* A message restarts a debounce timer.
LEMMA DeliverStep ==
  ASSUME IInv, NEW r \in Replicas, NEW s \in Replicas, Deliver(s, r)
  PROVE  IInv'
<1>1. ListInv'
  BY IdleLists DEF Deliver, listVars, IInv
<1>2. UNCHANGED <<phase, reloads>>
  BY DEF Deliver, schedVars
<1>3. CASE UNCHANGED timer
  BY <1>1, <1>2, <1>3, IdleLock DEF lockVars, IInv
<1>4. ASSUME NEW type, timer' = [timer EXCEPT ![r][type] = DebounceDelay(type)]
      PROVE  IInv'
  <2>1. DebounceDelay(type) \in Int /\ DebounceDelay(type) # Off
    BY DelaysAreNat DEF Off
  <2>2. LockInv'
    BY <1>2, <1>4, <2>1, TimerStep DEF IInv
  <2> QED BY <1>1, <2>2 DEF IInv
<1> QED BY <1>3, <1>4 DEF Deliver

LEMMA BackoffSteps ==
  ASSUME IInv, NEW r \in Replicas, BackoffStart(r) \/ HandleRateLimit(r)
  PROVE  IInv'
<1>1. UNCHANGED roundVars
  BY DEF BackoffStart, HandleRateLimit
<1>2. ListInv'
  BY <1>1, IdleLists DEF roundVars, listVars, IInv
<1>3. CASE UNCHANGED reloads
  BY <1>1, <1>2, <1>3, IdleLock DEF roundVars, lockVars, IInv
<1>4. ASSUME NEW config, CallReload(r, "BACKOFF", config) PROVE IInv'
  <2> DEFINE call == [by |-> "BACKOFF", config |-> config]
  <2>1. reloads' = [reloads EXCEPT ![r] = Append(reloads[r], call)]
    BY <1>4 DEF CallReload
  <2>2. reloads'[r] = Append(reloads[r], call)
    BY <2>1 DEF IInv, LockInv
  <2> HIDE DEF call
  <2>3. IsSeq(reloads'[r]) /\ (Releasing(reloads[r]) => Releasing(reloads'[r]))
    BY <2>2, AppendCall DEF IInv, LockInv
  <2>4. Sound(phase'[r], timer'[r].PHASE, reloads'[r]) /\ timer'[r] \in [Timers -> Int]
    BY <1>1, <2>3 DEF roundVars, Sound, IInv, LockInv
  <2>5. LockInv'
    BY <1>1, <2>1, <2>3, <2>4, LockStep DEF roundVars, IInv
  <2> QED BY <1>2, <2>5 DEF IInv
<1> QED BY <1>3, <1>4 DEF BackoffStart, HandleRateLimit

\* Time passes: a timer that is pending stays so.
LEMMA TickStep ==
  ASSUME IInv, Tick
  PROVE  IInv'
<1>1. ListInv'
  BY IdleLists DEF Tick, listVars, IInv
<1>2. UNCHANGED <<phase, reloads>>
  BY DEF Tick, schedVars
<1>3. timer' = [r \in Replicas |->
         [t \in DOMAIN timer[r] |-> IF timer[r][t] > 0 THEN timer[r][t] - 1 ELSE timer[r][t]]]
  BY DEF Tick
<1>4. ASSUME NEW r \in Replicas
      PROVE  /\ timer'[r] \in [Timers -> Int]
             /\ timer[r].PHASE # Off => timer'[r].PHASE # Off
  <2>1. timer[r] \in [Timers -> Int] /\ "PHASE" \in Timers
    BY DEF IInv, LockInv, Timers
  <2>2. timer'[r] = [t \in Timers |-> IF timer[r][t] > 0 THEN timer[r][t] - 1 ELSE timer[r][t]]
    BY <1>3, <2>1
  <2>3. timer'[r].PHASE = IF timer[r].PHASE > 0 THEN timer[r].PHASE - 1 ELSE timer[r].PHASE
    BY <2>1, <2>2
  <2> QED BY <2>1, <2>2, <2>3 DEF Off
<1>5. \A r \in Replicas : Sound(phase'[r], timer'[r].PHASE, reloads'[r])
  BY <1>2, <1>4 DEF Sound, IInv, LockInv
<1>6. timer' \in [Replicas -> [Timers -> Int]]
  BY <1>3, <1>4
<1>7. LockInv'
  BY <1>2, <1>5, <1>6 DEF IInv, LockInv
<1> QED BY <1>1, <1>7 DEF IInv

LEMMA NextIInv == IInv /\ [Next]_vars => IInv'
<1> SUFFICES ASSUME IInv, [Next]_vars PROVE IInv'
  OBVIOUS
<1>1. ASSUME NEW r \in Replicas, Lifecycle(r) PROVE IInv'
  BY <1>1, LifecycleStep
<1>2. ASSUME NEW r \in Replicas, Progress(r) PROVE IInv'
  <2>1. "HELLO" \in Round /\ "CLUSTER" \in Round
    BY DEF Round
  <2> QED BY <1>2, <2>1, AwaitPhaseStep, StatusDueStep, PhaseTimeoutStep, SayHelloStep,
       HandleShareStep, HandleCloseStep, MarketsStartedStep, ReloadedStep, BackoffSteps,
       DeliverStep DEF Progress
<1>3. CASE UNCHANGED vars
  BY <1>3, IdleLists, IdleLock DEF vars, lockVars, listVars, IInv
<1> QED BY <1>1, <1>2, <1>3, TickStep DEF Next

\* The invariant of which the theorems below are consequences.
THEOREM Inductive == Spec => []IInv
BY InitIInv, NextIInv, PTL DEF Spec

-----------------------------------------------------------------------------
(* The theorems. *)

\* Whatever STATUS messages are late or lost, a replica that starts its markets
\* has a list of its peers and one of the cluster (ReplicaDiscoveryPolicy's
\* handleStatusMessage aggregates before it starts).
THEOREM StartedKnowsMembersHolds == Spec => []StartedKnowsMembers
<1>1. IInv => StartedKnowsMembers
  BY DEF IInv, ListInv
<1> QED BY <1>1, Inductive, PTL

\* Nobody waits for the phase lock in vain: a free lock has no waiters, a round
\* in progress is timed and a handler's reload is pending, although rounds and
\* reloads release the lock without holding it.
THEOREM LockWillBeFreedHolds == Spec => []LockWillBeFreed
<1>1. IInv => LockWillBeFreed
  BY DEF IInv, LockInv, Sound, Releasing, LockWillBeFreed
<1> QED BY <1>1, Inductive, PTL

\* A CLOSE can only be the end of a replica that has not started.
LEMMA StartedSurvivesCloseStep ==
  ASSUME IInv, NEW r \in Replicas, started[r], HandleClose(r)
  PROVE  life'[r] = "up"
<1>1. known[r] = Lists
  BY DEF IInv, ListInv, StartedKnowsMembers
<1>2. UNCHANGED life
  BY <1>1 DEF HandleClose
<1>3. life[r] = "up"
  BY DEF HandleClose, Granted, Up
<1> QED BY <1>2, <1>3

\* A replica that has started survives the departure of any other, in any
\* order of the CLOSE messages with the rounds and shares under way.
THEOREM StartedSurvivesCloseHolds == Spec => StartedSurvivesClose
<1>1. IInv => [\A r \in Replicas : started[r] /\ HandleClose(r) => life'[r] = "up"]_vars
  BY StartedSurvivesCloseStep
<1> QED BY <1>1, Inductive, PTL DEF StartedSurvivesClose

-----------------------------------------------------------------------------
(* The rounds in time: as long as no message is late, every round ends      *)
(* before the phase lock times out and the lock is held through a reload.  *)

\* The types of the messages in a queue.
Types(q) == {q[i].type : i \in DOMAIN q}

InRound(p) == p.held \in Round /\ p.entered

\* Somebody has yet to answer the HELLO of r, or r to receive an answer.
Asking(r) ==
  \/ \E d \in Replicas : Up(d) /\ "HELLO" \in Types(chan[d][r])
  \/ \E s \in Replicas : "STATUS" \in Types(chan[r][s])

\* The answer r gives to itself is one of them.
OwnAnswer(r) == {"HELLO", "STATUS"} \cap Types(chan[r][r]) # {}

\* The stages of a round, by the timers t of its replica and the starts of the
\* markets it has called.  HELLO has been said in this very tick ...
Asked(t, calls, own) ==
  /\ calls = <<>> /\ t.PHASE = PhaseDelay /\ t.STATUS \in {Off, StatusDelay}
  /\ t.STATUS = Off => own

\* ... the answers have stopped; the timer of the lock is ahead of theirs by
\* more than the difference of the delays can use up ...
Debouncing(t, calls) ==
  /\ calls = <<>> /\ t.STATUS \in 0..StatusDelay /\ t.PHASE = t.STATUS + (PhaseDelay - StatusDelay)

\* ... the markets are being started, in one call.
StartingUp(t, calls) ==
  /\ calls # <<>> /\ Tail(calls) = <<>> /\ t.STATUS = Off /\ t.PHASE >= 1

Between(t, calls) == calls = <<>> /\ t.STATUS = Off /\ t.PHASE = Off

OnTime(p, t, calls, asking, own) ==
  IF InRound(p)
  THEN \/ Asked(t, calls, own)
       \/ ~asking /\ (Debouncing(t, calls) \/ StartingUp(t, calls))
  ELSE ~asking /\ Between(t, calls)

\* The one reload that a SHARE or a CLOSE asked for goes with a lock p that its
\* handler holds.
Covered(p, calls) ==
  \A i \in DOMAIN calls : calls[i].by # "BACKOFF" =>
    /\ calls[i].by \in {"SHARE", "CLOSE"} /\ p.held = calls[i].by /\ p.entered
    /\ \A j \in DOMAIN calls : calls[j].by # "BACKOFF" => i = j

RoundOK(r) ==
  /\ life[r] \in {"off", "up"} =>
       /\ OnTime(phase[r], timer[r], starting[r], Asking(r), OwnAnswer(r))
       /\ Covered(phase[r], reloads[r])
  /\ life[r] = "off" => ~InRound(phase[r]) /\ \A s \in Replicas : chan[r][s] = <<>>

MessageTypes == Buffered \cup {"HELLO"}

ChanOK(c) ==
  /\ DOMAIN c = Replicas /\ \A d \in Replicas : DOMAIN c[d] = Replicas
  /\ \A d, s \in Replicas : IsSeq(c[d][s]) /\ Types(c[d][s]) \subseteq MessageTypes

\* No message is late.
Punctual == \E rounds, failures : budget = [rounds |-> rounds, failures |-> failures, late |-> {}]

RoundInv ==
  /\ Punctual /\ life \in [Replicas -> {"off", "up", "failing", "gone"}] /\ ChanOK(chan)
  /\ \A r \in Replicas : RoundOK(r)

-----------------------------------------------------------------------------
(* Queues. *)

LEMMA AppendElements ==
  ASSUME NEW q, IsSeq(q), NEW m
  PROVE  /\ IsSeq(Append(q, m))
         /\ Len(q) \in Nat /\ DOMAIN q = 1..Len(q)
         /\ DOMAIN Append(q, m) = DOMAIN q \cup {Len(q) + 1} /\ Len(q) + 1 \notin DOMAIN q
         /\ \A i \in DOMAIN q : Append(q, m)[i] = q[i]
         /\ Append(q, m)[Len(q) + 1] = m
<1> DEFINE S == {q[i] : i \in DOMAIN q}
<1>1. q \in Seq(S)
  BY DEF IsSeq
<1> HIDE DEF S
<1>2. q \in Seq(S \cup {m})
  BY <1>1, SeqMonotonic
<1>3. /\ Append(q, m) \in Seq(S \cup {m})
      /\ DOMAIN q = 1..Len(q) /\ Len(q) \in Nat
      /\ DOMAIN Append(q, m) = 1..(Len(q) + 1)
      /\ \A i \in 1..Len(q) : Append(q, m)[i] = q[i]
      /\ Append(q, m)[Len(q) + 1] = m
  BY <1>2
<1>4. 1..(Len(q) + 1) = 1..Len(q) \cup {Len(q) + 1} /\ Len(q) + 1 \notin 1..Len(q)
  BY <1>3
<1> QED BY <1>3, <1>4, SeqIsSeq

LEMMA TailElements ==
  ASSUME NEW q, IsSeq(q), q # <<>>
  PROVE  /\ IsSeq(Tail(q)) /\ Head(q) = q[1] /\ 1 \in DOMAIN q
         /\ DOMAIN q \subseteq Nat
         /\ \A i \in DOMAIN Tail(q) : i \in Nat \ {0} /\ i + 1 \in DOMAIN q /\ Tail(q)[i] = q[i + 1]
         /\ \A i \in DOMAIN q : i # 1 => i - 1 \in DOMAIN Tail(q)
<1> DEFINE S == {q[i] : i \in DOMAIN q}
<1>1. q \in Seq(S)
  BY DEF IsSeq
<1> HIDE DEF S
<1>2. /\ Tail(q) \in Seq(S)
      /\ Len(q) \in Nat /\ Len(q) >= 1
      /\ DOMAIN q = 1..Len(q)
      /\ DOMAIN Tail(q) = 1..(Len(q) - 1)
      /\ \A i \in 1..(Len(q) - 1) : Tail(q)[i] = q[i + 1]
      /\ Head(q) = q[1]
  BY <1>1
<1>3. IsSeq(Tail(q))
  BY <1>2, SeqIsSeq
<1> QED BY <1>2, <1>3

LEMMA TypesEmpty == Types(<<>>) = {} /\ IsSeq(<<>>)
BY DEF Types, IsSeq

LEMMA TypesAppend ==
  ASSUME NEW q, IsSeq(q), NEW m
  PROVE  IsSeq(Append(q, m)) /\ Types(Append(q, m)) = Types(q) \cup {m.type}
BY AppendElements DEF Types

LEMMA TypesTail ==
  ASSUME NEW q, IsSeq(q), q # <<>>
  PROVE  /\ IsSeq(Tail(q))
         /\ Types(q) = {Head(q).type} \cup Types(Tail(q))
<1> DEFINE t == Tail(q)
<1>1. /\ IsSeq(t) /\ Head(q) = q[1] /\ 1 \in DOMAIN q
      /\ DOMAIN q \subseteq Nat
      /\ \A i \in DOMAIN t : i \in Nat \ {0} /\ i + 1 \in DOMAIN q /\ t[i] = q[i + 1]
      /\ \A i \in DOMAIN q : i # 1 => i - 1 \in DOMAIN t
  BY TailElements
<1> HIDE DEF t
<1>2. ASSUME NEW i \in DOMAIN q PROVE q[i].type \in {q[1].type} \cup Types(t)
  <2>1. CASE i = 1
    BY <2>1
  <2>2. CASE i # 1
    <3>1. i - 1 \in DOMAIN t /\ t[i - 1] = q[i]
      BY <1>1, <2>2
    <3> QED BY <3>1 DEF Types
  <2> QED BY <2>1, <2>2
<1>3. Types(t) \subseteq Types(q) /\ q[1].type \in Types(q)
  BY <1>1 DEF Types
<1>4. Types(q) \subseteq {q[1].type} \cup Types(t)
  BY <1>2 DEF Types
<1>5. Types(q) = {q[1].type} \cup Types(t)
  BY <1>3, <1>4
<1> QED BY <1>1, <1>5 DEF t

\* What a broadcast of s does to the queues: c is what they become.
Sent(c, s, msg) ==
  /\ ChanOK(c)
  /\ \A d, x \in Replicas : Types(c[d][x]) =
       IF Up(d) /\ x = s THEN Types(chan[d][x]) \cup {msg.type} ELSE Types(chan[d][x])
  /\ \A d, x \in Replicas : ~Up(d) => c[d][x] = chan[d][x]

LEMMA BroadcastEffect ==
  ASSUME ChanOK(chan), NEW s \in Replicas, NEW msg, msg.type \in MessageTypes,
         NEW c, c = Broadcast(s, msg)
  PROVE  Sent(c, s, msg)
<1>1. DOMAIN c = Replicas
  BY DEF Broadcast
<1>2. ASSUME NEW d \in Replicas
      PROVE  /\ DOMAIN c[d] = Replicas
             /\ ~Up(d) => c[d] = chan[d]
             /\ \A x \in Replicas : IsSeq(c[d][x]) /\ Types(c[d][x]) \subseteq MessageTypes
             /\ \A x \in Replicas : Types(c[d][x]) =
                  IF Up(d) /\ x = s THEN Types(chan[d][x]) \cup {msg.type} ELSE Types(chan[d][x])
  <2>1. c[d] = IF Up(d) THEN [chan[d] EXCEPT ![s] = Append(chan[d][s], msg)] ELSE chan[d]
    BY DEF Broadcast
  <2>2. /\ DOMAIN chan[d] = Replicas
        /\ \A x \in Replicas : IsSeq(chan[d][x]) /\ Types(chan[d][x]) \subseteq MessageTypes
    BY DEF ChanOK
  <2>3. \A x \in Replicas : c[d][x] = IF Up(d) /\ x = s THEN Append(chan[d][x], msg) ELSE chan[d][x]
    BY <2>1, <2>2
  <2>4. DOMAIN c[d] = Replicas
    BY <2>1, <2>2
  <2>5. ASSUME NEW x \in Replicas
        PROVE  /\ IsSeq(c[d][x]) /\ Types(c[d][x]) \subseteq MessageTypes
               /\ Types(c[d][x]) =
                    IF Up(d) /\ x = s THEN Types(chan[d][x]) \cup {msg.type} ELSE Types(chan[d][x])
    <3>1. CASE Up(d) /\ x = s
      BY <2>2, <2>3, <3>1, TypesAppend
    <3>2. CASE ~(Up(d) /\ x = s)
      BY <2>2, <2>3, <3>2
    <3> QED BY <3>1, <3>2
  <2> QED BY <2>1, <2>4, <2>5
<1> QED BY <1>1, <1>2 DEF ChanOK, Sent

-----------------------------------------------------------------------------
(* Steps in general. *)

\* A step leaves a replica x no more answers to wait for, nor fewer that it gives
\* itself, and sends it nothing if it is off.
Quieter(x) ==
  /\ Asking(x)' => Asking(x)
  /\ OwnAnswer(x) => OwnAnswer(x)'
  /\ life[x] = "off" => \A s \in Replicas : chan'[x][s] = chan[x][s]

SameRound(x) == /\ phase'[x] = phase[x] /\ timer'[x] = timer[x]
                /\ starting'[x] = starting[x] /\ reloads'[x] = reloads[x]

LEMMA OtherOK ==
  ASSUME NEW x, RoundOK(x), life'[x] = life[x], SameRound(x), Quieter(x)
  PROVE  RoundOK(x)'
<1>1. ASSUME OnTime(phase[x], timer[x], starting[x], Asking(x), OwnAnswer(x))
      PROVE  OnTime(phase'[x], timer'[x], starting'[x], Asking(x)', OwnAnswer(x)')
  BY <1>1 DEF OnTime, Asked, SameRound, Quieter
<1>2. life[x] = "off" => \A s \in Replicas : chan'[x][s] = <<>>
  BY DEF Quieter, RoundOK
<1>3. life[x] \in {"off", "up"} => OnTime(phase'[x], timer'[x], starting'[x], Asking(x)', OwnAnswer(x)')
  BY <1>1 DEF RoundOK
<1>4. life[x] \in {"off", "up"} => Covered(phase'[x], reloads'[x])
  BY DEF RoundOK, SameRound
<1>5. life[x] = "off" => ~InRound(phase'[x])
  BY DEF RoundOK, SameRound
<1> QED BY <1>2, <1>3, <1>4, <1>5 DEF RoundOK

\* A step of r.
LEMMA RoundStep ==
  ASSUME RoundInv, NEW r \in Replicas, Punctual', ChanOK(chan'),
         NEW l \in {"off", "up", "failing", "gone"},
         life' = life \/ life' = [life EXCEPT ![r] = l],
         \A x \in Replicas \ {r} : SameRound(x) /\ Quieter(x),
         RoundOK(r)'
  PROVE  RoundInv'
<1>1. life' \in [Replicas -> {"off", "up", "failing", "gone"}]
  BY DEF RoundInv
<1>2. ASSUME NEW x \in Replicas \ {r} PROVE RoundOK(x)'
  <2>1. life'[x] = life[x]
    BY DEF RoundInv
  <2> QED BY <2>1, OtherOK DEF RoundInv
<1> QED BY <1>1, <1>2 DEF RoundInv

\* Nothing is sent; a replica may come up, to which nothing has been sent.
LEMMA NothingSent ==
  ASSUME chan' = chan, NEW x \in Replicas,
         \A d \in Replicas : Up(d)' => Up(d) \/ \A s \in Replicas : chan[d][s] = <<>>
  PROVE  Quieter(x)
<1>1. OwnAnswer(x) => OwnAnswer(x)'
  BY DEF OwnAnswer
<1>2. ASSUME Asking(x)' PROVE Asking(x)
  <2>1. CASE \E d \in Replicas : Up(d)' /\ "HELLO" \in Types(chan[d][x])
    <3>1. PICK d \in Replicas : Up(d)' /\ "HELLO" \in Types(chan[d][x])
      BY <2>1
    <3>2. chan[d][x] # <<>>
      BY <3>1, TypesEmpty
    <3> QED BY <3>1, <3>2 DEF Asking
  <2>2. CASE \E s \in Replicas : "STATUS" \in Types(chan[x][s])
    BY <2>2 DEF Asking
  <2> QED BY <1>2, <2>1, <2>2 DEF Asking
<1> QED BY <1>1, <1>2 DEF Quieter

\* A broadcast of s: only a HELLO asks for answers, and only s.
LEMMA BroadcastSent ==
  ASSUME ChanOK(chan), NEW s \in Replicas, NEW msg, chan' = Broadcast(s, msg), life' = life,
         NEW x \in Replicas, msg.type \in MessageTypes \ {"STATUS"}, msg.type # "HELLO" \/ x # s
  PROVE  Quieter(x)
<1>1. Sent(chan', s, msg)
  BY BroadcastEffect
<1>2. OwnAnswer(x) => OwnAnswer(x)'
  BY <1>1 DEF OwnAnswer, Sent
<1>3. ASSUME Asking(x)' PROVE Asking(x)
  <2>1. CASE \E d \in Replicas : Up(d) /\ "HELLO" \in Types(chan'[d][x])
    BY ZenonT(40), <1>1, <2>1 DEF Asking, Sent
  <2>2. CASE \E y \in Replicas : "STATUS" \in Types(chan'[x][y])
    BY <1>1, <2>2 DEF Asking, Sent
  <2>3. \A d \in Replicas : Up(d)' = Up(d)
    BY DEF Up
  <2> QED BY <1>3, <2>1, <2>2, <2>3 DEF Asking
<1>4. life[x] = "off" => \A y \in Replicas : chan'[x][y] = chan[x][y]
  BY <1>1 DEF Up, Sent
<1> QED BY <1>2, <1>3, <1>4 DEF Quieter
-----------------------------------------------------------------------------
(* The round, the lock and the reloads of the replica that takes the step.  *)

LEMMA DelaysInOrder ==
  /\ StatusDelay \in Nat \ {0} /\ PhaseDelay \in Nat
  /\ PhaseDelay > StatusDelay
BY DelaysAssumption

LEMMA AliveOK ==
  ASSUME NEW r, life'[r] = "up",
         OnTime(phase'[r], timer'[r], starting'[r], Asking(r)', OwnAnswer(r)'),
         Covered(phase'[r], reloads'[r])
  PROVE  RoundOK(r)'
BY DEF RoundOK

LEMMA DyingOK ==
  ASSUME NEW r, life'[r] \in {"failing", "gone"}
  PROVE  RoundOK(r)'
BY DEF RoundOK

LEMMA RoundOfUp ==
  ASSUME RoundInv, NEW r \in Replicas, Up(r)
  PROVE  /\ OnTime(phase[r], timer[r], starting[r], Asking(r), OwnAnswer(r))
         /\ Covered(phase[r], reloads[r])
BY DEF RoundInv, RoundOK, Up

\* acquire() neither begins nor ends a round.
LEMMA AcquiredKeeps ==
  ASSUME NEW p, NEW left, NEW calls, Sound(p, left, calls), NEW who \in Holders,
         NEW q, q = Acquired(p, who)
  PROVE  /\ InRound(q) <=> InRound(p)
         /\ \A todo : Covered(p, todo) => Covered(q, todo)
<1>1. CASE p.held = "none"
  <2>1. ~p.entered /\ q = [p EXCEPT !.held = who]
    BY <1>1 DEF Acquired, Sound
  <2>2. ~q.entered
    BY <2>1 DEF Sound, LockType
  <2> QED BY <1>1, <2>1, <2>2 DEF InRound, Covered
<1>2. CASE p.held # "none"
  <2>1. q.held = p.held /\ q.entered = p.entered
    BY <1>2 DEF Acquired, Sound, LockType
  <2> QED BY <2>1 DEF InRound, Covered
<1> QED BY <1>1, <1>2

\* After a release no code that holds the lock has run.
LEMMA ReleasedKeeps ==
  ASSUME NEW p, NEW q, q = Released(p)
  PROVE  ~q.entered /\ ~InRound(q)
BY DEF Released, FreePhase, InRound

\* Without a reload that a SHARE or a CLOSE asked for.
LEMMA UncalledCovered ==
  ASSUME NEW p, NEW q, NEW calls, Covered(p, calls), ~(p.held \in {"SHARE", "CLOSE"} /\ p.entered)
  PROVE  Covered(q, calls) /\ \A i \in DOMAIN calls : calls[i].by = "BACKOFF"
BY DEF Covered

LEMMA EmptyCovered ==
  ASSUME NEW p PROVE Covered(p, <<>>)
BY DEF Covered

LEMMA HandlerCovered ==
  ASSUME NEW calls, IsSeq(calls), \A i \in DOMAIN calls : calls[i].by = "BACKOFF",
         NEW call, call.by \in {"SHARE", "CLOSE"}, NEW p, p.held = call.by, p.entered
  PROVE  Covered(p, Append(calls, call))
BY AppendElements DEF Covered

LEMMA BackoffCovered ==
  ASSUME NEW p, NEW calls, IsSeq(calls), Covered(p, calls), NEW call, call.by = "BACKOFF"
  PROVE  Covered(p, Append(calls, call))
BY AppendElements DEF Covered

\* With the reload of a handler, all of those for which a lock is held are done.
LEMMA TailCovered ==
  ASSUME NEW p, NEW calls, IsSeq(calls), calls # <<>>, Covered(p, calls), NEW q,
         NEW rest, rest = Tail(calls), Head(calls).by # "BACKOFF" \/ q = p
  PROVE  Covered(q, rest)
<1>1. /\ Head(calls) = calls[1] /\ 1 \in DOMAIN calls
      /\ \A i \in DOMAIN rest : i \in Nat \ {0} /\ i + 1 \in DOMAIN calls /\ rest[i] = calls[i + 1]
  BY TailElements
<1>2. CASE q = p
  <2>1. ASSUME NEW i \in DOMAIN rest, rest[i].by # "BACKOFF",
               NEW j \in DOMAIN rest, rest[j].by # "BACKOFF"
        PROVE  i = j
    <3>1. i + 1 = j + 1 /\ i \in Nat /\ j \in Nat
      BY <1>1, <2>1 DEF Covered
    <3> QED BY <3>1
  <2> QED BY <1>1, <1>2, <2>1 DEF Covered
<1>3. CASE Head(calls).by # "BACKOFF"
  <2>1. ASSUME NEW i \in DOMAIN rest, rest[i].by # "BACKOFF" PROVE FALSE
    <3>1. i + 1 = 1 /\ i \in Nat \ {0}
      BY <1>1, <1>3, <2>1 DEF Covered
    <3> QED BY <3>1
  <2> QED BY <2>1 DEF Covered
<1> QED BY <1>2, <1>3

LEMMA RoundUncalled ==
  ASSUME NEW p, InRound(p)
  PROVE  ~(p.held \in {"SHARE", "CLOSE"} /\ p.entered)
BY DEF InRound, Round

-----------------------------------------------------------------------------
(* The steps of the model. *)

\* A replica that is gone waits for nothing, and what it sent remains.
LEMMA ForgetRound ==
  ASSUME RoundInv, NEW r \in Replicas, Forget(r),
         NEW left, left = chan \/ left = Broadcast(r, CloseMsg(r)),
         chan' = [left EXCEPT ![r] = [s \in Replicas |-> <<>>]]
  PROVE  RoundInv'
<1>1. /\ life' = [life EXCEPT ![r] = "gone"] /\ budget' = budget
      /\ ChanOK(chan) /\ Punctual /\ DOMAIN life = Replicas
  BY DEF Forget, RoundInv
<1>2. CloseMsg(r).type = "CLOSE" /\ "CLOSE" \in MessageTypes \ {"STATUS"}
  BY DEF CloseMsg, MessageTypes, Buffered
<1>3. /\ ChanOK(left)
      /\ \A d, x \in Replicas : {"HELLO", "STATUS"} \cap Types(left[d][x]) =
                                {"HELLO", "STATUS"} \cap Types(chan[d][x])
      /\ \A d, x \in Replicas : ~Up(d) => left[d][x] = chan[d][x]
  <2>1. CASE left = chan
    BY <1>1, <2>1
  <2>2. CASE left = Broadcast(r, CloseMsg(r))
    <3>1. Sent(left, r, CloseMsg(r))
      BY <1>1, <1>2, <2>2, BroadcastEffect
    <3> QED BY <1>2, <3>1 DEF Sent
  <2> QED BY <2>1, <2>2
<1>4. ASSUME NEW d \in Replicas \ {r} PROVE chan'[d] = left[d]
  BY <1>3 DEF ChanOK
<1>5. chan'[r] = [s \in Replicas |-> <<>>]
  BY <1>3 DEF ChanOK
<1>6. ChanOK(chan')
  <2>1. DOMAIN chan' = Replicas
    BY <1>3 DEF ChanOK
  <2>2. \A d, s \in Replicas : DOMAIN chan'[d] = Replicas /\ IsSeq(chan'[d][s])
    BY <1>3, <1>4, <1>5, TypesEmpty DEF ChanOK
  <2>3. \A d, s \in Replicas : Types(chan'[d][s]) \subseteq MessageTypes
    BY <1>3, <1>4, <1>5, TypesEmpty DEF ChanOK
  <2> QED BY <2>1, <2>2, <2>3 DEF ChanOK
<1>7. Punctual'
  BY <1>1 DEF Punctual
<1>8. ASSUME NEW x \in Replicas \ {r} PROVE SameRound(x) /\ Quieter(x)
  <2>1. SameRound(x)
    BY DEF Forget, SameRound
  <2>2. OwnAnswer(x) => OwnAnswer(x)'
    BY <1>3, <1>4 DEF OwnAnswer
  <2>3. life[x] = "off" => \A s \in Replicas : chan'[x][s] = chan[x][s]
    BY <1>3, <1>4 DEF Up
  <2>4. ASSUME Asking(x)' PROVE Asking(x)
    <3>1. \A d \in Replicas : Up(d)' => d # r /\ Up(d)
      BY <1>1 DEF Up
    <3>2. CASE \E d \in Replicas : Up(d)' /\ "HELLO" \in Types(chan'[d][x])
      BY <1>3, <1>4, <3>1, <3>2 DEF Asking
    <3>3. CASE \E s \in Replicas : "STATUS" \in Types(chan'[x][s])
      BY <1>3, <1>4, <3>3 DEF Asking
    <3> QED BY <2>4, <3>2, <3>3 DEF Asking
  <2> QED BY <2>1, <2>2, <2>3, <2>4 DEF Quieter
<1>9. RoundOK(r)'
  BY <1>1, DyingOK
<1> QED BY <1>1, <1>6, <1>7, <1>8, <1>9, RoundStep

LEMMA BootRound ==
  ASSUME IInv, RoundInv, NEW r \in Replicas, Boot(r)
  PROVE  RoundInv'
<1>1. /\ life[r] = "off" /\ life' = [life EXCEPT ![r] = "up"]
      /\ timer' = [timer EXCEPT ![r].GREET = InitDelay]
      /\ UNCHANGED <<chan, phase, starting, reloads, budget>>
      /\ ChanOK(chan) /\ Punctual /\ life'[r] = "up"
      /\ timer[r] \in [Timers -> Int]
  BY DEF Boot, schedVars, bookVars, RoundInv, IInv, LockInv
<1>2. \A s \in Replicas : chan[r][s] = <<>>
  BY <1>1 DEF RoundInv, RoundOK
<1>3. \A d \in Replicas : Up(d)' => Up(d) \/ \A s \in Replicas : chan[d][s] = <<>>
  BY <1>1, <1>2 DEF Up
<1>4. \A x \in Replicas : Quieter(x)
  BY <1>1, <1>3, NothingSent
<1>5. \A x \in Replicas \ {r} : SameRound(x)
  BY <1>1 DEF SameRound
<1>6. RoundOK(r)'
  <2>1. /\ OnTime(phase[r], timer[r], starting[r], Asking(r), OwnAnswer(r))
        /\ Covered(phase[r], reloads[r])
    BY <1>1 DEF RoundInv, RoundOK
  <2>2. timer'[r] = [timer[r] EXCEPT !.GREET = InitDelay]
    BY <1>1 DEF IInv, LockInv
  <2>3. timer'[r].STATUS = timer[r].STATUS /\ timer'[r].PHASE = timer[r].PHASE
    BY <1>1, <2>2 DEF Timers, Buffered
  <2>4. Asking(r)' => Asking(r)
    BY <1>4 DEF Quieter
  <2>5. OwnAnswer(r) => OwnAnswer(r)'
    BY <1>4 DEF Quieter
  <2>6. OnTime(phase'[r], timer'[r], starting'[r], Asking(r)', OwnAnswer(r)')
    BY <1>1, <2>1, <2>3, <2>4, <2>5 DEF OnTime, Asked, Debouncing, StartingUp, Between
  <2> QED BY <1>1, <2>1, <2>6, AliveOK
<1>7. Punctual'
  BY <1>1 DEF Punctual
<1> QED BY <1>1, <1>4, <1>5, <1>6, <1>7, RoundStep

\* A step of r that nobody has to answer.
LEMMA KeepStep ==
  ASSUME RoundInv, NEW r \in Replicas, Up(r), life' = life, Punctual', ChanOK(chan'),
         \A x \in Replicas : Quieter(x), \A x \in Replicas \ {r} : SameRound(x),
         OnTime(phase'[r], timer'[r], starting'[r], Asking(r), OwnAnswer(r)),
         Covered(phase'[r], reloads'[r])
  PROVE  RoundInv'
<1>1. (Asking(r)' => Asking(r)) /\ (OwnAnswer(r) => OwnAnswer(r)')
  BY DEF Quieter
<1>2. OnTime(phase'[r], timer'[r], starting'[r], Asking(r)', OwnAnswer(r)')
  BY <1>1 DEF OnTime, Asked
<1>3. RoundOK(r)'
  BY <1>2, AliveOK DEF Up
<1> QED BY <1>3, RoundStep

\* A step of r that sends nothing and may be the end of it.
LEMMA QuietStep ==
  ASSUME RoundInv, NEW r \in Replicas, Up(r), chan' = chan, life' = life \/ Fail(r), Punctual',
         \A x \in Replicas \ {r} : SameRound(x),
         life' = life =>
           /\ OnTime(phase'[r], timer'[r], starting'[r], Asking(r), OwnAnswer(r))
           /\ Covered(phase'[r], reloads'[r])
  PROVE  RoundInv'
<1>1. ChanOK(chan') /\ DOMAIN life = Replicas
  BY DEF RoundInv
<1>2. \A d \in Replicas : Up(d)' => Up(d)
  BY <1>1 DEF Up, Fail
<1>3. \A x \in Replicas : Quieter(x)
  BY <1>2, NothingSent
<1>4. CASE life' = life
  BY <1>1, <1>3, <1>4, KeepStep
<1>5. CASE Fail(r)
  <2>1. life' = [life EXCEPT ![r] = "failing"] /\ life'[r] = "failing"
    BY <1>1, <1>5 DEF Fail
  <2>2. RoundOK(r)'
    BY <2>1, DyingOK
  <2> QED BY <1>1, <1>3, <2>1, <2>2, RoundStep
<1> QED BY <1>4, <1>5

\* The steps that ask for the lock.
LEMMA AcquireRound ==
  ASSUME IInv, RoundInv, NEW r \in Replicas, Up(r), NEW who \in Holders,
         phase' = [phase EXCEPT ![r] = Acquired(phase[r], who)],
         NEW t \in Timers \ {"STATUS", "PHASE"},
         timer' = timer \/ timer' = [timer EXCEPT ![r][t] = Off],
         UNCHANGED <<life, chan, starting, reloads>>, Punctual'
  PROVE  RoundInv'
<1>1. /\ Sound(phase[r], timer[r].PHASE, reloads[r])
      /\ timer[r] \in [Timers -> Int] /\ phase'[r] = Acquired(phase[r], who)
      /\ DOMAIN phase = Replicas /\ DOMAIN timer = Replicas
  BY DEF IInv, LockInv
<1>2. \A x \in Replicas \ {r} : SameRound(x)
  BY <1>1 DEF SameRound
<1>3. timer'[r] = timer[r] \/ timer'[r] = [timer[r] EXCEPT ![t] = Off]
  BY <1>1
<1>4. timer'[r].STATUS = timer[r].STATUS /\ timer'[r].PHASE = timer[r].PHASE
  BY <1>1, <1>3 DEF Timers, Buffered
<1>5. /\ InRound(phase'[r]) <=> InRound(phase[r])
      /\ Covered(phase[r], reloads[r]) => Covered(phase'[r], reloads[r])
  BY <1>1, AcquiredKeeps
<1>6. /\ OnTime(phase'[r], timer'[r], starting'[r], Asking(r), OwnAnswer(r))
      /\ Covered(phase'[r], reloads'[r])
  BY <1>4, <1>5, RoundOfUp DEF OnTime, Asked, Debouncing, StartingUp, Between
<1> QED BY <1>2, <1>6, QuietStep

LEMMA ResyncRound ==
  ASSUME IInv, RoundInv, NEW r \in Replicas, Resync(r)
  PROVE  RoundInv'
<1>1. /\ Up(r) /\ "HELLO" \in Holders /\ "GREET" \in Timers \ {"STATUS", "PHASE"}
      /\ phase' = [phase EXCEPT ![r] = Acquired(phase[r], "HELLO")]
      /\ UNCHANGED <<timer, life, chan, starting, reloads>>
  BY DEF Resync, Free, schedVars, Holders, Round, Timers
<1>2. Punctual'
  <2>1. PICK n, m : budget = [rounds |-> n, failures |-> m, late |-> {}]
    BY DEF RoundInv, Punctual
  <2>2. budget' = [rounds |-> n - 1, failures |-> m, late |-> {}]
    BY <2>1 DEF Resync
  <2> QED BY <2>2 DEF Punctual
<1> QED BY <1>1, <1>2, AcquireRound

LEMMA AwaitPhaseRound ==
  ASSUME IInv, RoundInv, NEW r \in Replicas, Greet(r) \/ ShareDue(r) \/ CloseDue(r)
  PROVE  RoundInv'
<1>1. PICK t \in {"GREET", "SHARE", "CLOSE"}, who \in {"HELLO", "SHARE", "CLOSE"} :
        AwaitPhase(r, t, who)
  BY DEF Greet, ShareDue, CloseDue
<1>2. /\ Up(r) /\ who \in Holders /\ t \in Timers \ {"STATUS", "PHASE"}
      /\ phase' = [phase EXCEPT ![r] = Acquired(phase[r], who)]
      /\ timer' = [timer EXCEPT ![r][t] = Off]
      /\ UNCHANGED <<life, chan, starting, reloads, budget>>
  BY <1>1 DEF AwaitPhase, Free, schedVars, bookVars, Holders, Round, Timers, Buffered
<1>3. Punctual'
  BY <1>2 DEF RoundInv, Punctual
<1> QED BY <1>2, <1>3, AcquireRound

\* A round in progress has time left: the lock does not time out.
LEMMA TimeLeft ==
  ASSUME RoundInv, NEW r \in Replicas, Up(r)
  PROVE  timer[r].PHASE = Off \/ timer[r].PHASE >= 1
<1>1. OnTime(phase[r], timer[r], starting[r], Asking(r), OwnAnswer(r))
  BY RoundOfUp
<1>2. CASE Asked(timer[r], starting[r], OwnAnswer(r))
  BY <1>2, DelaysInOrder DEF Asked
<1>3. CASE Debouncing(timer[r], starting[r])
  BY <1>3, DelaysInOrder DEF Debouncing
<1> QED BY <1>1, <1>2, <1>3 DEF OnTime, StartingUp, Between

LEMMA PhaseTimeoutRound ==
  ASSUME RoundInv, NEW r \in Replicas
  PROVE  ~PhaseTimeout(r)
<1> SUFFICES ASSUME PhaseTimeout(r) PROVE FALSE
  OBVIOUS
<1>1. Up(r) /\ timer[r].PHASE = 0
  BY DEF PhaseTimeout, Free
<1> QED BY <1>1, TimeLeft DEF Off

\* What the handlers of SHARE and CLOSE have in common.
LEMMA HandlerRound ==
  ASSUME IInv, RoundInv, NEW r \in Replicas, NEW by \in {"SHARE", "CLOSE"}, Granted(r, by),
         \/ /\ \E config : CallReload(r, by, config)
            /\ phase' = [phase EXCEPT ![r].entered = TRUE]
         \/ phase' = [phase EXCEPT ![r] = Released(phase[r])] /\ UNCHANGED reloads,
         UNCHANGED <<chan, timer, starting, budget>>, life' = life \/ Fail(r)
  PROVE  RoundInv'
<1>1. /\ Up(r) /\ phase[r].held = by /\ ~phase[r].entered
      /\ phase[r] \in LockType /\ DOMAIN phase = Replicas
      /\ DOMAIN reloads = Replicas /\ IsSeq(reloads[r])
  BY DEF Granted, IInv, LockInv
<1>2. Punctual'
  BY DEF RoundInv, Punctual
<1>3. ~InRound(phase[r]) /\ ~InRound(phase'[r])
  <2>1. ~InRound(phase[r])
    BY <1>1 DEF InRound
  <2>2. CASE phase' = [phase EXCEPT ![r] = Released(phase[r])]
    BY <1>1, <2>1, <2>2, ReleasedKeeps
  <2>3. CASE phase' = [phase EXCEPT ![r].entered = TRUE]
    <3>1. phase'[r].held = by
      BY <1>1, <2>3 DEF LockType
    <3> QED BY <2>1, <3>1 DEF InRound, Round
  <2> QED BY <2>1, <2>2, <2>3
<1>4. OnTime(phase'[r], timer'[r], starting'[r], Asking(r), OwnAnswer(r))
  BY <1>1, <1>3, RoundOfUp DEF OnTime
<1>5. \A x \in Replicas \ {r} : SameRound(x)
  BY <1>1 DEF SameRound, CallReload
<1>6. Covered(phase[r], reloads[r]) /\ \A i \in DOMAIN reloads[r] : reloads[r][i].by = "BACKOFF"
  BY <1>1, RoundOfUp, UncalledCovered
<1>7. Covered(phase'[r], reloads'[r])
  <2>1. CASE UNCHANGED reloads
    BY <1>1, <1>6, <2>1, UncalledCovered
  <2>2. ASSUME NEW config, CallReload(r, by, config), phase' = [phase EXCEPT ![r].entered = TRUE]
        PROVE  Covered(phase'[r], reloads'[r])
    <3> DEFINE call == [by |-> by, config |-> config]
    <3>1. reloads'[r] = Append(reloads[r], call) /\ call.by = by
      BY <1>1, <2>2 DEF CallReload
    <3>2. phase'[r].held = by /\ phase'[r].entered
      BY <1>1, <2>2 DEF LockType
    <3> HIDE DEF call
    <3> QED BY <1>1, <1>6, <3>1, <3>2, HandlerCovered
  <2> QED BY <2>1, <2>2
<1> QED BY <1>1, <1>2, <1>4, <1>5, <1>7, QuietStep

LEMMA HandleShareRound ==
  ASSUME IInv, RoundInv, NEW r \in Replicas, HandleShare(r)
  PROVE  RoundInv'
<1>1. Granted(r, "SHARE") /\ UNCHANGED <<chan, timer, starting, budget>>
  BY DEF HandleShare, bookVars
<1>2. \/ /\ \E config : CallReload(r, "SHARE", config)
         /\ phase' = [phase EXCEPT ![r].entered = TRUE]
      \/ phase' = [phase EXCEPT ![r] = Released(phase[r])] /\ UNCHANGED reloads
  BY DEF HandleShare
<1>3. life' = life \/ Fail(r)
  BY DEF HandleShare
<1> QED BY <1>1, <1>2, <1>3, HandlerRound

LEMMA HandleCloseRound ==
  ASSUME IInv, RoundInv, NEW r \in Replicas, HandleClose(r)
  PROVE  RoundInv'
<1>1. Granted(r, "CLOSE") /\ UNCHANGED <<chan, timer, starting, budget>>
  BY DEF HandleClose, bookVars
<1>2. \/ /\ \E config : CallReload(r, "CLOSE", config)
         /\ phase' = [phase EXCEPT ![r].entered = TRUE]
      \/ phase' = [phase EXCEPT ![r] = Released(phase[r])] /\ UNCHANGED reloads
  BY DEF HandleClose
<1>3. life' = life \/ Fail(r)
  BY DEF HandleClose
<1> QED BY <1>1, <1>2, <1>3, HandlerRound

\* The end of a reload.  The one of a handler releases a lock that the handler
\* still holds, so it interrupts no round.
LEMMA ReloadedRound ==
  ASSUME IInv, RoundInv, NEW r \in Replicas, Reloaded(r)
  PROVE  RoundInv'
<1>1. /\ Up(r) /\ reloads[r] # <<>> /\ reloads' = [reloads EXCEPT ![r] = Tail(reloads[r])]
      /\ UNCHANGED <<life, chan, starting, budget>>
      /\ DOMAIN reloads = Replicas /\ IsSeq(reloads[r])
      /\ phase \in [Replicas -> LockType] /\ timer \in [Replicas -> [Timers -> Int]]
      /\ Sound(phase[r], timer[r].PHASE, reloads[r])
  BY DEF Reloaded, Free, bookVars, IInv, LockInv
<1>2. Punctual'
  BY <1>1 DEF RoundInv, Punctual
<1>3. /\ OnTime(phase[r], timer[r], starting[r], Asking(r), OwnAnswer(r))
      /\ Covered(phase[r], reloads[r])
  BY <1>1, RoundOfUp
<1>4. reloads'[r] = Tail(reloads[r])
  BY <1>1
<1>5. CASE Head(reloads[r]).by = "BACKOFF"
  <2>1. phase' = [phase EXCEPT ![r] = Acquired(phase[r], "CLUSTER")] /\ UNCHANGED timer
    BY <1>5 DEF Reloaded
  <2>2. \A x \in Replicas \ {r} : SameRound(x)
    BY <1>1, <2>1 DEF SameRound
  <2>3. phase'[r] = Acquired(phase[r], "CLUSTER")
    BY <1>1, <2>1
  <2>4. Covered(phase[r], reloads'[r])
    BY <1>1, <1>3, <1>4, TailCovered
  <2>5. "CLUSTER" \in Holders
    BY DEF Holders, Round
  <2>6. (InRound(phase'[r]) <=> InRound(phase[r])) /\ Covered(phase'[r], reloads'[r])
    BY <1>1, <2>3, <2>4, <2>5, AcquiredKeeps
  <2>7. OnTime(phase'[r], timer'[r], starting'[r], Asking(r), OwnAnswer(r))
    BY <1>1, <1>3, <2>1, <2>6 DEF OnTime
  <2> QED BY <1>1, <1>2, <2>2, <2>6, <2>7, QuietStep
<1>6. CASE Head(reloads[r]).by # "BACKOFF"
  <2>1. /\ phase' = [phase EXCEPT ![r] = Released(phase[r])]
        /\ timer' = [timer EXCEPT ![r].PHASE = Off]
    BY <1>6 DEF Reloaded
  <2>2. \A x \in Replicas \ {r} : SameRound(x)
    BY <1>1, <2>1 DEF SameRound
  <2>3. Covered(phase'[r], reloads'[r])
    BY <1>1, <1>3, <1>4, <1>6, TailCovered
  <2>4. phase[r].held \in {"SHARE", "CLOSE"}
    <3>1. Head(reloads[r]) = reloads[r][1] /\ 1 \in DOMAIN reloads[r]
      BY <1>1, TailElements
    <3> QED BY <1>3, <1>6, <3>1 DEF Covered
  <2>5. ~InRound(phase[r]) /\ ~InRound(phase'[r])
    BY <1>1, <2>1, <2>4, ReleasedKeeps DEF InRound, Round
  <2>6. /\ timer'[r].PHASE = Off /\ timer'[r].STATUS = timer[r].STATUS
    BY <1>1, <2>1 DEF Timers, Buffered
  <2>7. OnTime(phase'[r], timer'[r], starting'[r], Asking(r), OwnAnswer(r))
    BY <1>1, <1>3, <2>5, <2>6 DEF OnTime, Between
  <2> QED BY <1>1, <1>2, <2>2, <2>3, <2>7, QuietStep
<1> QED BY <1>5, <1>6

\* The steps of BackoffPolicy and the failure that it is for.
LEMMA BackoffRound ==
  ASSUME IInv, RoundInv, NEW r \in Replicas,
         BackoffStart(r) \/ HandleRateLimit(r) \/ RateLimitExceeded(r)
  PROVE  RoundInv'
<1>1. /\ Up(r) /\ UNCHANGED <<chan, timer, phase, starting>>
      /\ life' = life \/ Fail(r)
      /\ DOMAIN reloads = Replicas /\ IsSeq(reloads[r])
  BY DEF BackoffStart, HandleRateLimit, RateLimitExceeded, Free, roundVars, IInv, LockInv
<1>2. Punctual'
  <2>1. PICK n, m : budget = [rounds |-> n, failures |-> m, late |-> {}]
    BY DEF RoundInv, Punctual
  <2>2. budget' = budget \/ budget' = [budget EXCEPT !.failures = budget.failures - 1]
    BY DEF BackoffStart, HandleRateLimit, RateLimitExceeded, bookVars
  <2>3. budget' = budget \/ budget' = [rounds |-> n, failures |-> m - 1, late |-> {}]
    BY <2>1, <2>2
  <2> QED BY <2>1, <2>3 DEF Punctual
<1>3. /\ OnTime(phase[r], timer[r], starting[r], Asking(r), OwnAnswer(r))
      /\ Covered(phase[r], reloads[r])
  BY <1>1, RoundOfUp
<1>4. CASE UNCHANGED reloads
  <2>1. \A x \in Replicas \ {r} : SameRound(x)
    BY <1>1, <1>4 DEF SameRound
  <2> QED BY <1>1, <1>2, <1>3, <1>4, <2>1, QuietStep
<1>5. ASSUME NEW config, CallReload(r, "BACKOFF", config) PROVE RoundInv'
  <2> DEFINE call == [by |-> "BACKOFF", config |-> config]
  <2>1. reloads' = [reloads EXCEPT ![r] = Append(reloads[r], call)] /\ call.by = "BACKOFF"
    BY <1>5 DEF CallReload
  <2> HIDE DEF call
  <2>2. \A x \in Replicas \ {r} : SameRound(x)
    BY <1>1, <2>1 DEF SameRound
  <2>3. reloads'[r] = Append(reloads[r], call)
    BY <1>1, <2>1
  <2>4. Covered(phase'[r], reloads'[r])
    BY <1>1, <1>3, <2>1, <2>3, BackoffCovered
  <2> QED BY <1>1, <1>2, <1>3, <2>2, <2>4, QuietStep
<1> QED BY <1>4, <1>5 DEF BackoffStart, HandleRateLimit, RateLimitExceeded, schedVars

\* HELLO begins a round, with the answer of r to itself under way.
LEMMA SayHelloRound ==
  ASSUME IInv, RoundInv, NEW r \in Replicas, NEW who \in Round, SayHello(r, who)
  PROVE  RoundInv'
<1>1. /\ Up(r) /\ phase[r].held = who /\ ~phase[r].entered
      /\ chan' = Broadcast(r, HelloMsg(r)) /\ ChanOK(chan)
      /\ phase' = [phase EXCEPT ![r].entered = TRUE]
      /\ timer' = [timer EXCEPT ![r].PHASE = PhaseDelay]
      /\ UNCHANGED <<life, starting, reloads, budget>>
      /\ phase \in [Replicas -> LockType] /\ timer \in [Replicas -> [Timers -> Int]]
  BY DEF SayHello, Granted, RoundInv, IInv, LockInv
<1>2. HelloMsg(r).type = "HELLO" /\ "HELLO" \in MessageTypes \ {"STATUS"}
  BY DEF HelloMsg, MessageTypes, Buffered
<1>3. Sent(chan', r, HelloMsg(r))
  BY <1>1, <1>2, BroadcastEffect
<1>4. \A x \in Replicas \ {r} : Quieter(x)
  BY <1>1, <1>2, BroadcastSent
<1>5. \A x \in Replicas \ {r} : SameRound(x)
  BY <1>1 DEF SameRound
<1>6. Between(timer[r], starting[r]) /\ Covered(phase[r], reloads[r])
  BY <1>1, RoundOfUp DEF OnTime, InRound
<1>7. Covered(phase'[r], reloads'[r])
  BY <1>1, <1>6, UncalledCovered
<1>8. /\ timer'[r].PHASE = PhaseDelay /\ timer'[r].STATUS = timer[r].STATUS
      /\ InRound(phase'[r])
  BY <1>1 DEF Timers, Buffered, LockType, InRound
<1>9. OwnAnswer(r)'
  BY <1>1, <1>2, <1>3 DEF OwnAnswer, Sent
<1>10. Asked(timer'[r], starting'[r], OwnAnswer(r)')
  BY <1>1, <1>6, <1>8, <1>9 DEF Asked, Between
<1>11. RoundOK(r)'
  <2>1. life'[r] = "up"
    BY <1>1 DEF Up
  <2> QED BY <1>7, <1>8, <1>10, <2>1, AliveOK DEF OnTime
<1>12. Punctual' /\ ChanOK(chan')
  BY <1>1, <1>3 DEF RoundInv, Punctual, Sent
<1> QED BY <1>1, <1>4, <1>5, <1>11, <1>12, RoundStep

\* The end of a round: its lock is given back, and nobody is asked any more.
LEMMA ShareRound ==
  ASSUME IInv, RoundInv, NEW r \in Replicas, Up(r), InRound(phase[r]), ~Asking(r),
         NEW state, NEW timers, ShareAndRelease(r, state, timers),
         timers = timer \/ timers = [timer EXCEPT ![r].STATUS = Off],
         timers[r].STATUS = Off,
         \A x \in Replicas \ {r} : starting'[x] = starting[x], starting'[r] = <<>>,
         UNCHANGED <<life, reloads, budget>>
  PROVE  RoundInv'
<1>1. /\ chan' = Broadcast(r, ShareMsg(r, state)) /\ ChanOK(chan)
      /\ phase' = [phase EXCEPT ![r] = Released(phase[r])]
      /\ timer' = [timers EXCEPT ![r].PHASE = Off]
      /\ phase \in [Replicas -> LockType] /\ timer \in [Replicas -> [Timers -> Int]]
  BY DEF ShareAndRelease, RoundInv, IInv, LockInv
<1>2. ShareMsg(r, state).type = "SHARE" /\ "SHARE" \in MessageTypes \ {"STATUS"}
  BY DEF ShareMsg, MessageTypes, Buffered
<1>3. ChanOK(chan')
  BY <1>1, <1>2, BroadcastEffect DEF Sent
<1>4. \A x \in Replicas : Quieter(x)
  BY <1>1, <1>2, BroadcastSent
<1>5. timers \in [Replicas -> [Timers -> Int]]
  <2>1. CASE timers = timer
    BY <1>1, <2>1
  <2>2. CASE timers = [timer EXCEPT ![r].STATUS = Off]
    <3>1. [timer[r] EXCEPT !.STATUS = Off] \in [Timers -> Int]
      BY <1>1, TimersExcept, OffIsInt
    <3> QED BY <1>1, <2>2, <3>1
  <2> QED BY <2>1, <2>2
<1>6. \A x \in Replicas \ {r} : SameRound(x)
  BY <1>1, <1>5 DEF SameRound
<1>7. Covered(phase'[r], reloads'[r])
  BY RoundOfUp, RoundUncalled, UncalledCovered
<1>8. timer'[r].PHASE = Off /\ timer'[r].STATUS = Off
  BY <1>1, <1>5 DEF Timers, Buffered
<1>9. ~InRound(phase'[r])
  BY <1>1, ReleasedKeeps
<1>10. OnTime(phase'[r], timer'[r], starting'[r], Asking(r), OwnAnswer(r))
  BY <1>8, <1>9 DEF OnTime, Between
<1>11. Punctual'
  BY DEF RoundInv, Punctual
<1> QED BY <1>3, <1>4, <1>6, <1>7, <1>10, <1>11, KeepStep

\* The answers have stopped: all of them are in.
LEMMA StatusDueRound ==
  ASSUME IInv, RoundInv, NEW r \in Replicas, StatusDue(r)
  PROVE  RoundInv'
<1>1. /\ Up(r) /\ timer[r].STATUS = 0
      /\ UNCHANGED <<life, reloads, budget>>
      /\ phase \in [Replicas -> LockType] /\ timer \in [Replicas -> [Timers -> Int]]
      /\ DOMAIN starting = Replicas
  BY DEF StatusDue, Free, bookVars, IInv, LockInv, ListInv
<1>2. InRound(phase[r]) /\ ~Asking(r) /\ Debouncing(timer[r], starting[r])
  BY <1>1, RoundOfUp, DelaysInOrder DEF OnTime, Asked, StartingUp, Between, Off
<1>3. CASE started[r]
  <2> DEFINE timers == [timer EXCEPT ![r].STATUS = Off]
  <2>1. PICK state : ShareAndRelease(r, state, timers) /\ UNCHANGED starting
    BY <1>3 DEF StatusDue
  <2>2. timers[r].STATUS = Off
    BY <1>1 DEF Timers, Buffered
  <2>3. starting'[r] = <<>> /\ \A x \in Replicas \ {r} : starting'[x] = starting[x]
    BY <1>2, <2>1 DEF Debouncing
  <2>4. timers = [timer EXCEPT ![r].STATUS = Off]
    OBVIOUS
  <2> HIDE DEF timers
  <2> QED BY <1>1, <1>2, <2>1, <2>2, <2>3, <2>4, ShareRound
<1>4. CASE ~started[r]
  <2>1. PICK state : starting' = [starting EXCEPT ![r] = Append(starting[r], state)]
    BY <1>4 DEF StatusDue
  <2>2. /\ timer' = [timer EXCEPT ![r].STATUS = Off]
        /\ UNCHANGED <<chan, phase>>
    BY <1>4 DEF StatusDue
  <2>3. starting'[r] # <<>> /\ Tail(starting'[r]) = <<>>
    <3>1. starting'[r] = Append(<<>>, state)
      BY <1>1, <1>2, <2>1 DEF Debouncing
    <3>2. <<state>> \in Seq({state}) /\ Append(<<>>, state) = <<state>>
      OBVIOUS
    <3>3. Tail(<<state>>) = <<>> /\ <<state>> # <<>>
      BY <3>2
    <3> QED BY <3>1, <3>2, <3>3
  <2>4. timer'[r].STATUS = Off /\ timer'[r].PHASE = timer[r].PHASE
    BY <1>1, <2>2 DEF Timers, Buffered
  <2>5. StartingUp(timer'[r], starting'[r])
    BY <1>1, <1>2, <2>3, <2>4, DelaysInOrder DEF StartingUp, Debouncing
  <2>6. OnTime(phase'[r], timer'[r], starting'[r], Asking(r), OwnAnswer(r))
    BY <1>2, <2>2, <2>5 DEF OnTime
  <2>7. \A x \in Replicas \ {r} : SameRound(x)
    BY <1>1, <2>1, <2>2 DEF SameRound
  <2>8. Punctual' /\ Covered(phase'[r], reloads'[r])
    BY <1>1, <2>2, RoundOfUp DEF RoundInv, Punctual
  <2> QED BY <1>1, <2>2, <2>6, <2>7, <2>8, QuietStep
<1> QED BY <1>3, <1>4

\* The markets have been started by the round that still holds the lock.
LEMMA MarketsStartedRound ==
  ASSUME IInv, RoundInv, NEW r \in Replicas, MarketsStarted(r)
  PROVE  RoundInv'
<1>1. /\ Up(r) /\ starting[r] # <<>>
      /\ starting' = [starting EXCEPT ![r] = Tail(starting[r])]
      /\ UNCHANGED <<life, reloads, budget>>
      /\ DOMAIN starting = Replicas
  BY DEF MarketsStarted, Free, bookVars, IInv, ListInv
<1>2. InRound(phase[r]) /\ ~Asking(r) /\ StartingUp(timer[r], starting[r])
  BY <1>1, RoundOfUp DEF OnTime, Asked, Debouncing, Between
<1>3. PICK state : ShareAndRelease(r, state, timer)
  BY DEF MarketsStarted
<1>4. starting'[r] = <<>> /\ \A x \in Replicas \ {r} : starting'[x] = starting[x]
  BY <1>1, <1>2 DEF StartingUp
<1>5. timer[r].STATUS = Off
  BY <1>2 DEF StartingUp
<1> QED BY <1>1, <1>2, <1>3, <1>4, <1>5, ShareRound

\* What the delivery of the first message that s has sent to r leaves under way.
Rest(r, s) == [chan EXCEPT ![r][s] = Tail(chan[r][s])]

LEMMA RestEffect ==
  ASSUME ChanOK(chan), NEW r \in Replicas, NEW s \in Replicas, chan[r][s] # <<>>,
         NEW c, c = Rest(r, s)
  PROVE  /\ ChanOK(c)
         /\ \A d, x \in Replicas : d # r \/ x # s => c[d][x] = chan[d][x]
         /\ Types(chan[r][s]) = {Head(chan[r][s]).type} \cup Types(c[r][s])
<1>1. /\ DOMAIN c = Replicas /\ \A d \in Replicas : DOMAIN c[d] = Replicas
      /\ \A d, x \in Replicas : d # r \/ x # s => c[d][x] = chan[d][x]
      /\ c[r][s] = Tail(chan[r][s])
  BY DEF ChanOK, Rest
<1>2. IsSeq(chan[r][s])
  BY DEF ChanOK
<1>3. IsSeq(c[r][s]) /\ Types(chan[r][s]) = {Head(chan[r][s]).type} \cup Types(c[r][s])
  BY <1>1, <1>2, TypesTail
<1>4. \A d, x \in Replicas : IsSeq(c[d][x]) /\ Types(c[d][x]) \subseteq MessageTypes
  BY <1>1, <1>3 DEF ChanOK
<1> QED BY <1>1, <1>3, <1>4 DEF ChanOK

\* A message that is neither a HELLO nor a STATUS is taken from a queue.
LEMMA RestQuieter ==
  ASSUME ChanOK(chan), NEW r \in Replicas, NEW s \in Replicas, chan[r][s] # <<>>,
         chan' = Rest(r, s), life' = life, Up(r), NEW x \in Replicas,
         x # r \/ Head(chan[r][s]).type \notin {"HELLO", "STATUS"}
  PROVE  Quieter(x)
<1> DEFINE c == chan'
<1>1. /\ \A d, y \in Replicas : d # r \/ y # s => c[d][y] = chan[d][y]
      /\ Types(chan[r][s]) = {Head(chan[r][s]).type} \cup Types(c[r][s])
  BY RestEffect
<1>2. \A d, y \in Replicas : Types(c[d][y]) \subseteq Types(chan[d][y])
  BY <1>1
<1>3. OwnAnswer(x) => OwnAnswer(x)'
  BY <1>1 DEF OwnAnswer
<1>4. life[x] = "off" => x # r
  BY DEF Up
<1>5. Asking(x)' => Asking(x)
  BY <1>2 DEF Asking, Up
<1> QED BY <1>1, <1>3, <1>4, <1>5 DEF Quieter

\* A HELLO is taken from a queue and answered.
LEMMA AnswerQuieter ==
  ASSUME ChanOK(chan), NEW r \in Replicas, NEW s \in Replicas, chan[r][s] # <<>>,
         Head(chan[r][s]).type = "HELLO", NEW msg, msg.type = "STATUS",
         chan' = Send(Rest(r, s), r, s, msg), life' = life, Up(r)
  PROVE  ChanOK(chan') /\ \A x \in Replicas : Quieter(x)
<1>1. PICK c : c = Rest(r, s)
  OBVIOUS
<1>2. /\ ChanOK(c)
      /\ \A d, y \in Replicas : d # r \/ y # s => c[d][y] = chan[d][y]
      /\ Types(chan[r][s]) = {"HELLO"} \cup Types(c[r][s])
  BY <1>1, RestEffect
<1>3. chan' = IF Up(s) THEN [c EXCEPT ![s][r] = Append(c[s][r], msg)] ELSE c
  BY <1>1 DEF Send
<1>4. /\ DOMAIN chan' = Replicas /\ \A d \in Replicas : DOMAIN chan'[d] = Replicas
      /\ \A d, y \in Replicas : d # s \/ y # r \/ ~Up(s) => chan'[d][y] = c[d][y]
      /\ Up(s) => chan'[s][r] = Append(c[s][r], msg)
  BY <1>2, <1>3 DEF ChanOK
<1>5. ASSUME Up(s)
      PROVE  IsSeq(chan'[s][r]) /\ Types(chan'[s][r]) = Types(c[s][r]) \cup {"STATUS"}
  <2>1. IsSeq(c[s][r]) /\ chan'[s][r] = Append(c[s][r], msg)
    BY <1>2, <1>4, <1>5 DEF ChanOK
  <2>2. IsSeq(Append(c[s][r], msg)) /\ Types(Append(c[s][r], msg)) = Types(c[s][r]) \cup {msg.type}
    BY <2>1, TypesAppend
  <2> QED BY <2>1, <2>2
<1>6. ASSUME NEW d \in Replicas, NEW y \in Replicas
      PROVE  /\ IsSeq(chan'[d][y]) /\ Types(chan'[d][y]) \subseteq MessageTypes
             /\ "HELLO" \in Types(chan'[d][y]) => "HELLO" \in Types(chan[d][y])
             /\ "STATUS" \in Types(chan'[d][y]) => "STATUS" \in Types(chan[d][y]) \/ (d = s /\ y = r)
  <2>1. /\ IsSeq(c[d][y]) /\ Types(c[d][y]) \subseteq MessageTypes
        /\ Types(c[d][y]) \subseteq Types(chan[d][y])
    BY <1>2 DEF ChanOK
  <2>2. CASE d = s /\ y = r /\ Up(s)
    BY <1>5, <2>1, <2>2 DEF MessageTypes, Buffered
  <2>3. CASE ~(d = s /\ y = r /\ Up(s))
    <3>1. chan'[d][y] = c[d][y]
      BY <1>4, <2>3
    <3> QED BY <2>1, <3>1
  <2> QED BY <2>2, <2>3
<1>7. ChanOK(chan')
  BY <1>4, <1>6 DEF ChanOK
<1>8. ASSUME NEW x \in Replicas PROVE Quieter(x)
  <2>1. "HELLO" \in Types(chan[r][s])
    BY <1>2
  <2>2. ASSUME NEW d \in Replicas, Up(d), "HELLO" \in Types(chan'[d][x]) PROVE Asking(x)
    BY <1>6, <2>2 DEF Asking
  <2>3. ASSUME NEW y \in Replicas, "STATUS" \in Types(chan'[x][y]) PROVE Asking(x)
    <3>1. CASE x = s
      BY <2>1, <3>1 DEF Asking
    <3>2. CASE x # s
      BY <1>6, <2>3, <3>2 DEF Asking
    <3> QED BY <3>1, <3>2
  <2>4. Asking(x)' => Asking(x)
    BY <2>2, <2>3 DEF Asking, Up
  <2>5. ASSUME OwnAnswer(x) PROVE OwnAnswer(x)'
    <3>1. CASE x = r /\ x = s
      BY <1>5, <3>1 DEF OwnAnswer
    <3>2. CASE ~(x = r /\ x = s)
      BY <1>2, <1>4, <2>5, <3>2 DEF OwnAnswer
    <3> QED BY <3>1, <3>2
  <2>6. life[x] = "off" => \A y \in Replicas : chan'[x][y] = chan[x][y]
    BY <1>2, <1>4 DEF Up
  <2> QED BY <2>4, <2>5, <2>6 DEF Quieter
<1> QED BY <1>7, <1>8

\* A HELLO asks for an answer; a STATUS comes in the tick in which its round has
\* begun, and the timers of the other messages are not those of a round.
LEMMA DeliverRound ==
  ASSUME IInv, RoundInv, NEW r \in Replicas, NEW s \in Replicas, Deliver(s, r)
  PROVE  RoundInv'
<1> DEFINE msg == Head(chan[r][s])
<1>1. /\ Up(r) /\ chan[r][s] # <<>> /\ ChanOK(chan)
      /\ UNCHANGED <<life, phase, starting, reloads, budget>>
      /\ timer \in [Replicas -> [Timers -> Int]]
  BY DEF Deliver, Free, schedVars, bookVars, RoundInv, IInv, LockInv
<1>2. Punctual'
  BY <1>1 DEF RoundInv, Punctual
<1>3. /\ OnTime(phase[r], timer[r], starting[r], Asking(r), OwnAnswer(r))
      /\ Covered(phase[r], reloads[r])
  BY <1>1, RoundOfUp
<1>4. CASE msg.type = "HELLO"
  <2>1. PICK answer : answer = StatusMsg(r, internal[r].rateLimitMultiplier)
    OBVIOUS
  <2>2. chan' = Send(Rest(r, s), r, s, answer) /\ UNCHANGED timer
    BY <1>4, <2>1 DEF Deliver, Rest
  <2>3. answer.type = "STATUS"
    BY <2>1 DEF StatusMsg
  <2>4. ChanOK(chan') /\ \A x \in Replicas : Quieter(x)
    BY <1>1, <1>4, <2>2, <2>3, AnswerQuieter
  <2>5. \A x \in Replicas \ {r} : SameRound(x)
    BY <1>1, <2>2 DEF SameRound
  <2> QED BY <1>1, <1>2, <1>3, <2>2, <2>4, <2>5, KeepStep
<1>5. CASE msg.type # "HELLO"
  <2>1. /\ chan' = Rest(r, s)
        /\ timer' = [timer EXCEPT ![r][msg.type] = DebounceDelay(msg.type)]
    BY <1>5 DEF Deliver, Rest
  <2>2. ChanOK(chan') /\ msg.type \in Types(chan[r][s])
    BY <1>1, <2>1, RestEffect
  <2>3. msg.type \in Buffered
    BY <1>1, <1>5, <2>2 DEF ChanOK, MessageTypes
  <2>4. \A x \in Replicas \ {r} : SameRound(x)
    BY <1>1, <2>1 DEF SameRound
  <2>5. timer'[r] = [timer[r] EXCEPT ![msg.type] = DebounceDelay(msg.type)]
    BY <1>1, <2>1
  <2>6. timer'[r].PHASE = timer[r].PHASE
    BY <1>1, <2>3, <2>5 DEF Timers, Buffered
  <2>7. CASE msg.type = "STATUS"
    <3>1. Asking(r)
      BY <2>2, <2>7 DEF Asking
    <3>2. InRound(phase[r]) /\ Asked(timer[r], starting[r], OwnAnswer(r))
      BY <1>3, <3>1 DEF OnTime
    <3>3. timer'[r].STATUS = StatusDelay
      BY <1>1, <2>3, <2>5, <2>7 DEF DebounceDelay, Timers
    <3>4. \A own : Asked(timer'[r], starting'[r], own)
      BY <1>1, <2>6, <3>2, <3>3, DelaysInOrder DEF Asked, Off
    <3>5. OnTime(phase'[r], timer'[r], starting'[r], Asking(r)', OwnAnswer(r)')
      BY <1>1, <3>2, <3>4 DEF OnTime
    <3>6. \A x \in Replicas \ {r} : Quieter(x)
      BY <1>1, <2>1, RestQuieter
    <3>7. RoundOK(r)'
      BY <1>1, <1>3, <3>5, AliveOK DEF Up
    <3> QED BY <1>1, <1>2, <2>2, <2>4, <3>6, <3>7, RoundStep
  <2>8. CASE msg.type # "STATUS"
    <3>1. \A x \in Replicas : Quieter(x)
      BY <1>1, <1>5, <2>1, <2>8, RestQuieter
    <3>2. timer'[r].STATUS = timer[r].STATUS
      BY <1>1, <2>3, <2>5, <2>8 DEF Timers, Buffered
    <3>3. OnTime(phase'[r], timer'[r], starting'[r], Asking(r), OwnAnswer(r))
      BY <1>1, <1>3, <2>6, <3>2 DEF OnTime, Asked, Debouncing, StartingUp, Between
    <3> QED BY <1>1, <1>2, <1>3, <2>2, <2>4, <3>1, <3>3, KeepStep
  <2> QED BY <2>7, <2>8
<1> QED BY SMTT(30), <1>4, <1>5

\* Time passes only when every message has arrived, so the timer of the lock
\* stays ahead.
LEMMA TickRound ==
  ASSUME IInv, RoundInv, Tick
  PROVE  RoundInv'
<1>1. /\ UNCHANGED <<life, chan, phase, starting, reloads, budget>>
      /\ timer \in [Replicas -> [Timers -> Int]]
      /\ budget.late = {}
  BY DEF Tick, schedVars, bookVars, RoundInv, Punctual, IInv, LockInv
<1>2. ASSUME NEW r \in Replicas, Up(r)
      PROVE  /\ \A s \in Replicas : chan[r][s] = <<>>
             /\ \A t \in Timers : timer[r][t] # 0
             /\ starting[r] # <<>> => timer[r].PHASE # 1
  BY <1>1, <1>2 DEF Tick
<1>3. ASSUME NEW r \in Replicas
      PROVE  timer'[r] = [t \in Timers |-> IF timer[r][t] > 0 THEN timer[r][t] - 1 ELSE timer[r][t]]
  <2>1. DOMAIN timer[r] = Timers
    BY <1>1
  <2> QED BY <2>1 DEF Tick
<1>4. ASSUME NEW r \in Replicas, life[r] \in {"off", "up"}
      PROVE  ~Asking(r)' /\ ~Asking(r) /\ ~OwnAnswer(r)
  <2>1. \A s \in Replicas : chan[r][s] = <<>>
    BY <1>2, <1>4 DEF Up, RoundInv, RoundOK
  <2>2. ~Asking(r) /\ ~OwnAnswer(r)
    BY <1>2, <2>1, TypesEmpty DEF Asking, OwnAnswer
  <2>3. Asking(r)' <=> Asking(r)
    BY <1>1 DEF Asking, Up
  <2> QED BY <2>2, <2>3
<1>5. ASSUME NEW r \in Replicas, life[r] \in {"off", "up"}
      PROVE  OnTime(phase'[r], timer'[r], starting'[r], Asking(r)', OwnAnswer(r)')
  <2> DEFINE t == timer[r]
             u == timer'[r]
  <2>1. /\ OnTime(phase[r], t, starting[r], Asking(r), OwnAnswer(r))
        /\ life[r] = "off" => ~InRound(phase[r])
    BY <1>5 DEF RoundInv, RoundOK
  <2>2. /\ t.PHASE \in Int /\ t.STATUS \in Int
        /\ u.PHASE = (IF t.PHASE > 0 THEN t.PHASE - 1 ELSE t.PHASE)
        /\ u.STATUS = (IF t.STATUS > 0 THEN t.STATUS - 1 ELSE t.STATUS)
    BY ZenonT(40), <1>1, <1>3 DEF Timers, Buffered
  <2>3. Up(r) => t.PHASE # 0 /\ t.STATUS # 0
    BY <1>2 DEF Timers, Buffered
  <2> HIDE DEF t, u
  <2>4. CASE InRound(phase[r])
    <3>1. Up(r)
      BY <1>5, <2>1, <2>4 DEF Up
    <3>2. CASE Asked(t, starting[r], OwnAnswer(r))
      <4>1. t.PHASE = PhaseDelay /\ t.STATUS = StatusDelay /\ starting[r] = <<>>
        BY <1>4, <1>5, <3>2 DEF Asked
      <4>2. Debouncing(u, starting[r])
        BY <2>2, <4>1, DelaysInOrder DEF Debouncing
      <4> QED BY <1>1, <1>4, <1>5, <2>4, <4>2 DEF OnTime, u
    <3>3. CASE Debouncing(t, starting[r])
      <4>1. Debouncing(u, starting[r])
        BY <2>2, <2>3, <3>1, <3>3, DelaysInOrder DEF Debouncing
      <4> QED BY <1>1, <1>4, <1>5, <2>4, <4>1 DEF OnTime, u
    <3>4. CASE StartingUp(t, starting[r])
      <4>1. t.PHASE # 1
        BY <1>2, <3>1, <3>4 DEF StartingUp, t
      <4>2. StartingUp(u, starting[r])
        BY <2>2, <3>4, <4>1 DEF StartingUp, Off
      <4> QED BY <1>1, <1>4, <1>5, <2>4, <4>2 DEF OnTime, u
    <3> QED BY <2>1, <2>4, <3>2, <3>3, <3>4 DEF OnTime
  <2>5. CASE ~InRound(phase[r])
    <3>1. Between(t, starting[r])
      BY <2>1, <2>5 DEF OnTime
    <3>2. Between(u, starting[r])
      BY <2>2, <3>1 DEF Between, Off
    <3> QED BY <1>1, <1>4, <1>5, <2>5, <3>2 DEF OnTime, u
  <2> QED BY <2>4, <2>5
<1>6. \A r \in Replicas : RoundOK(r)'
  BY <1>1, <1>5 DEF RoundInv, RoundOK
<1>7. Punctual'
  BY <1>1 DEF RoundInv, Punctual
<1> QED BY <1>1, <1>6, <1>7 DEF RoundInv

LEMMA InitRound == Init /\ budget.late = {} => RoundInv
<1> SUFFICES ASSUME Init, budget.late = {} PROVE RoundInv
  OBVIOUS
<1>1. Punctual
  <2>1. PICK t \in Trials : budget = [rounds |-> MaxRounds, failures |-> t.failures, late |-> t.late]
    BY DEF Init
  <2>2. t.late = {}
    BY <2>1
  <2> QED BY <2>1, <2>2 DEF Punctual
<1>2. life \in [Replicas -> {"off", "up", "failing", "gone"}]
  BY DEF Init
<1>3. \A d, s \in Replicas : chan[d][s] = <<>>
  BY DEF Init
<1>4. ChanOK(chan)
  BY <1>3, TypesEmpty DEF Init, ChanOK
<1>5. ASSUME NEW r \in Replicas PROVE RoundOK(r)
  <2>1. ~Asking(r)
    BY <1>3, TypesEmpty DEF Asking
  <2>2. phase[r] = FreePhase /\ starting[r] = <<>> /\ reloads[r] = <<>>
    BY <1>5 DEF Init
  <2>3. timer[r].STATUS = Off /\ timer[r].PHASE = Off
    BY <1>5 DEF Init, NoTimers, Buffered
  <2>4. ~InRound(phase[r])
    BY <2>2 DEF InRound, FreePhase
  <2> QED BY <1>3, <2>1, <2>2, <2>3, <2>4, EmptyCovered DEF RoundOK, OnTime, Between
<1> QED BY <1>1, <1>2, <1>4, <1>5 DEF RoundInv

LEMMA NextRound == IInv /\ RoundInv /\ [Next]_vars => RoundInv'
<1> SUFFICES ASSUME IInv, RoundInv, [Next]_vars PROVE RoundInv'
  OBVIOUS
<1>1. ASSUME NEW r \in Replicas, Lifecycle(r) PROVE RoundInv'
  <2>1. CASE Stop(r)
    <3>1. PICK left : /\ left = chan \/ left = Broadcast(r, CloseMsg(r))
                      /\ chan' = [left EXCEPT ![r] = [s \in Replicas |-> <<>>]]
      BY <2>1 DEF Stop
    <3>2. Forget(r)
      BY <2>1 DEF Stop
    <3> QED BY <3>1, <3>2, ForgetRound
  <2>2. CASE Crash(r)
    <3>1. Forget(r) /\ chan' = [chan EXCEPT ![r] = [s \in Replicas |-> <<>>]]
      BY <2>2 DEF Crash
    <3> QED BY <3>1, ForgetRound
  <2> QED BY <1>1, <2>1, <2>2, BootRound, ResyncRound, BackoffRound DEF Lifecycle
<1>2. ASSUME NEW r \in Replicas, Progress(r) PROVE RoundInv'
  <2>1. "HELLO" \in Round /\ "CLUSTER" \in Round
    BY DEF Round
  <2> QED BY <1>2, <2>1, AwaitPhaseRound, StatusDueRound, PhaseTimeoutRound, SayHelloRound,
       HandleShareRound, HandleCloseRound, MarketsStartedRound, ReloadedRound, BackoffRound,
       DeliverRound DEF Progress
<1>3. CASE UNCHANGED vars
  <2>1. \A r \in Replicas : RoundOK(r)'
    BY <1>3 DEF vars, RoundInv, RoundOK, OnTime, Asking, OwnAnswer, Up
  <2> QED BY <1>3, <2>1 DEF vars, RoundInv, Punctual
<1> QED BY <1>1, <1>2, <1>3, TickRound DEF Next

THEOREM PunctualRounds == Spec /\ budget.late = {} => []RoundInv
<1>1. Spec => []IInv
  BY Inductive
<1> QED BY <1>1, InitRound, NextRound, PTL DEF Spec

-----------------------------------------------------------------------------
(* The theorems. *)

\* As long as no message is late every round ends before the phase lock times
\* out, so that no replica is terminated for its round.
THEOREM RoundsEndInTimeHolds == Spec /\ budget.late = {} => []RoundsEndInTime
<1>1. RoundInv => RoundsEndInTime
  BY TimeLeft DEF RoundsEndInTime, Live, Off
<1> QED BY <1>1, PunctualRounds, PTL

\* As long as no message is late a reload for a SHARE or a CLOSE owns the phase
\* lock from its call to its return, and runs together with no start.
THEOREM LockCoversReloadHolds == Spec /\ budget.late = {} => []LockCoversReload
<1>1. RoundInv => LockCoversReload
  <2> SUFFICES ASSUME RoundInv, NEW r \in Live, NEW i \in DOMAIN reloads[r],
                      reloads[r][i].by # "BACKOFF"
               PROVE  /\ phase[r].held = reloads[r][i].by /\ phase[r].entered
                      /\ starting[r] = <<>>
                      /\ \A j \in DOMAIN reloads[r] : reloads[r][j].by # "BACKOFF" => i = j
    BY DEF LockCoversReload
  <2>1. /\ OnTime(phase[r], timer[r], starting[r], Asking(r), OwnAnswer(r))
        /\ Covered(phase[r], reloads[r])
    BY RoundOfUp DEF Live
  <2>2. ~InRound(phase[r])
    BY <2>1 DEF Covered, InRound, Round
  <2> QED BY <2>1, <2>2 DEF OnTime, Between, Covered
<1> QED BY <1>1, PunctualRounds, PTL

-----------------------------------------------------------------------------
(* What replicas learn of each other in these rounds. *)

Elements(q) == {q[i] : i \in DOMAIN q}

-----------------------------------------------------------------------------
(* Numbers. *)

LEMMA LeastNatural ==
  ASSUME NEW S \in SUBSET Nat, S # {}
  PROVE  \E n \in S : \A m \in S : n <= m
<1>1. PICK n \in S : \A m \in S : <<m, n>> \notin OpToRel(<, Nat)
  BY NatLessThanWellFounded, WFMin
<1>2. \A m \in S : ~(m < n)
  BY <1>1 DEF OpToRel
<1> QED BY <1>2

LEMMA GreatestNatural ==
  ASSUME NEW b \in Nat, NEW S \in SUBSET 0..b, S # {}
  PROVE  Max(S) \in S /\ \A m \in S : Max(S) >= m
<1> DEFINE above == {k \in Nat : \A m \in S : k >= m}
<1>1. b \in above
  OBVIOUS
<1>2. PICK k \in above : \A j \in above : k <= j
  BY <1>1, LeastNatural
<1>3. k \in S
  <2> SUFFICES ASSUME k \notin S PROVE FALSE
    OBVIOUS
  <2>1. PICK m \in S : TRUE
    OBVIOUS
  <2>2. \A j \in S : k > j
    BY <1>2
  <2>3. k - 1 \in above
    BY <2>1, <2>2, <1>2
  <2> QED BY <1>2, <2>3
<1> HIDE DEF above
<1>4. \E x \in S : \A y \in S : x >= y
  BY <1>2, <1>3 DEF above
<1> QED BY <1>4 DEF Max

-----------------------------------------------------------------------------
(* Sequences. *)

LEMMA ElementsEmpty == Elements(<<>>) = {}
BY DEF Elements

LEMMA ElementsAppend ==
  ASSUME NEW q, IsSeq(q), NEW m
  PROVE  IsSeq(Append(q, m)) /\ Elements(Append(q, m)) = Elements(q) \cup {m}
BY AppendElements DEF Elements

LEMMA ElementsTail ==
  ASSUME NEW q, IsSeq(q), q # <<>>
  PROVE  IsSeq(Tail(q)) /\ Elements(q) = {Head(q)} \cup Elements(Tail(q))
<1> DEFINE t == Tail(q)
<1>1. /\ IsSeq(t) /\ Head(q) = q[1] /\ 1 \in DOMAIN q
      /\ DOMAIN q \subseteq Nat
      /\ \A i \in DOMAIN t : i \in Nat \ {0} /\ i + 1 \in DOMAIN q /\ t[i] = q[i + 1]
      /\ \A i \in DOMAIN q : i # 1 => i - 1 \in DOMAIN t
  BY TailElements
<1> HIDE DEF t
<1>2. ASSUME NEW i \in DOMAIN q PROVE q[i] \in {q[1]} \cup Elements(t)
  <2>1. CASE i = 1
    BY <2>1
  <2>2. CASE i # 1
    <3>1. i - 1 \in DOMAIN t /\ t[i - 1] = q[i]
      BY <1>1, <2>2
    <3> QED BY <3>1 DEF Elements
  <2> QED BY <2>1, <2>2
<1>3. Elements(t) \subseteq Elements(q) /\ q[1] \in Elements(q)
  BY <1>1 DEF Elements
<1>4. Elements(q) \subseteq {q[1]} \cup Elements(t)
  BY <1>2 DEF Elements
<1> QED BY <1>1, <1>3, <1>4 DEF t

LEMMA ElementsConcat ==
  ASSUME NEW S, NEW p \in Seq(S), NEW q \in Seq(S)
  PROVE  p \o q \in Seq(S) /\ Elements(p \o q) = Elements(p) \cup Elements(q)
<1> DEFINE c == p \o q
<1>1. /\ c \in Seq(S)
      /\ Len(p) \in Nat /\ Len(q) \in Nat /\ Len(c) = Len(p) + Len(q)
      /\ DOMAIN p = 1..Len(p) /\ DOMAIN q = 1..Len(q) /\ DOMAIN c = 1..Len(c)
      /\ \A i \in 1..Len(c) : c[i] = IF i <= Len(p) THEN p[i] ELSE q[i - Len(p)]
  OBVIOUS
<1> HIDE DEF c
<1>2. ASSUME NEW i \in DOMAIN c PROVE c[i] \in Elements(p) \cup Elements(q)
  <2>1. CASE i <= Len(p)
    BY <1>1, <2>1 DEF Elements
  <2>2. CASE ~(i <= Len(p))
    <3>1. i - Len(p) \in DOMAIN q
      BY <1>1, <2>2
    <3> QED BY <1>1, <2>2, <3>1 DEF Elements
  <2> QED BY <2>1, <2>2
<1>3. ASSUME NEW i \in DOMAIN p PROVE p[i] \in Elements(c)
  <2>1. i \in DOMAIN c /\ c[i] = p[i]
    BY <1>1
  <2> QED BY <2>1 DEF Elements
<1>4. ASSUME NEW i \in DOMAIN q PROVE q[i] \in Elements(c)
  <2>1. i + Len(p) \in DOMAIN c /\ c[i + Len(p)] = q[i]
    BY <1>1
  <2> QED BY <2>1 DEF Elements
<1>5. /\ Elements(c) \subseteq Elements(p) \cup Elements(q)
      /\ Elements(p) \subseteq Elements(c) /\ Elements(q) \subseteq Elements(c)
  BY <1>2, <1>3, <1>4 DEF Elements
<1> QED BY <1>1, <1>5 DEF c

-----------------------------------------------------------------------------
(* FlattenSeq: the sequences in a row have the elements of all of them.     *)

\* f has the partial results of FlattenSeq for the first n.
Flattens(f, seqs, n) == f = [i \in 1..n |-> IF i = 1 THEN seqs[i] ELSE f[i-1] \o seqs[i]]

LEMMA FlattensExist ==
  ASSUME NEW seqs, NEW n \in Nat
  PROVE  \E f : Flattens(f, seqs, n)
<1> DEFINE Bad == {k \in Nat : ~ \E f : Flattens(f, seqs, k)}
<1> SUFFICES ASSUME Bad # {} PROVE FALSE
  OBVIOUS
<1>1. PICK k \in Bad : \A m \in Bad : k <= m
  BY LeastNatural
<1>2. CASE k = 0
  <2>1. Flattens([i \in 1..0 |-> i], seqs, 0)
    BY DEF Flattens
  <2> QED BY <1>2, <2>1
<1>3. CASE k # 0
  <2>1. k - 1 \in Nat /\ k - 1 \notin Bad
    BY <1>1, <1>3
  <2>2. PICK f : Flattens(f, seqs, k - 1)
    BY <2>1
  <2> DEFINE g == [i \in 1..k |-> IF i = k THEN (IF k = 1 THEN seqs[k] ELSE f[k-1] \o seqs[k]) ELSE f[i]]
  <2>3. ASSUME NEW i \in 1..k
        PROVE  g[i] = IF i = 1 THEN seqs[i] ELSE g[i-1] \o seqs[i]
    <3>1. CASE i = k
      BY <1>3, <3>1
    <3>2. CASE i # k
      <4>1. i \in 1..(k-1) /\ (i # 1 => i - 1 \in 1..(k-1)) /\ (i # 1 => i - 1 \in 1..k)
        BY <3>2
      <4>2. f[i] = IF i = 1 THEN seqs[i] ELSE f[i-1] \o seqs[i]
        BY <2>2, <4>1 DEF Flattens
      <4> QED BY <3>2, <4>1, <4>2
    <3> QED BY <3>1, <3>2
  <2>4. g = [i \in 1..k |-> g[i]]
    OBVIOUS
  <2> HIDE DEF g
  <2>5. Flattens(g, seqs, k)
    BY <2>3, <2>4 DEF Flattens
  <2> QED BY <2>5
<1> QED BY <1>2, <1>3

LEMMA FlattenDef ==
  ASSUME NEW seqs, Len(seqs) \in Nat \ {0}
  PROVE  \E f : Flattens(f, seqs, Len(seqs)) /\ FlattenSeq(seqs) = f[Len(seqs)]
<1> DEFINE f == CHOOSE f : Flattens(f, seqs, Len(seqs))
<1>1. Flattens(f, seqs, Len(seqs))
  BY FlattensExist
<1>2. FlattenSeq(seqs) = f[Len(seqs)]
  BY DEF FlattenSeq, Flattens
<1> QED BY <1>1, <1>2

\* flat has the elements of the first n of seqs.
Gathers(flat, seqs, n) == Elements(flat) = UNION {Elements(seqs[i]) : i \in 1..n}

LEMMA GatherOneMore ==
  ASSUME NEW seqs, NEW low, NEW k
  PROVE  UNION {Elements(seqs[i]) : i \in low \cup {k}} =
           (UNION {Elements(seqs[i]) : i \in low}) \cup Elements(seqs[k])
OBVIOUS

LEMMA FlattenElements ==
  ASSUME NEW S, NEW n \in Nat, NEW seqs \in [1..n -> Seq(S)]
  PROVE  FlattenSeq(seqs) \in Seq(S) /\ Gathers(FlattenSeq(seqs), seqs, n)
<1>1. seqs \in Seq(Seq(S)) /\ Len(seqs) = n
  BY SeqDef
<1>2. CASE n = 0
  <2>1. FlattenSeq(seqs) = seqs /\ DOMAIN seqs = {}
    BY <1>1, <1>2 DEF FlattenSeq
  <2>2. seqs = <<>>
    BY <1>1, <1>2
  <2> QED BY <1>2, <2>1, <2>2 DEF Elements, Gathers
<1>3. CASE n # 0
  <2>1. PICK f : Flattens(f, seqs, n) /\ FlattenSeq(seqs) = f[n]
    BY <1>1, <1>3, FlattenDef
  <2> DEFINE Right(k) == f[k] \in Seq(S) /\ Gathers(f[k], seqs, k)
             wrong == {k \in 1..n : ~Right(k)}
  <2>2. ASSUME NEW k \in 1..n, k # 1 => Right(k - 1)
        PROVE  Right(k)
    <3>1. f[k] = IF k = 1 THEN seqs[k] ELSE f[k-1] \o seqs[k]
      BY <2>1 DEF Flattens
    <3>2. seqs[k] \in Seq(S)
      OBVIOUS
    <3>3. CASE k = 1
      <4>1. f[k] = seqs[1] /\ 1..k = {1}
        BY <3>1, <3>3
      <4>2. UNION {Elements(seqs[i]) : i \in 1..k} = Elements(seqs[1])
        BY <4>1
      <4> QED BY <3>2, <3>3, <4>1, <4>2 DEF Gathers
    <3>4. CASE k # 1
      <4>1. 1..k = 1..(k-1) \cup {k}
        BY <3>4
      <4>2. f[k-1] \in Seq(S) /\ Elements(f[k-1]) = UNION {Elements(seqs[i]) : i \in 1..(k-1)}
        BY <2>2, <3>4 DEF Gathers
      <4>3. f[k] = f[k-1] \o seqs[k]
        BY <3>1, <3>4
      <4>4. f[k] \in Seq(S) /\ Elements(f[k]) = Elements(f[k-1]) \cup Elements(seqs[k])
        BY <3>2, <4>2, <4>3, ElementsConcat
      <4>5. UNION {Elements(seqs[i]) : i \in 1..k} =
              (UNION {Elements(seqs[i]) : i \in 1..(k-1)}) \cup Elements(seqs[k])
        BY <4>1, GatherOneMore
      <4>6. Gathers(f[k], seqs, k)
        BY <4>2, <4>4, <4>5 DEF Gathers
      <4> QED BY <4>4, <4>6
    <3> QED BY <3>3, <3>4
  <2> HIDE DEF Right
  <2>3. wrong = {}
    <3> SUFFICES ASSUME wrong # {} PROVE FALSE
      OBVIOUS
    <3>1. wrong \in SUBSET Nat
      OBVIOUS
    <3>2. PICK k \in wrong : \A j \in wrong : k <= j
      BY <3>1, LeastNatural
    <3>3. k \in 1..n /\ ~Right(k)
      OBVIOUS
    <3>4. ASSUME k # 1 PROVE Right(k - 1)
      <4>1. k - 1 \in 1..n /\ ~(k <= k - 1)
        BY <3>3, <3>4
      <4> QED BY <3>2, <4>1
    <3> QED BY <2>2, <3>3, <3>4
  <2>4. Right(n)
    BY <1>3, <2>3
  <2> QED BY <2>1, <2>4 DEF Right
<1> QED BY <1>2, <1>3

\* What is left of a list when only the places in keep are kept.
LEMMA KeptElements ==
  ASSUME NEW list, IsSeq(list), NEW keep \in SUBSET DOMAIN list,
         NEW parts, parts = [i \in DOMAIN list |-> IF i \in keep THEN <<list[i]>> ELSE <<>>]
  PROVE  /\ IsSeq(FlattenSeq(parts))
         /\ Elements(FlattenSeq(parts)) = {list[i] : i \in keep}
<1> DEFINE S == Elements(list)
<1>1. list \in Seq(S)
  BY DEF IsSeq, Elements
<1>2. PICK n \in Nat : DOMAIN list = 1..n
  BY <1>1
<1>3. \A i \in 1..n : list[i] \in S
  BY <1>2 DEF Elements
<1> HIDE DEF S
<1>4. parts \in [1..n -> Seq(S)]
  BY <1>2, <1>3
<1>5. FlattenSeq(parts) \in Seq(S) /\ Gathers(FlattenSeq(parts), parts, n)
  BY <1>4, FlattenElements
<1>6. \A i \in 1..n : Elements(parts[i]) = IF i \in keep THEN {list[i]} ELSE {}
  <2> TAKE i \in 1..n
  <2>1. CASE i \in keep
    <3>1. parts[i] = <<list[i]>>
      BY <1>2, <2>1
    <3>2. DOMAIN <<list[i]>> = {1} /\ <<list[i]>>[1] = list[i]
      OBVIOUS
    <3> QED BY <2>1, <3>1, <3>2 DEF Elements
  <2>2. CASE i \notin keep
    BY <1>2, <2>2, ElementsEmpty
  <2> QED BY <2>1, <2>2
<1>7. UNION {Elements(parts[i]) : i \in 1..n} = {list[i] : i \in keep}
  BY <1>2, <1>6
<1> QED BY <1>5, <1>7, SeqIsSeq DEF Gathers

LEMMA FirstIndex ==
  ASSUME NEW list, IsSeq(list), NEW a, a \in Elements(list)
  PROVE  Len(list) \in Nat /\ IndexOf(a, list) \in 0..(Len(list) - 1)
<1>1. list \in Seq(Elements(list)) /\ Len(list) \in Nat /\ DOMAIN list = 1..Len(list)
  BY DEF IsSeq, Elements
<1> DEFINE there == {i \in DOMAIN list : list[i] = a}
<1>2. there # {} /\ there \in SUBSET Nat
  BY <1>1 DEF Elements
<1>3. PICK k \in there : \A j \in there : k <= j
  BY <1>2, LeastNatural
<1>4. \A j \in 1..(k - 1) : list[j] # a
  BY <1>1, <1>3
<1>5. \E i \in DOMAIN list : list[i] = a /\ \A j \in 1..(i - 1) : list[j] # a
  BY <1>3, <1>4
<1>6. PICK i \in DOMAIN list : IndexOf(a, list) = i - 1
  BY <1>5 DEF IndexOf
<1> QED BY <1>1, <1>6

-----------------------------------------------------------------------------
(* What the reducers make of the messages.                                  *)

\* Everybody in the list of replicas is in that of the cluster.
Coherent(state) ==
  /\ IsSeq(state.replicaMembers) /\ IsSeq(state.clusterMembers)
  /\ Elements(state.replicaMembers) \subseteq {m.address : m \in Elements(state.clusterMembers)}

LEMMA ConstantElements ==
  ASSUME NEW q, IsSeq(q), NEW a, NEW c, c = [i \in DOMAIN q |-> a]
  PROVE  /\ c \in Seq({a})
         /\ Elements(c) = IF Elements(q) = {} THEN {} ELSE {a}
<1>1. q \in Seq(Elements(q))
  BY DEF IsSeq, Elements
<1>2. PICK n \in Nat : DOMAIN q = 1..n
  BY <1>1
<1>3. c \in [1..n -> {a}]
  BY <1>2
<1>4. c \in Seq({a})
  BY <1>3, SeqDef
<1>5. Elements(q) = {} <=> DOMAIN q = {}
  BY DEF Elements
<1>6. CASE DOMAIN q = {}
  BY <1>4, <1>5, <1>6 DEF Elements
<1>7. CASE DOMAIN q # {}
  BY <1>4, <1>5, <1>7 DEF Elements
<1> QED BY <1>6, <1>7

\* The statuses of a alone.
LEMMA StatusesOf ==
  ASSUME NEW statuses, IsSeq(statuses), NEW a, NEW those,
         NEW own, own = FlattenSeq([i \in DOMAIN statuses |->
                          IF statuses[i].from = a /\ a \in those THEN <<statuses[i]>> ELSE <<>>])
  PROVE  /\ IsSeq(own)
         /\ Elements(own) = {m \in Elements(statuses) : m.from = a /\ a \in those}
<1> DEFINE keep == {i \in DOMAIN statuses : statuses[i].from = a /\ a \in those}
           parts == [i \in DOMAIN statuses |-> IF i \in keep THEN <<statuses[i]>> ELSE <<>>]
<1>1. own = FlattenSeq(parts)
  <2>1. parts = [i \in DOMAIN statuses |->
                   IF statuses[i].from = a /\ a \in those THEN <<statuses[i]>> ELSE <<>>]
    OBVIOUS
  <2> QED BY <2>1
<1>2. keep \in SUBSET DOMAIN statuses
  OBVIOUS
<1>3. IsSeq(FlattenSeq(parts)) /\ Elements(FlattenSeq(parts)) = {statuses[i] : i \in keep}
  <2> HIDE DEF keep
  <2> QED BY <1>2, KeptElements
<1>4. {statuses[i] : i \in keep} = {m \in Elements(statuses) : m.from = a /\ a \in those}
  BY DEF Elements
<1> HIDE DEF parts, keep
<1> QED BY <1>1, <1>3, <1>4

\* The replicas r counts are its peers that have sent a status.
LEMMA AggregatedReplicas ==
  ASSUME NEW r \in Replicas, NEW statuses, IsSeq(statuses)
  PROVE  /\ AggregateReplicaMembers(r, statuses) \in Seq(Replicas)
         /\ IsSeq(AggregateReplicaMembers(r, statuses))
         /\ Elements(AggregateReplicaMembers(r, statuses)) =
              {a \in Peers(r) : \E m \in Elements(statuses) : m.from = a}
<1> DEFINE own(a) == Filter(statuses, LAMBDA m : m.from = a /\ a \in Peers(r))
           part(a) == [i \in DOMAIN own(a) |-> a]
           parts == [a \in 1..N |-> part(a)]
<1>1. ASSUME NEW a \in 1..N
      PROVE  /\ part(a) \in Seq(Replicas)
             /\ Elements(part(a)) = {b \in {a} : b \in Peers(r) /\ \E m \in Elements(statuses) : m.from = b}
  <2>1. own(a) = FlattenSeq([i \in DOMAIN statuses |->
                   IF statuses[i].from = a /\ a \in Peers(r) THEN <<statuses[i]>> ELSE <<>>])
    BY DEF Filter
  <2> HIDE DEF own
  <2>2. IsSeq(own(a)) /\ Elements(own(a)) = {m \in Elements(statuses) : m.from = a /\ a \in Peers(r)}
    BY <2>1, StatusesOf
  <2>3. part(a) \in Seq({a}) /\ Elements(part(a)) = IF Elements(own(a)) = {} THEN {} ELSE {a}
    BY <2>2, ConstantElements
  <2>4. {a} \subseteq Replicas
    BY DEF Replicas
  <2>5. part(a) \in Seq(Replicas)
    BY <2>3, <2>4, SeqMonotonic
  <2> QED BY <2>2, <2>3, <2>5
<1>2. AggregateReplicaMembers(r, statuses) = FlattenSeq(parts)
  BY DEF AggregateReplicaMembers, Replicas
<1> HIDE DEF part
<1>3. parts \in [1..N -> Seq(Replicas)] /\ N \in Nat
  BY <1>1, NAssumption
<1>4. FlattenSeq(parts) \in Seq(Replicas) /\ Gathers(FlattenSeq(parts), parts, N)
  BY <1>3, FlattenElements
<1>5. Elements(FlattenSeq(parts)) = UNION {Elements(part(a)) : a \in 1..N}
  BY <1>4 DEF Gathers
<1>6. Peers(r) \subseteq 1..N
  BY DEF Peers, Replicas
<1>7. UNION {Elements(part(a)) : a \in 1..N} =
        {a \in Peers(r) : \E m \in Elements(statuses) : m.from = a}
  BY <1>1, <1>6
<1> QED BY <1>2, <1>4, <1>5, <1>7, SeqIsSeq

\* What the statuses report of their senders.
Reported(statuses) == {[address |-> a, interval |-> m.interval] : a \in 1..N, m \in Elements(statuses)}

LEMMA AggregatedCluster ==
  ASSUME NEW statuses, IsSeq(statuses)
  PROVE  /\ AggregateClusterMembers(statuses) \in Seq(Reported(statuses))
         /\ IsSeq(AggregateClusterMembers(statuses))
         /\ {c.address : c \in Elements(AggregateClusterMembers(statuses))} =
              {a \in Replicas : \E m \in Elements(statuses) : m.from = a}
<1> DEFINE sent(a) == Filter(statuses, LAMBDA m : m.from = a)
           part(a) == [i \in DOMAIN sent(a) |-> [address |-> a, interval |-> sent(a)[i].interval]]
           parts == [a \in 1..N |-> part(a)]
           S == Reported(statuses)
<1>1. ASSUME NEW a \in 1..N
      PROVE  /\ part(a) \in Seq(S)
             /\ \A c \in Elements(part(a)) :
                  c.address = a /\ \E m \in Elements(statuses) : m.from = a
             /\ (\E m \in Elements(statuses) : m.from = a) =>
                  \E c \in Elements(part(a)) : c.address = a
  <2>1. a \in Replicas
    BY DEF Replicas
  <2>2. IsSeq(sent(a)) /\ Elements(sent(a)) = {m \in Elements(statuses) : m.from = a}
    <3>1. PICK own : own = FlattenSeq([i \in DOMAIN statuses |->
                       IF statuses[i].from = a /\ a \in Replicas THEN <<statuses[i]>> ELSE <<>>])
      OBVIOUS
    <3>2. IsSeq(own) /\ Elements(own) = {m \in Elements(statuses) : m.from = a /\ a \in Replicas}
      BY ONLY <3>1, IsSeq(statuses), StatusesOf
    <3>3. sent(a) = own
      BY <2>1, <3>1 DEF Filter
    <3> QED BY <2>1, <3>2, <3>3
  <2> HIDE DEF sent
  <2>3. PICK n \in Nat : DOMAIN sent(a) = 1..n
    BY <2>2 DEF IsSeq
  <2>4. \A i \in 1..n : sent(a)[i] \in Elements(statuses) /\ sent(a)[i].from = a
    <3>1. \A i \in 1..n : sent(a)[i] \in Elements(sent(a))
      BY <2>3 DEF Elements
    <3> QED BY <2>2, <3>1
  <2>5. \A i \in 1..n : part(a)[i] \in S /\ part(a)[i].address = a
    BY <2>3, <2>4 DEF Reported
  <2>6. part(a) \in [1..n -> S]
    <3> HIDE DEF S
    <3> QED BY <2>3, <2>5
  <2>7. DOMAIN part(a) = 1..n
    BY <2>3
  <2> HIDE DEF part
  <2>8. part(a) \in Seq(S)
    <3> HIDE DEF S, parts
    <3> QED BY ONLY <2>6, n \in Nat, SeqDef
  <2>9. (\E m \in Elements(statuses) : m.from = a) => 1..n # {}
    BY <2>2, <2>3 DEF Elements
  <2> QED BY <2>4, <2>5, <2>7, <2>8, <2>9 DEF Elements
<1>2. AggregateClusterMembers(statuses) = FlattenSeq(parts)
  BY DEF AggregateClusterMembers, Replicas
<1> HIDE DEF part, S
<1>3. parts \in [1..N -> Seq(S)] /\ N \in Nat
  BY <1>1, NAssumption
<1>4. FlattenSeq(parts) \in Seq(S) /\ Gathers(FlattenSeq(parts), parts, N)
  BY <1>3, FlattenElements
<1>5. Elements(FlattenSeq(parts)) = UNION {Elements(part(a)) : a \in 1..N}
  BY <1>4 DEF Gathers
<1>6. {c.address : c \in UNION {Elements(part(a)) : a \in 1..N}} =
        {a \in 1..N : \E m \in Elements(statuses) : m.from = a}
  BY <1>1
<1> QED BY <1>2, <1>4, <1>5, <1>6, SeqIsSeq DEF Replicas, S

\* The state of a round is coherent, and has its replica if that has answered.
LEMMA AggregatedState ==
  ASSUME NEW r \in Replicas, NEW statuses, IsSeq(statuses),
         NEW state, state = AggregateState(r, statuses)
  PROVE  /\ Coherent(state)
         /\ (\E m \in Elements(statuses) : m.from = r) => r \in Elements(state.replicaMembers)
<1>1. /\ state.replicaMembers = AggregateReplicaMembers(r, statuses)
      /\ state.clusterMembers = AggregateClusterMembers(statuses)
  BY DEF AggregateState
<1>2. r \in Peers(r) /\ Peers(r) \subseteq Replicas
  BY DEF Peers
<1> QED BY <1>1, <1>2, AggregatedReplicas, AggregatedCluster DEF Coherent

\* Only a list with r in it is taken from the shares, and from one of them.
LEMMA SharedReplicas ==
  ASSUME NEW r, NEW shares, IsSeq(shares), NEW mult,
         NEW state, state = ShareState(r, shares, mult), state.replicaMembers # Null
  PROVE  \E m \in Elements(shares) :
           /\ m.from \in Peers(r)
           /\ state.replicaMembers = m.replicaMembers /\ r \in Elements(state.replicaMembers)
<1> DEFINE own == {i \in DOMAIN shares : shares[i].from \in Peers(r)}
           last == LastReplicaMembers(r, shares)
<1>1. state.replicaMembers = last /\ last # Null /\ r \in Elements(last)
  BY DEF ShareState, Elements
<1>2. own # {} /\ last = shares[Max(own)].replicaMembers
  BY <1>1 DEF LastReplicaMembers
<1>3. PICK n \in Nat : DOMAIN shares = 1..n
  BY DEF IsSeq
<1>4. own \in SUBSET 0..n
  BY <1>3
<1> HIDE DEF own
<1>5. Max(own) \in own
  BY <1>2, <1>3, <1>4, GreatestNatural
<1>6. Max(own) \in DOMAIN shares /\ shares[Max(own)].from \in Peers(r)
  BY <1>5 DEF own
<1> QED BY <1>1, <1>2, <1>6 DEF Elements

LEMMA FilteredElements ==
  ASSUME NEW list, IsSeq(list), NEW out,
         NEW left, left = FlattenSeq([i \in DOMAIN list |-> IF list[i] \notin out THEN <<list[i]>> ELSE <<>>])
  PROVE  IsSeq(left) /\ Elements(left) = Elements(list) \ out
<1> DEFINE keep == {i \in DOMAIN list : list[i] \notin out}
           parts == [i \in DOMAIN list |-> IF i \in keep THEN <<list[i]>> ELSE <<>>]
<1>1. left = FlattenSeq(parts)
  <2>1. parts = [i \in DOMAIN list |-> IF list[i] \notin out THEN <<list[i]>> ELSE <<>>]
    OBVIOUS
  <2> QED BY <2>1
<1>2. keep \in SUBSET DOMAIN list
  OBVIOUS
<1>3. IsSeq(FlattenSeq(parts)) /\ Elements(FlattenSeq(parts)) = {list[i] : i \in keep}
  <2> HIDE DEF keep
  <2> QED BY <1>2, KeptElements
<1>4. {list[i] : i \in keep} = Elements(list) \ out
  BY DEF Elements
<1> HIDE DEF parts, keep
<1> QED BY <1>1, <1>3, <1>4

\* The closed replicas, and nobody else, leave the list of replicas.
LEMMA RemovedReplicas ==
  ASSUME NEW r, NEW closes, NEW m, IsSeq(m.replicaMembers), IsSeq(m.clusterMembers),
         NEW left, left = RemoveClosed(r, closes, m)
  PROVE  /\ DOMAIN left = Lists
         /\ IsSeq(left.replicaMembers) /\ IsSeq(left.clusterMembers)
         /\ Elements(left.replicaMembers) = Elements(m.replicaMembers) \ (Closers(closes) \cap Peers(r))
<1>1. DOMAIN left = Lists
  BY DEF RemoveClosed, Lists
<1>2. /\ IsSeq(left.replicaMembers)
      /\ Elements(left.replicaMembers) = Elements(m.replicaMembers) \ (Closers(closes) \cap Peers(r))
  <2>1. PICK out : out = Closers(closes) \cap Peers(r)
    OBVIOUS
  <2>2. PICK list : list = m.replicaMembers /\ IsSeq(list)
    OBVIOUS
  <2>3. PICK q :
          q = FlattenSeq([i \in DOMAIN list |-> IF list[i] \notin out THEN <<list[i]>> ELSE <<>>])
    OBVIOUS
  <2>4. IsSeq(q) /\ Elements(q) = Elements(list) \ out
    <3>1. IsSeq(list)
      BY <2>2
    <3> QED BY ONLY <3>1, <2>3, FilteredElements
  <2>5. left.replicaMembers = q
    BY <2>1, <2>2, <2>3 DEF RemoveClosed, Filter
  <2> QED BY <2>1, <2>2, <2>4, <2>5
<1>3. IsSeq(left.clusterMembers)
  <2>1. PICK list : list = m.clusterMembers /\ IsSeq(list)
    OBVIOUS
  <2>2. PICK keep : keep = {i \in DOMAIN list : list[i].address \notin Closers(closes)}
    OBVIOUS
  <2>3. PICK parts : parts = [i \in DOMAIN list |-> IF i \in keep THEN <<list[i]>> ELSE <<>>]
    OBVIOUS
  <2>4. parts = [i \in DOMAIN list |->
                   IF list[i].address \notin Closers(closes) THEN <<list[i]>> ELSE <<>>]
    BY <2>2, <2>3
  <2>5. left.clusterMembers = FlattenSeq(parts)
    BY <2>1, <2>4 DEF RemoveClosed, Filter
  <2>6. keep \in SUBSET DOMAIN list
    BY <2>2
  <2> QED BY <2>1, <2>3, <2>5, <2>6, KeptElements
<1> QED BY <1>1, <1>2, <1>3

-----------------------------------------------------------------------------
(* Dynamic configs.                                                         *)

ConfigFields == {"replicaSize", "instancePosition", "rateLimitMultiplier", "clusterMembers"}

HasSlot(c) == c.replicaSize \in Nat /\ c.instancePosition \in 0..(c.replicaSize - 1)

\* A complete config, and one that may leave the slot to the old config.
InPlace(c) == DOMAIN c = ConfigFields /\ HasSlot(c)
Offer(c) == HasSlot(c) \/ (c.replicaSize = Null /\ c.instancePosition = Null)

LEMMA OfferTaken ==
  ASSUME NEW old, InPlace(old), NEW c, Offer(c)
  PROVE  InPlace(SetDynamicConfig(old, c))
<1> DEFINE new == SetDynamicConfig(old, c)
<1>1. DOMAIN new = ConfigFields
  BY DEF SetDynamicConfig, Overlay, InPlace
<1>2. /\ new.replicaSize = IF c.replicaSize = Null THEN old.replicaSize ELSE c.replicaSize
      /\ new.instancePosition =
           IF c.instancePosition = Null THEN old.instancePosition ELSE c.instancePosition
  BY DEF SetDynamicConfig, Overlay, InPlace, ConfigFields
<1> HIDE DEF new
<1>3. CASE HasSlot(c)
  <2>1. c.replicaSize # Null /\ c.instancePosition # Null
    BY <1>3, NullAssumption DEF HasSlot
  <2> QED BY <1>1, <1>2, <1>3, <2>1 DEF InPlace, HasSlot, new
<1>4. CASE c.replicaSize = Null /\ c.instancePosition = Null
  BY <1>1, <1>2, <1>4 DEF InPlace, HasSlot, new
<1> QED BY <1>3, <1>4 DEF Offer

LEMMA NormalizedOffer ==
  ASSUME NEW r, NEW state,
         state.replicaMembers = Null \/ (IsSeq(state.replicaMembers) /\ r \in Elements(state.replicaMembers))
  PROVE  Offer(NormalizeState(r, state))
<1>1. CASE state.replicaMembers = Null
  BY <1>1 DEF NormalizeState, Offer
<1>2. CASE state.replicaMembers # Null
  <2>1. PICK list : list = state.replicaMembers
    OBVIOUS
  <2>2. Len(list) \in Nat /\ IndexOf(r, list) \in 0..(Len(list) - 1)
    BY <1>2, <2>1, FirstIndex
  <2>3. /\ NormalizeState(r, state).replicaSize = Len(list)
        /\ NormalizeState(r, state).instancePosition = IndexOf(r, list)
    BY <1>2, <2>1 DEF NormalizeState
  <2> QED BY <2>2, <2>3 DEF Offer, HasSlot
<1> QED BY <1>1, <1>2

-----------------------------------------------------------------------------
(* What the messages say.                                                   *)

\* A replica that says CLOSE is one of those that are gone.
Letter(gone, m) ==
  /\ m.from \in Replicas
  /\ m.type = "CLOSE" => m.from \in gone
  /\ m.type = "SHARE" => Coherent(m)

ChanMail(gone, c) == \A d, s \in Replicas : \A m \in Elements(c[d][s]) : Letter(gone, m) /\ m.from = s

BufferMail(gone, b) ==
  /\ DOMAIN b = Buffered
  /\ \A t \in Buffered :
       IsSeq(b[t]) /\ \A m \in Elements(b[t]) : Letter(gone, m) /\ m.type = t

Gone == {r \in Replicas : life[r] = "gone"}

MailInv ==
  /\ ChanMail(Gone, chan) /\ DOMAIN buffer = Replicas
  /\ \A r \in Replicas : BufferMail(Gone, buffer[r])

-----------------------------------------------------------------------------
(* What a replica has made of them.                                         *)

\* r is in the list of replicas that it knows, ...
Remembers(r, m, lists) ==
  /\ DOMAIN m = Lists /\ IsSeq(m.replicaMembers) /\ IsSeq(m.clusterMembers)
  /\ "replicaMembers" \in lists => r \in Elements(m.replicaMembers)

\* ... in those it starts its markets with ...
Prepared(r, states) ==
  /\ IsSeq(states)
  /\ \A state \in Elements(states) : Coherent(state) /\ r \in Elements(state.replicaMembers)

\* ... and has its place in the configs of its schedulers, and those to come.
Scheduled(calls, own, markets) ==
  /\ \A call \in Elements(calls) : Offer(call.config)
  /\ InPlace(own)
  /\ markets # Null => InPlace(markets)

\* In a round r awaits its own answer, or has got it.
Answered(r) ==
  InRound(phase[r]) /\ starting[r] = <<>> =>
    OwnAnswer(r) \/ \E m \in Elements(buffer[r].STATUS) : m.from = r

Settled(r) ==
  /\ Remembers(r, members[r], known[r]) /\ Prepared(r, starting[r])
  /\ Scheduled(reloads[r], internal[r], running[r])

PlaceOK(r) == life[r] \in {"off", "up"} => Answered(r) /\ Settled(r)

Total == /\ DOMAIN members = Replicas /\ DOMAIN internal = Replicas /\ DOMAIN running = Replicas

PlaceInv ==
  /\ MailInv /\ Total /\ \A r \in Replicas : PlaceOK(r)

AllInv == IInv /\ RoundInv /\ PlaceInv

-----------------------------------------------------------------------------
(* Messages on their way. *)

LEMMA LetterRemains ==
  ASSUME NEW gone, NEW more, gone \subseteq more, NEW m, Letter(gone, m)
  PROVE  Letter(more, m)
BY DEF Letter

LEMMA BufferRemains ==
  ASSUME NEW gone, NEW more, gone \subseteq more, NEW b, BufferMail(gone, b)
  PROVE  BufferMail(more, b)
BY LetterRemains DEF BufferMail

\* Whoever is gone does not come back.
LEMMA GoneGrows ==
  ASSUME DOMAIN life = Replicas, NEW r \in Replicas,
         life' = life \/ \E l : life' = [life EXCEPT ![r] = l] /\ (life[r] # "gone" \/ l = "gone")
  PROVE  Gone \subseteq Gone'
BY DEF Gone

\* The queues after a broadcast: c is what they become.
LEMMA BroadcastElements ==
  ASSUME ChanOK(chan), NEW s \in Replicas, NEW msg, NEW c, c = Broadcast(s, msg),
         NEW d \in Replicas, NEW x \in Replicas
  PROVE  Elements(c[d][x]) =
           IF Up(d) /\ x = s THEN Elements(chan[d][x]) \cup {msg} ELSE Elements(chan[d][x])
<1>1. c[d] = IF Up(d) THEN [chan[d] EXCEPT ![s] = Append(chan[d][s], msg)] ELSE chan[d]
  BY DEF Broadcast
<1>2. DOMAIN chan[d] = Replicas /\ IsSeq(chan[d][x])
  BY DEF ChanOK
<1>3. c[d][x] = IF Up(d) /\ x = s THEN Append(chan[d][x], msg) ELSE chan[d][x]
  BY <1>1, <1>2
<1> QED BY <1>2, <1>3, ElementsAppend

LEMMA BroadcastMail ==
  ASSUME ChanOK(chan), NEW gone, NEW more, gone \subseteq more, ChanMail(gone, chan),
         NEW s \in Replicas, NEW msg, Letter(more, msg), msg.from = s,
         NEW c, c = Broadcast(s, msg)
  PROVE  ChanMail(more, c)
<1> SUFFICES ASSUME NEW d \in Replicas, NEW x \in Replicas, NEW m \in Elements(c[d][x])
             PROVE  Letter(more, m) /\ m.from = x
  BY DEF ChanMail
<1>1. Elements(c[d][x]) = IF Up(d) /\ x = s THEN Elements(chan[d][x]) \cup {msg}
                                              ELSE Elements(chan[d][x])
  BY BroadcastElements
<1>2. m \in Elements(chan[d][x]) \/ (m = msg /\ x = s)
  BY <1>1
<1> QED BY <1>2, LetterRemains DEF ChanMail

LEMMA ChanRemains ==
  ASSUME NEW gone, NEW more, gone \subseteq more, NEW c, ChanMail(gone, c)
  PROVE  ChanMail(more, c)
BY LetterRemains DEF ChanMail

\* A step that broadcasts msg, if anything, and empties the buffer t of r, or none.
Broadcasts(s, msg) == chan' = Broadcast(s, msg) /\ msg.from = s /\ Letter(Gone', msg)

LEMMA MailStep ==
  ASSUME MailInv, ChanOK(chan), NEW r \in Replicas, Gone \subseteq Gone',
         chan' = chan \/ \E msg : Broadcasts(r, msg),
         buffer' = buffer \/ \E t \in Buffered : buffer' = [buffer EXCEPT ![r][t] = <<>>]
  PROVE  MailInv'
<1>1. ChanMail(Gone', chan')
  BY BroadcastMail, ChanRemains DEF MailInv, Broadcasts
<1>2. \A x \in Replicas : BufferMail(Gone', buffer[x])
  BY BufferRemains DEF MailInv
<1>3. CASE buffer' = buffer
  BY <1>1, <1>2, <1>3 DEF MailInv
<1>4. CASE \E t \in Buffered : buffer' = [buffer EXCEPT ![r][t] = <<>>]
  <2>1. PICK t \in Buffered : buffer' = [buffer EXCEPT ![r][t] = <<>>]
    BY <1>4
  <2>2. DOMAIN buffer' = Replicas /\ \A x \in Replicas \ {r} : buffer'[x] = buffer[x]
    BY <2>1 DEF MailInv
  <2>3. buffer'[r] = [buffer[r] EXCEPT ![t] = <<>>]
    BY <2>1 DEF MailInv
  <2>4. BufferMail(Gone', buffer'[r])
    BY <1>2, <2>3, ElementsEmpty, IsSeqEmpty DEF BufferMail
  <2> QED BY <1>1, <1>2, <2>2, <2>4 DEF MailInv
<1> QED BY <1>3, <1>4

-----------------------------------------------------------------------------
(* Steps in general. *)

\* Nothing changes for x.
SamePlace(x) ==
  /\ life'[x] = life[x] /\ phase'[x] = phase[x] /\ starting'[x] = starting[x]
  /\ members'[x] = members[x] /\ known'[x] = known[x] /\ reloads'[x] = reloads[x]
  /\ internal'[x] = internal[x] /\ running'[x] = running[x]
  /\ buffer'[x] = buffer[x] /\ chan'[x][x] = chan[x][x]

LEMMA SamePlaceOK ==
  ASSUME NEW x, PlaceOK(x), SamePlace(x)
  PROVE  PlaceOK(x)'
BY DEF PlaceOK, SamePlace, Answered, Settled, OwnAnswer

LEMMA PlaceStep ==
  ASSUME PlaceInv, NEW r \in Replicas, MailInv', Total',
         \A x \in Replicas \ {r} : SamePlace(x), PlaceOK(r)'
  PROVE  PlaceInv'
BY SamePlaceOK DEF PlaceInv

\* No round begins, and r keeps its own answer.
LEMMA AnsweredKeeps ==
  ASSUME NEW r, Answered(r), InRound(phase'[r]) /\ starting'[r] = <<>> => InRound(phase[r]) /\ starting[r] = <<>>,
         chan'[r][r] = chan[r][r], buffer'[r].STATUS = buffer[r].STATUS
  PROVE  Answered(r)'
BY DEF Answered, OwnAnswer

LEMMA ReleasedAnswered ==
  ASSUME NEW r, ~InRound(phase'[r])
  PROVE  Answered(r)'
BY DEF Answered

LEMMA DyingPlace ==
  ASSUME NEW r, life'[r] \in {"failing", "gone"}
  PROVE  PlaceOK(r)'
BY DEF PlaceOK

LEMMA AlivePlace ==
  ASSUME NEW r, Answered(r)', Settled(r)'
  PROVE  PlaceOK(r)'
BY DEF PlaceOK

LEMMA PlaceOfUp ==
  ASSUME AllInv, NEW r \in Replicas, Up(r)
  PROVE  Answered(r) /\ Settled(r)
BY DEF AllInv, PlaceInv, PlaceOK, Up

\* The parts of the state in which all the steps below take place.
LEMMA Domains ==
  ASSUME AllInv
  PROVE  /\ DOMAIN life = Replicas /\ ChanOK(chan) /\ MailInv /\ PlaceInv
         /\ DOMAIN phase = Replicas /\ DOMAIN starting = Replicas /\ DOMAIN known = Replicas
         /\ DOMAIN reloads = Replicas /\ DOMAIN buffer = Replicas
         /\ DOMAIN members = Replicas /\ DOMAIN internal = Replicas /\ DOMAIN running = Replicas
         /\ DOMAIN chan = Replicas
         /\ \A r \in Replicas : IsSeq(reloads[r])
BY DEF AllInv, PlaceInv, MailInv, Total, IInv, LockInv, ListInv, RoundInv, ChanOK

-----------------------------------------------------------------------------
(* The steps of the model. *)

LEMMA BootPlace ==
  ASSUME AllInv, NEW r \in Replicas, Boot(r)
  PROVE  PlaceInv'
<1>1. /\ life[r] = "off" /\ life' = [life EXCEPT ![r] = "up"]
      /\ UNCHANGED <<chan, buffer, phase, members, known, starting, reloads, internal, running>>
  BY DEF Boot, schedVars
<1>2. Gone \subseteq Gone'
  BY <1>1, Domains, GoneGrows
<1>3. MailInv'
  BY <1>1, <1>2, Domains, MailStep
<1>4. Answered(r) /\ Settled(r)
  BY <1>1, Domains DEF PlaceInv, PlaceOK
<1>5. Answered(r)' /\ Settled(r)'
  BY <1>1, <1>4 DEF Answered, Settled, OwnAnswer
<1>6. \A x \in Replicas \ {r} : SamePlace(x)
  BY <1>1, Domains DEF SamePlace
<1> QED BY <1>1, <1>3, <1>5, <1>6, AlivePlace, PlaceStep, Domains DEF Total

LEMMA ForgetPlace ==
  ASSUME AllInv, NEW r \in Replicas, Forget(r),
         NEW left, left = chan \/ left = Broadcast(r, CloseMsg(r)),
         chan' = [left EXCEPT ![r] = [s \in Replicas |-> <<>>]]
  PROVE  PlaceInv'
<1>1. /\ life' = [life EXCEPT ![r] = "gone"]
      /\ buffer' = [buffer EXCEPT ![r] = [t \in Buffered |-> <<>>]]
      /\ phase' = [phase EXCEPT ![r] = FreePhase]
      /\ members' = [members EXCEPT ![r] = [l \in Lists |-> <<>>]]
      /\ known' = [known EXCEPT ![r] = {}]
      /\ starting' = [starting EXCEPT ![r] = <<>>]
      /\ reloads' = [reloads EXCEPT ![r] = <<>>]
      /\ internal' = [internal EXCEPT ![r] = DefaultConfig]
      /\ running' = [running EXCEPT ![r] = Null]
  BY DEF Forget
<1>2. Gone \subseteq Gone' /\ r \in Gone' /\ life'[r] = "gone"
  <2>1. DOMAIN life = Replicas
    BY Domains
  <2> QED BY <1>1, <2>1, GoneGrows DEF Gone
<1>3. DOMAIN left = Replicas
  BY Domains DEF Broadcast
<1>4. ChanMail(Gone', left)
  <2>1. CASE left = chan
    BY <1>2, <2>1, Domains, ChanRemains DEF MailInv
  <2>2. CASE left = Broadcast(r, CloseMsg(r))
    <3>1. Letter(Gone', CloseMsg(r)) /\ CloseMsg(r).from = r
      BY <1>2 DEF Letter, CloseMsg
    <3> QED BY <1>2, <2>2, <3>1, Domains, BroadcastMail DEF MailInv
  <2> QED BY <2>1, <2>2
<1>5. chan'[r] = [s \in Replicas |-> <<>>] /\ \A d \in Replicas \ {r} : chan'[d] = left[d]
  BY <1>3
<1>6. ChanMail(Gone', chan')
  <2> SUFFICES ASSUME NEW d \in Replicas, NEW s \in Replicas, NEW m \in Elements(chan'[d][s])
               PROVE  Letter(Gone', m) /\ m.from = s
    BY DEF ChanMail
  <2>1. d # r
    BY <1>5, ElementsEmpty
  <2> QED BY <1>4, <1>5, <2>1 DEF ChanMail
<1>7. \A x \in Replicas \ {r} : SamePlace(x)
  <2> SUFFICES ASSUME NEW x \in Replicas \ {r} PROVE SamePlace(x)
    OBVIOUS
  <2>1. chan'[x][x] = chan[x][x]
    <3>1. CASE left = chan
      BY <1>5, <3>1
    <3>2. CASE left = Broadcast(r, CloseMsg(r))
      <4>1. left[x] = IF Up(x) THEN [chan[x] EXCEPT ![r] = Append(chan[x][r], CloseMsg(r))] ELSE chan[x]
        BY <3>2 DEF Broadcast
      <4> QED BY <1>5, <4>1, Domains DEF ChanOK
    <3> QED BY <3>1, <3>2
  <2> QED BY <1>1, <2>1, Domains DEF SamePlace
<1>8. MailInv'
  <2>1. DOMAIN buffer' = Replicas /\ buffer'[r] = [t \in Buffered |-> <<>>]
    BY <1>1, Domains
  <2>2. BufferMail(Gone', buffer'[r])
    BY <2>1, ElementsEmpty, IsSeqEmpty DEF BufferMail
  <2>3. \A x \in Replicas \ {r} : BufferMail(Gone', buffer'[x])
    BY <1>2, <1>7, Domains, BufferRemains DEF MailInv, SamePlace
  <2> QED BY <1>6, <2>1, <2>2, <2>3 DEF MailInv
<1>9. Total'
  BY <1>1, Domains DEF Total
<1> QED BY <1>2, <1>7, <1>8, <1>9, DyingPlace, PlaceStep, Domains

\* A step that neither sends nor applies anything.
LEMMA KeepPlace ==
  ASSUME AllInv, NEW r \in Replicas,
         UNCHANGED <<chan, buffer, starting, members, known, reloads, internal, running>>,
         life' = life \/ (Up(r) /\ Fail(r)),
         phase' = phase \/ \E q : phase' = [phase EXCEPT ![r] = q] /\ (InRound(q) => InRound(phase[r]))
  PROVE  PlaceInv'
<1>1. Gone \subseteq Gone'
  BY Domains, GoneGrows DEF Up, Fail
<1>2. MailInv' /\ Total'
  BY <1>1, Domains, MailStep DEF Total
<1>3. \A x \in Replicas \ {r} : SamePlace(x)
  BY Domains DEF SamePlace, Fail
<1>4. PlaceOK(r)'
  <2>1. CASE life' = life
    <3>1. InRound(phase'[r]) => InRound(phase[r])
      BY Domains
    <3>2. ASSUME Answered(r) PROVE Answered(r)'
      BY <3>1, <3>2 DEF Answered, OwnAnswer
    <3>3. ASSUME Settled(r) PROVE Settled(r)'
      BY <3>3 DEF Settled
    <3> QED BY <2>1, <3>2, <3>3, Domains DEF PlaceInv, PlaceOK
  <2>2. CASE Fail(r)
    <3>1. life'[r] = "failing"
      BY <2>2, Domains DEF Fail
    <3> QED BY <3>1, DyingPlace
  <2> QED BY <2>1, <2>2
<1> QED BY <1>2, <1>3, <1>4, PlaceStep, Domains

LEMMA AcquirePlace ==
  ASSUME AllInv, NEW r \in Replicas, NEW who \in Holders,
         phase' = [phase EXCEPT ![r] = Acquired(phase[r], who)],
         UNCHANGED <<life, chan, buffer, starting, members, known, reloads, internal, running>>
  PROVE  PlaceInv'
<1>1. PICK q : q = Acquired(phase[r], who)
  OBVIOUS
<1>2. Sound(phase[r], timer[r].PHASE, reloads[r])
  BY DEF AllInv, IInv, LockInv
<1>3. InRound(q) <=> InRound(phase[r])
  BY <1>1, <1>2, AcquiredKeeps
<1>4. \E p : phase' = [phase EXCEPT ![r] = p] /\ (InRound(p) => InRound(phase[r]))
  BY <1>1, <1>3
<1> QED BY <1>4, KeepPlace

LEMMA ResyncPlace ==
  ASSUME AllInv, NEW r \in Replicas, Resync(r)
  PROVE  PlaceInv'
<1>1. "HELLO" \in Holders
  BY DEF Holders, Round
<1>2. /\ phase' = [phase EXCEPT ![r] = Acquired(phase[r], "HELLO")]
      /\ UNCHANGED <<life, chan, buffer, starting, members, known, reloads, internal, running>>
  BY DEF Resync, schedVars
<1> QED BY <1>1, <1>2, AcquirePlace

LEMMA AwaitPhasePlace ==
  ASSUME AllInv, NEW r \in Replicas, Greet(r) \/ ShareDue(r) \/ CloseDue(r)
  PROVE  PlaceInv'
<1>1. PICK who \in {"HELLO", "SHARE", "CLOSE"} : \E t : AwaitPhase(r, t, who)
  BY DEF Greet, ShareDue, CloseDue
<1>2. who \in Holders
  BY DEF Holders, Round
<1>3. /\ phase' = [phase EXCEPT ![r] = Acquired(phase[r], who)]
      /\ UNCHANGED <<life, chan, buffer, starting, members, known, reloads, internal, running>>
  BY <1>1 DEF AwaitPhase, schedVars
<1> QED BY <1>2, <1>3, AcquirePlace

LEMMA PhaseTimeoutPlace ==
  ASSUME AllInv, NEW r \in Replicas, PhaseTimeout(r)
  PROVE  PlaceInv'
<1>1. Up(r) /\ timer[r].PHASE = 0
  BY DEF PhaseTimeout, Free
<1> QED BY <1>1, TimeLeft DEF AllInv, Off

LEMMA BackoffPlace ==
  ASSUME AllInv, NEW r \in Replicas, BackoffStart(r) \/ RateLimitExceeded(r)
  PROVE  PlaceInv'
<1>1. /\ life' = life \/ (Up(r) /\ Fail(r))
      /\ UNCHANGED <<chan, buffer, phase, starting, members, known, reloads, internal, running>>
  BY DEF BackoffStart, RateLimitExceeded, roundVars, Free
<1> QED BY <1>1, KeepPlace

LEMMA SayHelloPlace ==
  ASSUME AllInv, NEW r \in Replicas, NEW who, SayHello(r, who)
  PROVE  PlaceInv'
<1>1. /\ Up(r) /\ chan' = Broadcast(r, HelloMsg(r))
      /\ phase' = [phase EXCEPT ![r].entered = TRUE]
      /\ UNCHANGED <<life, buffer, starting, members, known, reloads, internal, running>>
  BY DEF SayHello, Granted
<1>2. Gone' = Gone
  BY <1>1 DEF Gone
<1>3. Letter(Gone', HelloMsg(r)) /\ HelloMsg(r).from = r /\ HelloMsg(r).type = "HELLO"
  BY DEF Letter, HelloMsg
<1>4. MailInv' /\ Total'
  BY <1>1, <1>2, <1>3, Domains, MailStep DEF Broadcasts, Total
<1>5. Sent(chan', r, HelloMsg(r))
  BY <1>1, <1>3, Domains, BroadcastEffect DEF MessageTypes
<1>6. OwnAnswer(r)'
  BY <1>1, <1>3, <1>5 DEF Sent, OwnAnswer
<1>7. Answered(r)' /\ Settled(r)'
  BY <1>1, <1>6, PlaceOfUp DEF Answered, Settled
<1>8. \A x \in Replicas \ {r} : SamePlace(x)
  <2> SUFFICES ASSUME NEW x \in Replicas \ {r} PROVE SamePlace(x)
    OBVIOUS
  <2>1. chan'[x] = IF Up(x) THEN [chan[x] EXCEPT ![r] = Append(chan[x][r], HelloMsg(r))] ELSE chan[x]
    BY <1>1 DEF Broadcast
  <2>2. chan'[x][x] = chan[x][x]
    BY <2>1, Domains DEF ChanOK
  <2> QED BY <1>1, <2>2, Domains DEF SamePlace
<1> QED BY <1>4, <1>7, <1>8, AlivePlace, PlaceStep, Domains

\* When the answers have stopped the replica has its own.
LEMMA OwnStatus ==
  ASSUME AllInv, NEW r \in Replicas, Up(r), timer[r].STATUS = 0
  PROVE  /\ starting[r] = <<>>
         /\ \E m \in Elements(buffer[r].STATUS) : m.from = r
<1>1. InRound(phase[r]) /\ ~Asking(r) /\ Debouncing(timer[r], starting[r])
  BY RoundOfUp, DelaysInOrder DEF AllInv, OnTime, Asked, StartingUp, Between, Off
<1>2. ~OwnAnswer(r)
  BY <1>1 DEF OwnAnswer, Asking
<1> QED BY <1>1, <1>2, PlaceOfUp DEF Debouncing, Answered

\* The share of r at the end of its round.
LEMMA ShareMail ==
  ASSUME NEW r \in Replicas, NEW state, Coherent(state), NEW gone
  PROVE  Letter(gone, ShareMsg(r, state)) /\ ShareMsg(r, state).from = r
BY DEF ShareMsg, Letter, Coherent

LEMMA BroadcastElsewhere ==
  ASSUME ChanOK(chan), NEW r \in Replicas, NEW msg, chan' = Broadcast(r, msg),
         NEW x \in Replicas \ {r}
  PROVE  chan'[x][x] = chan[x][x]
<1>1. chan'[x] = IF Up(x) THEN [chan[x] EXCEPT ![r] = Append(chan[x][r], msg)] ELSE chan[x]
  BY DEF Broadcast
<1> QED BY <1>1 DEF ChanOK

\* The lists that are stored: those that r had, or the new ones.
LEMMA StoredLists ==
  ASSUME NEW r, NEW m, NEW lists, Remembers(r, m, lists), NEW state, Coherent(state),
         r \in Elements(state.replicaMembers),
         NEW stored, stored = [l \in Lists |-> IF l \in lists THEN m[l] ELSE state[l]]
  PROVE  Remembers(r, stored, Lists)
<1>1. /\ stored.replicaMembers = IF "replicaMembers" \in lists THEN m.replicaMembers ELSE state.replicaMembers
      /\ stored.clusterMembers = IF "clusterMembers" \in lists THEN m.clusterMembers ELSE state.clusterMembers
      /\ DOMAIN stored = Lists
  BY DEF Lists
<1> QED BY <1>1 DEF Remembers, Coherent

LEMMA StatusDuePlace ==
  ASSUME AllInv, NEW r \in Replicas, StatusDue(r)
  PROVE  PlaceInv'
<1>1. /\ Up(r) /\ timer[r].STATUS = 0
      /\ buffer' = [buffer EXCEPT ![r].STATUS = <<>>]
      /\ UNCHANGED <<life, reloads, running>>
  BY DEF StatusDue, Free
<1>2. PICK state \in {AggregateState(r, buffer[r].STATUS)} :
        /\ Store(r, state)
        /\ IF started[r]
           THEN /\ ShareAndRelease(r, state, [timer EXCEPT ![r].STATUS = Off])
                /\ UNCHANGED <<starting, internal>>
           ELSE /\ starting' = [starting EXCEPT ![r] = Append(starting[r], state)]
                /\ internal' = IF starting[r] = <<>>
                               THEN [internal EXCEPT ![r] =
                                       SetDynamicConfig(internal[r], NormalizeState(r, state))]
                               ELSE internal
                /\ UNCHANGED <<chan, phase>>
  BY DEF StatusDue
<1>3. starting[r] = <<>> /\ \E m \in Elements(buffer[r].STATUS) : m.from = r
  BY <1>1, OwnStatus
<1>4. IsSeq(buffer[r].STATUS)
  BY Domains DEF MailInv, BufferMail, Buffered
<1>5. Coherent(state) /\ r \in Elements(state.replicaMembers)
  BY <1>2, <1>3, <1>4, AggregatedState
<1>6. Offer(NormalizeState(r, state))
  BY <1>5, NormalizedOffer DEF Coherent
<1>7. Settled(r)
  BY <1>1, PlaceOfUp
<1>8. Remembers(r, members'[r], known'[r])
  <2>1. /\ members'[r] = [l \in Lists |-> IF l \in known[r] THEN members[r][l] ELSE state[l]]
        /\ known'[r] = Lists
    BY <1>2, Domains DEF Store
  <2> QED BY <1>5, <1>7, <2>1, StoredLists DEF Settled
<1>9. Scheduled(reloads'[r], internal'[r], running'[r])
  <2>1. InPlace(internal'[r])
    <3>1. internal'[r] = internal[r] \/ internal'[r] = SetDynamicConfig(internal[r], NormalizeState(r, state))
      BY <1>2, Domains
    <3> QED BY <1>6, <1>7, <3>1, OfferTaken DEF Settled, Scheduled
  <2> QED BY <1>1, <1>7, <2>1 DEF Settled, Scheduled
<1>10. Prepared(r, starting'[r])
  <2>1. starting'[r] = starting[r] \/ starting'[r] = Append(starting[r], state)
    BY <1>2, Domains
  <2>2. Prepared(r, starting[r])
    BY <1>7 DEF Settled
  <2>3. CASE starting'[r] = Append(starting[r], state)
    <3>1. /\ IsSeq(starting'[r])
          /\ Elements(starting'[r]) = Elements(starting[r]) \cup {state}
      BY <2>2, <2>3, ElementsAppend DEF Prepared
    <3> QED BY <1>5, <2>2, <3>1 DEF Prepared
  <2> QED BY <2>1, <2>2, <2>3
<1>11. Answered(r)'
  <2>1. CASE started[r]
    <3>1. phase'[r] = Released(phase[r])
      BY <1>2, <2>1, Domains DEF ShareAndRelease
    <3> QED BY <3>1, ReleasedKeeps, ReleasedAnswered
  <2>2. CASE ~started[r]
    <3>1. starting'[r] = Append(<<>>, state)
      BY <1>2, <1>3, <2>2, Domains
    <3>2. starting'[r] # <<>>
      BY <3>1
    <3> QED BY <3>2 DEF Answered
  <2> QED BY <2>1, <2>2
<1>12. MailInv'
  <2>1. Gone' = Gone
    BY <1>1 DEF Gone
  <2>2. chan' = chan \/ \E msg : Broadcasts(r, msg)
    BY <1>2, <1>5, ShareMail DEF ShareAndRelease, Broadcasts
  <2>3. buffer' = [buffer EXCEPT ![r]["STATUS"] = <<>>] /\ "STATUS" \in Buffered
    BY <1>1 DEF Buffered
  <2> QED BY <2>1, <2>2, <2>3, Domains, MailStep
<1>13. ASSUME NEW x \in Replicas \ {r} PROVE SamePlace(x)
  <2>1. chan'[x][x] = chan[x][x]
    BY <1>2, Domains, BroadcastElsewhere DEF ShareAndRelease
  <2>2. /\ phase'[x] = phase[x] /\ starting'[x] = starting[x] /\ internal'[x] = internal[x]
        /\ members'[x] = members[x] /\ known'[x] = known[x] /\ buffer'[x] = buffer[x]
    BY <1>1, <1>2, Domains DEF ShareAndRelease, Store
  <2> QED BY <1>1, <2>1, <2>2 DEF SamePlace
<1>14. Total'
  BY <1>1, <1>2, Domains DEF Total, Store
<1> QED BY <1>8, <1>9, <1>10, <1>11, <1>12, <1>13, <1>14, AlivePlace, PlaceStep, Domains DEF Settled

LEMMA MarketsStartedPlace ==
  ASSUME AllInv, NEW r \in Replicas, MarketsStarted(r)
  PROVE  PlaceInv'
<1>1. PICK state : state = Head(starting[r])
  OBVIOUS
<1>2. /\ Up(r) /\ starting[r] # <<>>
      /\ starting' = [starting EXCEPT ![r] = Tail(starting[r])]
      /\ running' = [running EXCEPT ![r] = SetDynamicConfig(internal[r], NormalizeState(r, state))]
      /\ internal' = IF Tail(starting[r]) = <<>> THEN internal
                     ELSE [internal EXCEPT ![r] =
                             SetDynamicConfig(internal[r], NormalizeState(r, Head(Tail(starting[r]))))]
      /\ ShareAndRelease(r, state, timer)
      /\ UNCHANGED <<life, buffer, members, known, reloads>>
  BY <1>1 DEF MarketsStarted, Free
<1>3. Settled(r)
  BY <1>2, PlaceOfUp
<1>4. Tail(starting[r]) = <<>>
  <2>1. OnTime(phase[r], timer[r], starting[r], Asking(r), OwnAnswer(r))
    BY <1>2, RoundOfUp DEF AllInv
  <2> QED BY <1>2, <2>1 DEF OnTime, Asked, Debouncing, StartingUp, Between
<1>5. /\ Elements(starting[r]) = {state} \cup Elements(Tail(starting[r]))
  BY <1>1, <1>2, <1>3, ElementsTail DEF Settled, Prepared
<1>6. Coherent(state) /\ r \in Elements(state.replicaMembers)
  BY <1>3, <1>5 DEF Settled, Prepared
<1>7. Offer(NormalizeState(r, state))
  BY <1>6, NormalizedOffer DEF Coherent
<1>8. Settled(r)'
  <2>1. /\ starting'[r] = <<>> /\ internal'[r] = internal[r]
        /\ running'[r] = SetDynamicConfig(internal[r], NormalizeState(r, state))
    BY <1>2, <1>4, Domains
  <2>2. InPlace(running'[r])
    BY <1>3, <1>7, <2>1, OfferTaken DEF Settled, Scheduled
  <2> QED BY <1>2, <1>3, <2>1, <2>2, ElementsEmpty, IsSeqEmpty DEF Settled, Prepared, Scheduled
<1>9. Answered(r)'
  <2>1. phase'[r] = Released(phase[r])
    BY <1>2, Domains DEF ShareAndRelease
  <2> QED BY <2>1, ReleasedKeeps, ReleasedAnswered
<1>10. MailInv'
  <2>1. Gone' = Gone
    BY <1>2 DEF Gone
  <2>2. \E msg : Broadcasts(r, msg)
    BY <1>2, <1>6, ShareMail DEF ShareAndRelease, Broadcasts
  <2> QED BY <1>2, <2>1, <2>2, Domains, MailStep
<1>11. ASSUME NEW x \in Replicas \ {r} PROVE SamePlace(x)
  <2>1. chan'[x][x] = chan[x][x]
    BY <1>2, Domains, BroadcastElsewhere DEF ShareAndRelease
  <2>2. /\ phase'[x] = phase[x] /\ starting'[x] = starting[x]
        /\ internal'[x] = internal[x] /\ running'[x] = running[x]
    BY <1>2, <1>4, Domains DEF ShareAndRelease
  <2> QED BY <1>2, <2>1, <2>2 DEF SamePlace
<1>12. Total'
  BY <1>2, <1>4, Domains DEF Total
<1> QED BY <1>8, <1>9, <1>10, <1>11, <1>12, AlivePlace, PlaceStep, Domains

\* A reload that is called with an offer.
LEMMA CalledPlace ==
  ASSUME AllInv, NEW r \in Replicas, Up(r), NEW by, NEW config, CallReload(r, by, config),
         Offer(config), UNCHANGED running
  PROVE  /\ Scheduled(reloads'[r], internal'[r], running'[r])
         /\ DOMAIN internal' = Replicas
         /\ \A x \in Replicas \ {r} : reloads'[x] = reloads[x] /\ internal'[x] = internal[x]
<1>1. Settled(r)
  BY PlaceOfUp
<1>2. PICK call : call = [by |-> by, config |-> config]
  OBVIOUS
<1>3. /\ reloads' = [reloads EXCEPT ![r] = Append(reloads[r], call)]
      /\ internal' = IF reloads[r] = <<>>
                     THEN [internal EXCEPT ![r] = SetDynamicConfig(internal[r], config)]
                     ELSE internal
  BY <1>2 DEF CallReload
<1>4. Elements(reloads'[r]) = Elements(reloads[r]) \cup {call}
  BY <1>3, Domains, ElementsAppend
<1>5. internal'[r] = internal[r] \/ internal'[r] = SetDynamicConfig(internal[r], config)
  BY <1>3, Domains
<1>6. InPlace(internal'[r])
  BY <1>1, <1>5, OfferTaken DEF Settled, Scheduled
<1>7. call.config = config
  BY <1>2
<1>8. Scheduled(reloads'[r], internal'[r], running'[r])
  BY <1>1, <1>4, <1>6, <1>7 DEF Settled, Scheduled
<1> QED BY <1>3, <1>8, Domains

\* Members that are replaced by what a state has of them.
LEMMA UpdatedLists ==
  ASSUME NEW r, NEW m, NEW lists, Remembers(r, m, lists), NEW state,
         state.replicaMembers = Null \/
           (IsSeq(state.replicaMembers) /\ r \in Elements(state.replicaMembers)),
         state.clusterMembers = Null \/ IsSeq(state.clusterMembers),
         NEW updated, updated = UpdateState(m, state)
  PROVE  Remembers(r, updated, lists \cup Given(state))
<1>1. /\ DOMAIN updated = Lists
      /\ updated.replicaMembers =
           IF state.replicaMembers = Null THEN m.replicaMembers ELSE state.replicaMembers
      /\ updated.clusterMembers =
           IF state.clusterMembers = Null THEN m.clusterMembers ELSE state.clusterMembers
  BY DEF UpdateState, Overlay, Remembers, Lists
<1>2. "replicaMembers" \in Given(state) => state.replicaMembers # Null
  BY DEF Given
<1> QED BY <1>1, <1>2 DEF Remembers

\* The list of the cluster made of the shares has the members they mention.
LEMMA SharedCluster ==
  ASSUME NEW shares
  PROVE  IsSeq(UniqueClusterMembers(shares))
<1> DEFINE member(a) == shares[ChosenMention(a, shares)[1]].clusterMembers[ChosenMention(a, shares)[2]]
           part(a) == IF Mentions(a, shares) = {} THEN <<>> ELSE <<member(a)>>
           parts == [a \in 1..N |-> part(a)]
           S == {member(a) : a \in 1..N}
<1>1. UniqueClusterMembers(shares) = FlattenSeq(parts)
  BY DEF UniqueClusterMembers, Replicas
<1> HIDE DEF member
<1>2. ASSUME NEW a \in 1..N PROVE part(a) \in Seq(S)
  <2>1. member(a) \in S
    OBVIOUS
  <2> HIDE DEF S
  <2> QED BY <2>1
<1> HIDE DEF part, S
<1>3. parts \in [1..N -> Seq(S)] /\ N \in Nat
  BY <1>2, NAssumption
<1> HIDE DEF parts
<1>4. FlattenSeq(parts) \in Seq(S)
  BY <1>3, FlattenElements
<1> QED BY <1>1, <1>4, SeqIsSeq

LEMMA HandleSharePlace ==
  ASSUME AllInv, NEW r \in Replicas, HandleShare(r)
  PROVE  PlaceInv'
<1>1. /\ Granted(r, "SHARE") /\ Up(r) /\ phase[r].held = "SHARE"
      /\ buffer' = [buffer EXCEPT ![r].SHARE = <<>>]
      /\ UNCHANGED <<chan, starting, running>>
  BY DEF HandleShare, Granted
<1>2. PICK state \in {ShareState(r, buffer[r].SHARE, internal[r].rateLimitMultiplier)} :
        LET reload == ShouldReload(state, members[r])
        IN  /\ members' = IF reload THEN [members EXCEPT ![r] = UpdateState(members[r], state)] ELSE members
            /\ known' = IF reload THEN [known EXCEPT ![r] = known[r] \cup Given(state)] ELSE known
            /\ IF reload /\ Normalizable(state)
               THEN /\ CallReload(r, "SHARE", NormalizeState(r, state))
                    /\ phase' = [phase EXCEPT ![r].entered = TRUE]
               ELSE /\ phase' = [phase EXCEPT ![r] = Released(phase[r])]
                    /\ UNCHANGED <<reloads, internal>>
            /\ IF reload /\ ~Normalizable(state) THEN Fail(r) ELSE UNCHANGED life
  BY DEF HandleShare
<1>3. /\ IsSeq(buffer[r].SHARE)
      /\ \A m \in Elements(buffer[r].SHARE) : IsSeq(m.replicaMembers)
  BY Domains DEF MailInv, BufferMail, Buffered, Letter, Coherent
<1>4. state.replicaMembers = Null \/ (IsSeq(state.replicaMembers) /\ r \in Elements(state.replicaMembers))
  <2>1. PICK shares, mult : shares = buffer[r].SHARE /\ state = ShareState(r, shares, mult)
    BY <1>2
  <2>2. IsSeq(shares) /\ state = ShareState(r, shares, mult)
    BY <1>3, <2>1
  <2>3. ASSUME state.replicaMembers # Null
        PROVE  \E m \in Elements(shares) :
                 /\ m.from \in Peers(r)
                 /\ state.replicaMembers = m.replicaMembers /\ r \in Elements(state.replicaMembers)
    BY ONLY <2>2, <2>3, SharedReplicas
  <2> QED BY <1>3, <2>1, <2>3
<1>5. state.clusterMembers = Null \/ IsSeq(state.clusterMembers)
  BY <1>2, SharedCluster DEF ShareState
<1>6. Offer(NormalizeState(r, state))
  BY <1>4, NormalizedOffer
<1>7. Settled(r) /\ Answered(r)
  BY <1>1, PlaceOfUp
<1>8. Remembers(r, members'[r], known'[r])
  <2>1. CASE ShouldReload(state, members[r])
    <3>1. /\ members'[r] = UpdateState(members[r], state)
          /\ known'[r] = known[r] \cup Given(state)
      BY <1>2, <2>1, Domains
    <3> QED BY <1>4, <1>5, <1>7, <3>1, UpdatedLists DEF Settled
  <2>2. CASE ~ShouldReload(state, members[r])
    <3>1. members' = members /\ known' = known
      BY <1>2, <2>2
    <3> QED BY <1>7, <3>1 DEF Settled
  <2> QED BY <2>1, <2>2
<1>9. /\ Scheduled(reloads'[r], internal'[r], running'[r])
      /\ DOMAIN internal' = Replicas
      /\ \A x \in Replicas \ {r} : reloads'[x] = reloads[x] /\ internal'[x] = internal[x]
  <2>1. CASE CallReload(r, "SHARE", NormalizeState(r, state))
    BY <1>1, <1>6, <2>1, CalledPlace
  <2>2. CASE UNCHANGED <<reloads, internal>>
    BY <1>1, <1>7, <2>2, Domains DEF Settled
  <2> QED BY <1>2, <2>1, <2>2
<1>10. ~InRound(phase'[r])
  <2>1. CASE phase' = [phase EXCEPT ![r] = Released(phase[r])]
    BY <2>1, Domains, ReleasedKeeps
  <2>2. CASE phase' = [phase EXCEPT ![r].entered = TRUE]
    <3>1. phase[r] \in LockType
      BY DEF AllInv, IInv, LockInv
    <3>2. phase'[r].held = "SHARE"
      BY <1>1, <2>2, <3>1, Domains DEF LockType
    <3> QED BY <3>2 DEF InRound, Round
  <2> QED BY <1>2, <2>1, <2>2
<1>11. PlaceOK(r)'
  BY <1>1, <1>7, <1>8, <1>9, <1>10, ReleasedAnswered, AlivePlace DEF Settled
<1>12. MailInv'
  <2>1. life' = life \/ Fail(r)
    BY <1>2
  <2>2. Gone \subseteq Gone'
    BY <1>1, <2>1, Domains, GoneGrows DEF Fail, Up
  <2>3. buffer' = [buffer EXCEPT ![r]["SHARE"] = <<>>] /\ "SHARE" \in Buffered
    BY <1>1 DEF Buffered
  <2> QED BY <1>1, <2>2, <2>3, Domains, MailStep
<1>13. ASSUME NEW x \in Replicas \ {r} PROVE SamePlace(x)
  <2>1. life'[x] = life[x] /\ phase'[x] = phase[x] /\ members'[x] = members[x] /\ known'[x] = known[x]
    BY <1>2, Domains DEF Fail
  <2> QED BY <1>1, <1>9, <2>1, Domains DEF SamePlace
<1>14. Total'
  BY <1>1, <1>2, <1>9, Domains DEF Total
<1> QED BY <1>11, <1>12, <1>13, <1>14, PlaceStep, Domains

\* Those who leave say so when they are gone: r is not among them.
LEMMA NotClosing ==
  ASSUME AllInv, NEW r \in Replicas, Up(r)
  PROVE  r \notin Closers(buffer[r].CLOSE)
<1>1. BufferMail(Gone, buffer[r])
  BY Domains DEF MailInv
<1>2. \A m \in Elements(buffer[r].CLOSE) : m.from \in Gone
  BY <1>1 DEF BufferMail, Buffered, Letter
<1>3. r \notin Gone
  BY DEF Gone, Up
<1> QED BY <1>2, <1>3 DEF Closers, Elements

LEMMA HandleClosePlace ==
  ASSUME AllInv, NEW r \in Replicas, HandleClose(r)
  PROVE  PlaceInv'
<1>1. PICK left : left = RemoveClosed(r, buffer[r].CLOSE, members[r])
  OBVIOUS
<1>2. /\ Up(r) /\ phase[r].held = "CLOSE"
      /\ buffer' = [buffer EXCEPT ![r].CLOSE = <<>>]
      /\ UNCHANGED <<chan, known, starting, running>>
      /\ IF known[r] = Lists
         THEN /\ members' = [members EXCEPT ![r] = left]
              /\ CallReload(r, "CLOSE", NormalizeState(r, CloseState(left)))
              /\ phase' = [phase EXCEPT ![r].entered = TRUE]
              /\ UNCHANGED life
         ELSE /\ phase' = [phase EXCEPT ![r] = Released(phase[r])]
              /\ Fail(r)
              /\ UNCHANGED <<members, reloads, internal>>
  BY <1>1 DEF HandleClose, Granted
<1>3. Settled(r) /\ Answered(r)
  BY <1>2, PlaceOfUp
<1>4. Gone \subseteq Gone'
  BY <1>2, Domains, GoneGrows DEF Fail, Up
<1>5. MailInv'
  <2>1. buffer' = [buffer EXCEPT ![r]["CLOSE"] = <<>>] /\ "CLOSE" \in Buffered
    BY <1>2 DEF Buffered
  <2> QED BY <1>2, <1>4, <2>1, Domains, MailStep
<1>6. CASE known[r] = Lists
  <2>1. /\ DOMAIN left = Lists
        /\ IsSeq(left.replicaMembers) /\ IsSeq(left.clusterMembers)
        /\ Elements(left.replicaMembers) =
             Elements(members[r].replicaMembers) \ (Closers(buffer[r].CLOSE) \cap Peers(r))
    BY <1>1, <1>3, RemovedReplicas DEF Settled, Remembers
  <2>2. r \in Elements(left.replicaMembers)
    BY <1>2, <1>3, <1>6, <2>1, NotClosing DEF Settled, Remembers, Lists
  <2>3. Offer(NormalizeState(r, CloseState(left)))
    BY <2>1, <2>2, NormalizedOffer DEF CloseState
  <2>4. /\ Scheduled(reloads'[r], internal'[r], running'[r])
        /\ DOMAIN internal' = Replicas
        /\ \A x \in Replicas \ {r} : reloads'[x] = reloads[x] /\ internal'[x] = internal[x]
    BY <1>2, <1>6, <2>3, CalledPlace
  <2>5. members'[r] = left
    BY <1>2, <1>6, Domains
  <2>6. Settled(r)'
    BY <1>2, <1>3, <2>1, <2>2, <2>4, <2>5 DEF Settled, Remembers
  <2>7. ~InRound(phase'[r])
    <3>1. phase[r] \in LockType
      BY DEF AllInv, IInv, LockInv
    <3>2. phase'[r].held = "CLOSE"
      BY <1>2, <1>6, <3>1, Domains DEF LockType
    <3> QED BY <3>2 DEF InRound, Round
  <2>8. PlaceOK(r)'
    BY <2>6, <2>7, ReleasedAnswered, AlivePlace
  <2>9. \A x \in Replicas \ {r} : SamePlace(x)
    BY <1>2, <1>6, <2>4, Domains DEF SamePlace
  <2>10. Total'
    BY <1>2, <1>6, <2>4, Domains DEF Total
  <2> QED BY <1>5, <2>8, <2>9, <2>10, PlaceStep, Domains
<1>7. CASE known[r] # Lists
  <2>1. life'[r] = "failing"
    BY <1>2, <1>7, Domains DEF Fail
  <2>2. \A x \in Replicas \ {r} : SamePlace(x)
    BY <1>2, <1>7, Domains DEF SamePlace, Fail
  <2>3. Total'
    BY <1>2, <1>7, Domains DEF Total
  <2> QED BY <1>5, <2>1, <2>2, <2>3, DyingPlace, PlaceStep, Domains
<1> QED BY <1>6, <1>7

LEMMA HandleRateLimitPlace ==
  ASSUME AllInv, NEW r \in Replicas, HandleRateLimit(r)
  PROVE  PlaceInv'
<1>1. Up(r) /\ UNCHANGED <<life, chan, roundVars, running>>
  BY DEF HandleRateLimit, Free
<1>2. CASE UNCHANGED <<reloads, internal>>
  <2>1. UNCHANGED <<chan, buffer, starting, members, known, reloads, internal, running, phase, life>>
    BY <1>1, <1>2 DEF roundVars
  <2> QED BY <2>1, KeepPlace
<1>3. CASE CallReload(r, "BACKOFF",
                   [replicaSize |-> Null, instancePosition |-> Null,
                    rateLimitMultiplier |-> Head(limits[r]), clusterMembers |-> Null])
  <2>1. PICK config : /\ CallReload(r, "BACKOFF", config)
                      /\ config.replicaSize = Null /\ config.instancePosition = Null
    BY <1>3
  <2>2. Offer(config)
    BY <2>1 DEF Offer
  <2>3. /\ Scheduled(reloads'[r], internal'[r], running'[r])
        /\ DOMAIN internal' = Replicas
        /\ \A x \in Replicas \ {r} : reloads'[x] = reloads[x] /\ internal'[x] = internal[x]
    BY <1>1, <2>1, <2>2, CalledPlace
  <2>4. UNCHANGED <<chan, buffer, starting, members, known, running, phase, life>>
    BY <1>1 DEF roundVars
  <2>5. Answered(r) /\ Settled(r)
    BY <1>1, PlaceOfUp
  <2>6. Settled(r)'
    BY <2>3, <2>4, <2>5 DEF Settled
  <2>7. Answered(r)'
    BY <2>4, <2>5 DEF Answered, OwnAnswer
  <2>8. MailInv' /\ Total'
    <3>1. Gone' = Gone
      BY <2>4 DEF Gone
    <3> QED BY <2>3, <2>4, <3>1, Domains, MailStep DEF Total
  <2>9. \A x \in Replicas \ {r} : SamePlace(x)
    BY <2>3, <2>4 DEF SamePlace
  <2> QED BY <2>6, <2>7, <2>8, <2>9, AlivePlace, PlaceStep, Domains
<1> QED BY <1>2, <1>3 DEF HandleRateLimit

LEMMA ReloadedPlace ==
  ASSUME AllInv, NEW r \in Replicas, Reloaded(r)
  PROVE  PlaceInv'
<1> DEFINE calls == reloads[r]
           rest == Tail(reloads[r])
<1>1. /\ Up(r) /\ calls # <<>> /\ reloads' = [reloads EXCEPT ![r] = rest]
      /\ internal' = IF rest = <<>> THEN internal
                     ELSE [internal EXCEPT ![r] = SetDynamicConfig(internal[r], Head(rest).config)]
      /\ running' = IF running[r] = Null THEN running
                    ELSE [running EXCEPT ![r] = SetDynamicConfig(running[r], Head(calls).config)]
      /\ UNCHANGED <<life, chan, buffer, members, known, starting>>
  BY DEF Reloaded, Free, NextReload
<1>2. /\ IsSeq(rest) /\ Elements(calls) = {Head(calls)} \cup Elements(rest)
      /\ rest # <<>> => Head(rest) \in Elements(rest)
  <2>1. IsSeq(rest) /\ Elements(calls) = {Head(calls)} \cup Elements(rest)
    BY <1>1, Domains, ElementsTail
  <2>2. ASSUME rest # <<>> PROVE Head(rest) \in Elements(rest)
    <3>1. Elements(rest) = {Head(rest)} \cup Elements(Tail(rest))
      BY <2>1, <2>2, ElementsTail
    <3> QED BY <3>1
  <2> QED BY <2>1, <2>2
<1>3. Answered(r) /\ Settled(r)
  BY <1>1, PlaceOfUp
<1>4. \A call \in Elements(calls) : Offer(call.config)
  BY <1>3 DEF Settled, Scheduled
<1>5. reloads'[r] = rest
  BY <1>1, Domains
<1>6. InPlace(internal'[r])
  <2>1. internal'[r] = internal[r] \/
          (rest # <<>> /\ internal'[r] = SetDynamicConfig(internal[r], Head(rest).config))
    BY <1>1, Domains
  <2> QED BY <1>2, <1>3, <1>4, <2>1, OfferTaken DEF Settled, Scheduled
<1>7. running'[r] # Null => InPlace(running'[r])
  <2>1. running'[r] = running[r] \/
          (running[r] # Null /\ running'[r] = SetDynamicConfig(running[r], Head(calls).config))
    BY <1>1, Domains
  <2>2. Offer(Head(calls).config)
    BY <1>2, <1>4
  <2> QED BY <1>3, <2>1, <2>2, OfferTaken DEF Settled, Scheduled
<1>8. Settled(r)'
  BY <1>1, <1>2, <1>3, <1>4, <1>5, <1>6, <1>7 DEF Settled, Scheduled
<1>9. DOMAIN phase' = Replicas /\ \A x \in Replicas \ {r} : phase'[x] = phase[x]
  BY Domains DEF Reloaded
<1>10. Answered(r)'
  <2>1. CASE phase' = [phase EXCEPT ![r] = Acquired(phase[r], "CLUSTER")]
    <3>1. PICK q : q = Acquired(phase[r], "CLUSTER")
      OBVIOUS
    <3>2. Sound(phase[r], timer[r].PHASE, reloads[r])
      BY DEF AllInv, IInv, LockInv
    <3>3. "CLUSTER" \in Holders
      BY DEF Holders, Round
    <3>4. InRound(q) <=> InRound(phase[r])
      BY <3>1, <3>2, <3>3, AcquiredKeeps
    <3>5. phase'[r] = q
      BY <2>1, <3>1, Domains
    <3> QED BY <1>1, <1>3, <3>4, <3>5, AnsweredKeeps
  <2>2. CASE phase' = [phase EXCEPT ![r] = Released(phase[r])]
    BY <2>2, Domains, ReleasedKeeps, ReleasedAnswered
  <2> QED BY <2>1, <2>2 DEF Reloaded
<1>11. MailInv'
  <2>1. Gone' = Gone
    BY <1>1 DEF Gone
  <2> QED BY <1>1, <2>1, Domains, MailStep
<1>12. \A x \in Replicas \ {r} : SamePlace(x)
  BY <1>1, <1>9, Domains DEF SamePlace
<1>13. Total'
  BY <1>1, Domains DEF Total
<1> QED BY <1>8, <1>10, <1>11, <1>12, <1>13, AlivePlace, PlaceStep, Domains

\* What is left when the first message of s to r is taken.
LEMMA RestElements ==
  ASSUME ChanOK(chan), NEW r \in Replicas, NEW s \in Replicas, chan[r][s] # <<>>,
         NEW c, c = Rest(r, s)
  PROVE  /\ \A d, x \in Replicas : Elements(c[d][x]) \subseteq Elements(chan[d][x])
         /\ Head(chan[r][s]) \in Elements(chan[r][s])
<1>1. \A d, x \in Replicas : d # r \/ x # s => c[d][x] = chan[d][x]
  BY RestEffect
<1>2. c[r][s] = Tail(chan[r][s])
  BY DEF ChanOK, Rest
<1>3. IsSeq(chan[r][s])
  BY DEF ChanOK
<1>4. Elements(chan[r][s]) = {Head(chan[r][s])} \cup Elements(c[r][s])
  BY <1>2, <1>3, ElementsTail
<1> QED BY <1>1, <1>4

LEMMA DeliverMail ==
  ASSUME AllInv, NEW r \in Replicas, NEW s \in Replicas, Deliver(s, r)
  PROVE  MailInv'
<1>1. PICK msg, c : msg = Head(chan[r][s]) /\ c = Rest(r, s)
  BY SMTT(30)
<1>2. /\ chan[r][s] # <<>> /\ UNCHANGED life
      /\ IF msg.type = "HELLO"
         THEN /\ chan' = Send(c, r, s, StatusMsg(r, internal[r].rateLimitMultiplier))
              /\ UNCHANGED buffer
         ELSE /\ chan' = c
              /\ buffer' = [buffer EXCEPT ![r][msg.type] = Append(buffer[r][msg.type], msg)]
  BY <1>1 DEF Deliver, Rest
<1>3. /\ \A d, x \in Replicas : Elements(c[d][x]) \subseteq Elements(chan[d][x])
      /\ msg \in Elements(chan[r][s])
  BY <1>1, <1>2, Domains, RestElements
<1>4. ChanOK(c)
  BY <1>1, <1>2, Domains, RestEffect
<1>5. Letter(Gone, msg) /\ msg.from = s /\ Gone' = Gone
  BY <1>2, <1>3, Domains DEF MailInv, ChanMail, Gone
<1>6. ChanMail(Gone, c)
  BY <1>3, Domains DEF MailInv, ChanMail
<1>7. CASE msg.type = "HELLO"
  <2>1. PICK answer : answer = StatusMsg(r, internal[r].rateLimitMultiplier)
    OBVIOUS
  <2>2. Letter(Gone, answer) /\ answer.from = r
    BY <2>1 DEF StatusMsg, Letter
  <2>3. ASSUME NEW d \in Replicas, NEW x \in Replicas, NEW m \in Elements(chan'[d][x])
        PROVE  Letter(Gone, m) /\ m.from = x
    <3>1. CASE Up(s) /\ d = s /\ x = r
      <4>1. chan'[d][x] = Append(c[s][r], answer)
        BY <1>2, <1>4, <1>7, <2>1, <3>1 DEF Send, ChanOK
      <4>2. IsSeq(c[s][r])
        BY <1>4 DEF ChanOK
      <4>3. Elements(chan'[d][x]) = Elements(c[s][r]) \cup {answer}
        BY <4>1, <4>2, ElementsAppend
      <4> QED BY <1>6, <2>2, <3>1, <4>3 DEF ChanMail
    <3>2. CASE ~(Up(s) /\ d = s /\ x = r)
      <4>1. chan'[d][x] = c[d][x]
        BY <1>2, <1>4, <1>7, <3>2 DEF Send, ChanOK
      <4> QED BY <1>6, <4>1 DEF ChanMail
    <3> QED BY <3>1, <3>2
  <2>4. ChanMail(Gone, chan')
    BY <2>3 DEF ChanMail
  <2> QED BY <1>2, <1>5, <1>7, <2>4, Domains DEF MailInv
<1>8. CASE msg.type # "HELLO"
  <2>1. msg.type \in Buffered
    <3>1. msg.type \in Types(chan[r][s])
      BY <1>3 DEF Elements, Types
    <3> QED BY <1>8, <3>1, Domains DEF ChanOK, MessageTypes
  <2>2. BufferMail(Gone, buffer[r])
    BY Domains DEF MailInv
  <2>3. PICK t \in Buffered : t = msg.type
    BY <2>1
  <2>4. /\ IsSeq(Append(buffer[r][t], msg))
        /\ Elements(Append(buffer[r][t], msg)) = Elements(buffer[r][t]) \cup {msg}
    BY <2>2, ElementsAppend DEF BufferMail
  <2>5. buffer'[r] = [buffer[r] EXCEPT ![t] = Append(buffer[r][t], msg)]
    BY <1>2, <1>8, <2>3, Domains
  <2>6. BufferMail(Gone, buffer'[r])
    BY <1>5, <2>2, <2>3, <2>4, <2>5 DEF BufferMail
  <2>7. DOMAIN buffer' = Replicas /\ \A x \in Replicas \ {r} : buffer'[x] = buffer[x]
    BY <1>2, <1>8, Domains
  <2> QED BY <1>2, <1>5, <1>6, <1>8, <2>6, <2>7, Domains DEF MailInv
<1> QED BY <1>7, <1>8

LEMMA DeliverPlace ==
  ASSUME AllInv, NEW r \in Replicas, NEW s \in Replicas, Deliver(s, r)
  PROVE  PlaceInv'
<1>1. PICK msg, c : msg = Head(chan[r][s]) /\ c = Rest(r, s)
  OBVIOUS
<1>2. /\ Up(r) /\ chan[r][s] # <<>>
      /\ UNCHANGED <<life, phase, members, known, starting, reloads, internal, running>>
      /\ IF msg.type = "HELLO"
         THEN /\ chan' = Send(c, r, s, StatusMsg(r, internal[r].rateLimitMultiplier))
              /\ UNCHANGED buffer
         ELSE /\ chan' = c
              /\ buffer' = [buffer EXCEPT ![r][msg.type] = Append(buffer[r][msg.type], msg)]
  BY <1>1 DEF Deliver, Rest, schedVars, Free
<1>3. /\ ChanOK(c)
      /\ \A d, x \in Replicas : d # r \/ x # s => c[d][x] = chan[d][x]
      /\ Types(chan[r][s]) = {msg.type} \cup Types(c[r][s])
  <2>1. ChanOK(chan) /\ chan[r][s] # <<>>
    BY <1>2, Domains
  <2> QED BY <1>1, <2>1, RestEffect
<1>4. \A x \in Replicas \ {r} : SamePlace(x)
  <2> SUFFICES ASSUME NEW x \in Replicas \ {r} PROVE SamePlace(x)
    OBVIOUS
  <2>1. chan'[x][x] = chan[x][x]
    BY <1>2, <1>3 DEF Send, ChanOK
  <2>2. buffer'[x] = buffer[x]
    BY <1>2, Domains
  <2> QED BY <1>2, <2>1, <2>2 DEF SamePlace
<1>5. Answered(r) /\ Settled(r)
  BY <1>2, PlaceOfUp
<1>6. Settled(r)'
  BY <1>2, <1>5 DEF Settled
<1>7. Answered(r)'
  <2>1. BufferMail(Gone, buffer[r])
    BY Domains DEF MailInv
  <2>2. Elements(buffer[r].STATUS) \subseteq Elements(buffer'[r].STATUS)
    <3>1. CASE msg.type = "STATUS"
      <4>1. buffer'[r].STATUS = Append(buffer[r].STATUS, msg)
        BY <1>2, <2>1, <3>1, Domains DEF BufferMail, Buffered
      <4>2. IsSeq(buffer[r].STATUS)
        BY <2>1 DEF BufferMail, Buffered
      <4> QED BY <4>1, <4>2, ElementsAppend
    <3>2. CASE msg.type # "STATUS"
      <4>1. buffer'[r].STATUS = buffer[r].STATUS
        BY <1>2, <2>1, <3>2, Domains DEF BufferMail, Buffered
      <4> QED BY <4>1
    <3> QED BY <3>1, <3>2
  <2>3. CASE r = s /\ msg.type = "HELLO"
    <3>1. PICK answer : answer = StatusMsg(r, internal[r].rateLimitMultiplier)
      OBVIOUS
    <3>2. chan'[r][r] = Append(c[r][r], answer)
      BY <1>2, <1>3, <2>3, <3>1 DEF Send, ChanOK
    <3>3. IsSeq(c[r][r]) /\ answer.type = "STATUS"
      BY <1>3, <3>1 DEF ChanOK, StatusMsg
    <3>4. "STATUS" \in Types(chan'[r][r])
      BY <3>2, <3>3, TypesAppend
    <3> QED BY <3>4 DEF Answered, OwnAnswer
  <2>4. CASE r = s /\ msg.type = "STATUS"
    <3>1. msg.from = r
      <4>1. msg \in Elements(chan[r][s])
        BY <1>1, <1>2, Domains, RestElements
      <4> QED BY <2>4, <4>1, Domains DEF MailInv, ChanMail
    <3>2. buffer'[r].STATUS = Append(buffer[r].STATUS, msg)
      BY <1>2, <2>1, <2>4, Domains DEF BufferMail, Buffered
    <3>3. IsSeq(buffer[r].STATUS)
      BY <2>1 DEF BufferMail, Buffered
    <3>4. msg \in Elements(buffer'[r].STATUS)
      BY <3>2, <3>3, ElementsAppend
    <3> QED BY <3>1, <3>4 DEF Answered
  <2>5. CASE r # s \/ msg.type \notin {"HELLO", "STATUS"}
    <3>1. OwnAnswer(r) => OwnAnswer(r)'
      <4>1. CASE r # s
        <5>1. chan'[r][r] = chan[r][r]
          BY <1>2, <1>3, <4>1 DEF Send, ChanOK
        <5> QED BY <5>1 DEF OwnAnswer
      <4>2. CASE r = s /\ msg.type \notin {"HELLO", "STATUS"}
        BY <1>2, <1>3, <4>2 DEF OwnAnswer
      <4> QED BY <2>5, <4>1, <4>2
    <3> QED BY <1>2, <1>5, <2>2, <3>1 DEF Answered
  <2> QED BY <2>3, <2>4, <2>5
<1>8. Total'
  BY <1>2, Domains DEF Total
<1> QED BY SMTT(30), <1>4, <1>6, <1>7, <1>8, DeliverMail, AlivePlace, PlaceStep, Domains

LEMMA InitPlace == Init => PlaceInv
<1> SUFFICES ASSUME Init PROVE PlaceInv
  OBVIOUS
<1>1. MailInv
  BY ElementsEmpty, IsSeqEmpty DEF Init, MailInv, ChanMail, BufferMail
<1>2. Total
  BY DEF Init, Total
<1>3. ASSUME NEW r \in Replicas PROVE PlaceOK(r)
  <2>1. /\ members[r] = [l \in Lists |-> <<>>] /\ known[r] = {} /\ starting[r] = <<>>
        /\ reloads[r] = <<>> /\ internal[r] = DefaultConfig /\ running[r] = Null
        /\ phase[r] = FreePhase
    BY DEF Init
  <2>2. Remembers(r, members[r], known[r])
    BY <2>1, IsSeqEmpty DEF Remembers, Lists
  <2>3. InPlace(DefaultConfig)
    BY DEF InPlace, DefaultConfig, HasSlot, ConfigFields
  <2>4. Settled(r)
    BY <2>1, <2>2, <2>3, ElementsEmpty, IsSeqEmpty DEF Settled, Prepared, Scheduled
  <2>5. ~InRound(phase[r])
    BY <2>1 DEF InRound, FreePhase
  <2> QED BY <2>4, <2>5 DEF PlaceOK, Answered
<1> QED BY <1>1, <1>2, <1>3 DEF PlaceInv

LEMMA NextPlace == AllInv /\ [Next]_vars => PlaceInv'
<1> SUFFICES ASSUME AllInv, [Next]_vars PROVE PlaceInv'
  OBVIOUS
<1>1. ASSUME NEW r \in Replicas, Lifecycle(r) PROVE PlaceInv'
  <2>1. CASE Stop(r)
    <3>1. PICK left : /\ left = chan \/ left = Broadcast(r, CloseMsg(r))
                      /\ chan' = [left EXCEPT ![r] = [s \in Replicas |-> <<>>]]
      BY <2>1 DEF Stop
    <3>2. Forget(r)
      BY <2>1 DEF Stop
    <3> QED BY <3>1, <3>2, ForgetPlace
  <2>2. CASE Crash(r)
    <3>1. Forget(r) /\ chan' = [chan EXCEPT ![r] = [s \in Replicas |-> <<>>]]
      BY <2>2 DEF Crash
    <3> QED BY <3>1, ForgetPlace
  <2> QED BY <1>1, <2>1, <2>2, BootPlace, ResyncPlace, BackoffPlace DEF Lifecycle
<1>2. ASSUME NEW r \in Replicas, Progress(r) PROVE PlaceInv'
  BY <1>2, AwaitPhasePlace, StatusDuePlace, PhaseTimeoutPlace, SayHelloPlace, HandleSharePlace,
     HandleClosePlace, MarketsStartedPlace, ReloadedPlace, BackoffPlace, HandleRateLimitPlace,
     DeliverPlace DEF Progress
<1>3. CASE Tick \/ UNCHANGED vars
  <2>1. UNCHANGED <<life, chan, buffer, phase, starting, members, known, reloads, internal, running>>
    BY <1>3 DEF Tick, vars, schedVars
  <2>2. 1 \in Replicas
    BY NAssumption DEF Replicas
  <2> QED BY <2>1, <2>2, KeepPlace
<1> QED BY <1>1, <1>2, <1>3 DEF Next

THEOREM EverybodyPlaced == Spec /\ budget.late = {} => []AllInv
<1>1. Init /\ budget.late = {} => AllInv
  BY InitIInv, InitRound, InitPlace DEF AllInv
<1>2. AllInv /\ [Next]_vars => AllInv'
  BY NextIInv, NextRound, NextPlace DEF AllInv
<1> QED BY <1>1, <1>2, PTL DEF Spec

\* As long as no message is late no schedulers run with a slot outside the
\* replicas they count.
THEOREM HasPlaceHolds == Spec /\ budget.late = {} => []HasPlace
<1>1. AllInv => HasPlace
  BY PlaceOfUp DEF HasPlace, Live, Settled, Scheduled, InPlace, HasSlot
<1> QED BY <1>1, EverybodyPlaced, PTL

-----------------------------------------------------------------------------
(* Multipliers.                                                             *)

LEMMA Bounded ==
  ASSUME NEW n \in Nat, NEW f, \A i \in 1..n : f[i] \in Nat
  PROVE  \E b \in Nat : \A i \in 1..n : f[i] <= b
<1> DEFINE Below(k) == \E b \in Nat : \A i \in 1..k : f[i] <= b
           bad == {k \in 0..n : ~Below(k)}
<1>1. Below(0)
  <2>1. \A i \in 1..0 : f[i] <= 0
    OBVIOUS
  <2> QED BY <2>1
<1>2. ASSUME NEW k \in 1..n, Below(k - 1) PROVE Below(k)
  <2>1. PICK b \in Nat : \A i \in 1..(k - 1) : f[i] <= b
    BY <1>2
  <2>2. f[k] \in Nat
    OBVIOUS
  <2>3. PICK c \in Nat : c >= b /\ c >= f[k]
    BY <2>2
  <2>4. ASSUME NEW i \in 1..k PROVE f[i] <= c
    <3>1. CASE i = k
      BY <2>2, <2>3, <3>1
    <3>2. CASE i # k
      <4>1. i \in 1..(k - 1) /\ f[i] \in Nat
        BY <3>2
      <4> QED BY <2>1, <2>3, <4>1
    <3> QED BY <3>1, <3>2
  <2> QED BY <2>4
<1> HIDE DEF Below
<1>3. bad = {}
  <2> SUFFICES ASSUME bad # {} PROVE FALSE
    OBVIOUS
  <2>1. bad \in SUBSET Nat
    OBVIOUS
  <2>2. PICK k \in bad : \A m \in bad : k <= m
    BY <2>1, LeastNatural
  <2>3. k \in 1..n /\ ~Below(k)
    BY <1>1
  <2>4. k - 1 \in 0..n /\ ~(k <= k - 1)
    BY <2>3
  <2> QED BY <1>2, <2>2, <2>3, <2>4
<1>4. Below(n)
  BY <1>3
<1> QED BY <1>4 DEF Below

\* The highest multiplier is that of a message, and no message has a higher one.
LEMMA HighestOf ==
  ASSUME NEW messages, IsSeq(messages),
         \A m \in Elements(messages) : m.rateLimitMultiplier \in Nat,
         NEW h, h = HighestMultiplier(messages)
  PROVE  /\ h \in Nat
         /\ \A m \in Elements(messages) : h >= m.rateLimitMultiplier
         /\ h = 0 \/ \E m \in Elements(messages) : h = m.rateLimitMultiplier
<1>1. PICK n \in Nat : DOMAIN messages = 1..n
  BY DEF IsSeq
<1> DEFINE f == [i \in 1..n |-> messages[i].rateLimitMultiplier]
           S == {0} \cup {messages[i].rateLimitMultiplier : i \in DOMAIN messages}
<1>2. \A i \in 1..n : f[i] \in Nat
  BY <1>1 DEF Elements
<1>3. PICK b \in Nat : \A i \in 1..n : f[i] <= b
  BY <1>2, Bounded
<1>4. S \in SUBSET 0..b /\ S # {}
  BY <1>1, <1>2, <1>3
<1>5. h = Max(S)
  BY DEF HighestMultiplier
<1> HIDE DEF f
<1>6. h \in S /\ \A m \in S : h >= m
  <2> HIDE DEF S
  <2> QED BY <1>4, <1>5, GreatestNatural
<1> QED BY <1>4, <1>6 DEF Elements

\* A least number of a set.
LEMMA LeastIn ==
  ASSUME NEW S \in SUBSET Nat, S # {}
  PROVE  Min(S) \in S
<1>1. \E x \in S : \A y \in S : x <= y
  BY LeastNatural
<1> QED BY <1>1 DEF Min

-----------------------------------------------------------------------------
(* The messages that can be under way, where M are the multipliers.         *)

LEMMA PostFields ==
  ASSUME NEW M, NEW m \in Post(M)
  PROVE  /\ m.type = "STATUS" => m.rateLimitMultiplier \in M /\ m.interval \in M
         /\ m.type = "SHARE" => /\ m.rateLimitMultiplier \in M
                                /\ m.clusterMembers \in Seq(Entry(M))
BY DEF Post

LEMMA PostWritten ==
  ASSUME NEW M, NEW r \in Replicas
  PROVE  /\ HelloMsg(r) \in Post(M) /\ CloseMsg(r) \in Post(M)
         /\ \A mult \in M : StatusMsg(r, mult) \in Post(M)
         /\ \A state \in StateOf(M) : ShareMsg(r, state) \in Post(M)
<1>1. HelloMsg(r) \in Post(M) /\ CloseMsg(r) \in Post(M)
  BY DEF HelloMsg, CloseMsg, Post
<1>2. \A mult \in M : StatusMsg(r, mult) \in Post(M)
  BY DEF StatusMsg, Post
<1>3. ASSUME NEW state \in StateOf(M) PROVE ShareMsg(r, state) \in Post(M)
  BY DEF StateOf, ShareMsg, Post
<1> QED BY <1>1, <1>2, <1>3

\* The state of a round in which r has answered itself.
LEMMA AggregatedRates ==
  ASSUME NEW M \in SUBSET (Nat \ {0}), NEW r \in Replicas, NEW statuses, IsSeq(statuses),
         Elements(statuses) # {},
         \A m \in Elements(statuses) : m.rateLimitMultiplier \in M /\ m.interval \in M,
         NEW state, state = AggregateState(r, statuses)
  PROVE  /\ state \in StateOf(M)
         /\ \A m \in Elements(statuses) : state.rateLimitMultiplier >= m.rateLimitMultiplier
<1>1. state.replicaMembers \in Seq(Replicas)
  BY AggregatedReplicas DEF AggregateState
<1>2. state.clusterMembers \in Seq(Entry(M))
  <2>1. state.clusterMembers \in Seq(Reported(statuses))
    BY AggregatedCluster DEF AggregateState
  <2>2. Reported(statuses) \subseteq Entry(M)
    BY DEF Reported, Entry, Replicas
  <2> QED BY <2>1, <2>2, SeqMonotonic
<1>3. PICK h : h = HighestMultiplier(statuses)
  OBVIOUS
<1>4. /\ h \in Nat
      /\ \A m \in Elements(statuses) : h >= m.rateLimitMultiplier
      /\ h = 0 \/ \E m \in Elements(statuses) : h = m.rateLimitMultiplier
  BY <1>3, HighestOf
<1>5. h \in M
  <2>1. PICK m \in Elements(statuses) : TRUE
    OBVIOUS
  <2>2. h >= m.rateLimitMultiplier /\ m.rateLimitMultiplier \in Nat \ {0}
    BY <1>4
  <2> QED BY <1>4, <2>2
<1>6. state.rateLimitMultiplier = h
  BY <1>3 DEF AggregateState
<1>7. state = [replicaMembers |-> state.replicaMembers, rateLimitMultiplier |-> state.rateLimitMultiplier,
               clusterMembers |-> state.clusterMembers]
  BY DEF AggregateState
<1> QED BY <1>1, <1>2, <1>4, <1>5, <1>6, <1>7 DEF StateOf

-----------------------------------------------------------------------------
(* What a window of shares says of the cluster.                             *)

LEMMA MentionPlaces ==
  ASSUME NEW shares, NEW a, NEW p
  PROVE  p \in Mentions(a, shares) <=>
           \E i \in DOMAIN shares : \E j \in DOMAIN shares[i].clusterMembers :
             p = <<i, j>> /\ shares[i].clusterMembers[j].address = a
BY DEF Mentions

\* Windows of shares whose lists are lists.
Shares(shares) == IsSeq(shares) /\ \A m \in Elements(shares) : IsSeq(m.clusterMembers)

LEMMA MentionBounds ==
  ASSUME NEW shares, Shares(shares), NEW a, NEW p, p \in Mentions(a, shares)
  PROVE  /\ p = <<p[1], p[2]>> /\ p[1] \in DOMAIN shares
         /\ p[2] \in DOMAIN shares[p[1]].clusterMembers
         /\ shares[p[1]].clusterMembers[p[2]].address = a
         /\ p[1] \in Nat /\ p[2] \in Nat
<1>1. PICK i \in DOMAIN shares : \E j \in DOMAIN shares[i].clusterMembers :
             p = <<i, j>> /\ shares[i].clusterMembers[j].address = a
  BY MentionPlaces
<1>2. PICK j \in DOMAIN shares[i].clusterMembers :
             p = <<i, j>> /\ shares[i].clusterMembers[j].address = a
  BY <1>1
<1>3. i \in Nat
  BY DEF Shares, IsSeq
<1>4. shares[i] \in Elements(shares)
  BY DEF Elements
<1>5. j \in Nat
  <2>1. IsSeq(shares[i].clusterMembers)
    BY <1>4 DEF Shares
  <2> QED BY <2>1 DEF IsSeq
<1> QED BY <1>2, <1>3, <1>5

LEMMA ChosenIsMention ==
  ASSUME NEW shares, Shares(shares), NEW a, Mentions(a, shares) # {}
  PROVE  ChosenMention(a, shares) \in Mentions(a, shares)
<1> DEFINE all == Mentions(a, shares)
           own == {p \in all : shares[p[1]].from = a}
           newest == Max({p[1] : p \in all})
           oldest == Min({p[1] : p \in own})
           first == Min({p[2] : p \in {q \in all : q[1] = newest}})
           last == Max({p[2] : p \in {q \in own : q[1] = oldest}})
<1>1. ChosenMention(a, shares) = IF own = {} THEN <<newest, first>> ELSE <<oldest, last>>
  BY DEF ChosenMention
<1>2. \A p \in all : /\ p = <<p[1], p[2]>> /\ p[1] \in DOMAIN shares
                     /\ p[2] \in DOMAIN shares[p[1]].clusterMembers
                     /\ p[1] \in Nat /\ p[2] \in Nat
  BY MentionBounds
<1>3. CASE own = {}
  <2>1. PICK n \in Nat : DOMAIN shares = 1..n
    BY DEF Shares, IsSeq
  <2> DEFINE S == {p[1] : p \in all}
  <2>2. S \in SUBSET 0..n /\ S # {}
    BY <1>2, <2>1
  <2>3. newest \in S
    <3> HIDE DEF S, all
    <3>1. Max(S) \in S
      BY <2>2, GreatestNatural
    <3> QED BY <3>1 DEF S
  <2> HIDE DEF newest
  <2> DEFINE T == {p[2] : p \in {q \in all : q[1] = newest}}
  <2>4. T \in SUBSET Nat /\ T # {}
    BY <1>2, <2>3
  <2>5. first \in T
    <3>1. first = Min(T)
      OBVIOUS
    <3> HIDE DEF T, first
    <3> QED BY <2>4, <3>1, LeastIn
  <2>6. PICK p \in all : p[1] = newest /\ p[2] = first
    BY <2>5
  <2> QED BY <1>1, <1>2, <1>3, <2>6
<1>4. CASE own # {}
  <2> DEFINE S == {p[1] : p \in own}
  <2>1. S \in SUBSET Nat /\ S # {}
    BY <1>2, <1>4
  <2>2. oldest \in S
    <3>1. oldest = Min(S)
      OBVIOUS
    <3> HIDE DEF S, oldest
    <3> QED BY <2>1, <3>1, LeastIn
  <2> HIDE DEF oldest
  <2> DEFINE T == {p[2] : p \in {q \in own : q[1] = oldest}}
  <2>3. oldest \in DOMAIN shares
    BY <1>2, <2>2
  <2>4. PICK n \in Nat : DOMAIN shares[oldest].clusterMembers = 1..n
    <3>1. shares[oldest] \in Elements(shares)
      BY <2>3 DEF Elements
    <3>2. IsSeq(shares[oldest].clusterMembers)
      BY <3>1 DEF Shares
    <3> QED BY <3>2 DEF IsSeq
  <2>5. T \in SUBSET 0..n /\ T # {}
    BY <1>2, <2>2, <2>4
  <2>6. last \in T
    <3>1. last = Max(T)
      OBVIOUS
    <3> HIDE DEF T, last
    <3> QED BY <2>5, <3>1, GreatestNatural
  <2>7. PICK p \in own : p[1] = oldest /\ p[2] = last
    BY <2>6
  <2> QED BY <1>1, <1>2, <1>4, <2>7
<1> QED BY <1>3, <1>4

\* The list of the cluster made of the shares has everybody they mention, with
\* an interval they mention.
LEMMA SharedMembers ==
  ASSUME NEW shares, Shares(shares), NEW M,
         \A m \in Elements(shares) : Elements(m.clusterMembers) \subseteq Entry(M)
  PROVE  /\ UniqueClusterMembers(shares) \in Seq(Entry(M))
         /\ \A a \in Replicas : Mentions(a, shares) # {} =>
              \E c \in Elements(UniqueClusterMembers(shares)) : c.address = a
<1> DEFINE member(a) == shares[ChosenMention(a, shares)[1]].clusterMembers[ChosenMention(a, shares)[2]]
           part(a) == IF Mentions(a, shares) = {} THEN <<>> ELSE <<member(a)>>
           parts == [a \in 1..N |-> part(a)]
<1>1. UniqueClusterMembers(shares) = FlattenSeq(parts)
  BY DEF UniqueClusterMembers, Replicas
<1>2. ASSUME NEW a, Mentions(a, shares) # {}
      PROVE  member(a) \in Entry(M) /\ member(a).address = a
  <2>1. PICK p : p = ChosenMention(a, shares)
    OBVIOUS
  <2>2. p \in Mentions(a, shares)
    BY <1>2, <2>1, ChosenIsMention
  <2>3. /\ p[1] \in DOMAIN shares /\ p[2] \in DOMAIN shares[p[1]].clusterMembers
        /\ shares[p[1]].clusterMembers[p[2]].address = a
    BY <2>2, MentionBounds
  <2>4. shares[p[1]] \in Elements(shares)
    BY <2>3 DEF Elements
  <2>5. shares[p[1]].clusterMembers[p[2]] \in Elements(shares[p[1]].clusterMembers)
    BY <2>3 DEF Elements
  <2> QED BY <2>1, <2>3, <2>4, <2>5
<1> HIDE DEF member
<1>3. ASSUME NEW a \in 1..N PROVE part(a) \in Seq(Entry(M))
  BY <1>2
<1>4. ASSUME NEW a \in 1..N, Mentions(a, shares) # {}
      PROVE  \E c \in Elements(part(a)) : c.address = a
  <2>1. part(a) = <<member(a)>> /\ 1 \in DOMAIN <<member(a)>>
    BY <1>4
  <2> QED BY <1>2, <1>4, <2>1 DEF Elements
<1> HIDE DEF part
<1>5. parts \in [1..N -> Seq(Entry(M))] /\ N \in Nat
  BY <1>3, NAssumption
<1>6. FlattenSeq(parts) \in Seq(Entry(M)) /\ Gathers(FlattenSeq(parts), parts, N)
  BY <1>5, FlattenElements
<1>7. \A a \in 1..N : Elements(part(a)) \subseteq Elements(FlattenSeq(parts))
  <2>1. Elements(FlattenSeq(parts)) = UNION {Elements(part(a)) : a \in 1..N}
    BY <1>6 DEF Gathers
  <2> QED BY <2>1
<1> QED BY <1>1, <1>4, <1>6, <1>7 DEF Replicas

\* Shares that agree on the list of replicas have a list of the cluster: what
\* is adopted can be normalized unless a higher multiplier comes with it.
LEMMA SharedComplete ==
  ASSUME NEW r \in Replicas, NEW shares, IsSeq(shares), NEW M \in SUBSET Nat,
         \A m \in Elements(shares) :
           Coherent(m) /\ m.clusterMembers \in Seq(Entry(M)),
         NEW mult, NEW state, state = ShareState(r, shares, mult),
         NEW old, ShouldReload(state, old)
  PROVE  state.rateLimitMultiplier # Null \/ Normalizable(state)
<1>1. SUFFICES ASSUME state.replicaMembers # Null PROVE state.clusterMembers # Null
  BY DEF ShouldReload, Lists, Normalizable
<1>2. PICK m \in Elements(shares) : /\ m.from \in Peers(r)
                                    /\ state.replicaMembers = m.replicaMembers
                                    /\ r \in Elements(state.replicaMembers)
  BY <1>1, SharedReplicas
<1>3. PICK c \in Elements(m.clusterMembers) : c.address = r
  BY <1>2 DEF Coherent
<1>4. Shares(shares)
  BY DEF Shares, Coherent
<1>5. Mentions(r, shares) # {}
  <2>1. PICK i \in DOMAIN shares : shares[i] = m
    BY DEF Elements
  <2>2. PICK j \in DOMAIN shares[i].clusterMembers : shares[i].clusterMembers[j] = c
    BY <2>1 DEF Elements
  <2>3. <<i, j>> \in Mentions(r, shares)
    BY <1>3, <2>2, MentionPlaces
  <2> QED BY <2>3
<1>6. PICK cluster : cluster = UniqueClusterMembers(shares)
  OBVIOUS
<1>7. cluster \in Seq(Entry(M)) /\ \E e \in Elements(cluster) : e.address = r
  <2>1. \A share \in Elements(shares) : Elements(share.clusterMembers) \subseteq Entry(M)
    BY DEF Elements
  <2> QED BY <1>4, <1>5, <1>6, <2>1, SharedMembers
<1>8. state.clusterMembers = cluster
  BY <1>6, <1>7 DEF ShareState, Elements
<1>9. cluster \in Seq([address : Replicas, interval : Int])
  <2>1. ASSUME NEW e \in Entry(M) PROVE e \in [address : Replicas, interval : Int]
    <3>1. M \subseteq Int
      OBVIOUS
    <3> QED BY ONLY <2>1, <3>1 DEF Entry
  <2>2. Entry(M) \subseteq [address : Replicas, interval : Int]
    BY <2>1
  <2> QED BY <1>7, <2>2, SeqMonotonic
<1> QED BY <1>8, <1>9, NullAssumption

-----------------------------------------------------------------------------
(* Every multiplier there is, anywhere, is one of M.                        *)

RatedReplica(M, r) ==
  /\ internal[r].rateLimitMultiplier \in M
  /\ running[r] # Null => running[r].rateLimitMultiplier \in M
  /\ Elements(starting[r]) \subseteq StateOf(M)
  /\ \A call \in Elements(reloads[r]) : call.config.rateLimitMultiplier \in M \cup {Null}
  /\ IsSeq(limits[r]) /\ Elements(limits[r]) \subseteq M

RatedMail(M) ==
  \A r \in Replicas : /\ \A s \in Replicas : Elements(chan[r][s]) \subseteq Post(M)
                      /\ \A t \in Buffered : Elements(buffer[r][t]) \subseteq Post(M)

\* Either nobody exceeds a rate limit, or every multiplier may be reached.
Reachable(M) == budget.failures = 0 \/ M = Nat \ {0}

RateInv(M) ==
  /\ Reachable(M) /\ DOMAIN limits = Replicas /\ RatedMail(M) /\ \A r \in Replicas : RatedReplica(M, r)

Rates(M) == M \in SUBSET (Nat \ {0}) /\ 1 \in M

LEMMA RateTaken ==
  ASSUME NEW old, InPlace(old), NEW c, NEW new, new = SetDynamicConfig(old, c)
  PROVE  new.rateLimitMultiplier =
           IF c.rateLimitMultiplier = Null THEN old.rateLimitMultiplier ELSE c.rateLimitMultiplier
BY DEF SetDynamicConfig, Overlay, InPlace, ConfigFields

SameRates(x) ==
  /\ internal'[x] = internal[x] /\ running'[x] = running[x] /\ starting'[x] = starting[x]
  /\ reloads'[x] = reloads[x] /\ limits'[x] = limits[x]

LEMMA SameRated ==
  ASSUME NEW M, NEW x, RatedReplica(M, x), SameRates(x)
  PROVE  RatedReplica(M, x)'
BY DEF RatedReplica, SameRates

LEMMA RateStep ==
  ASSUME NEW M, RateInv(M), NEW r \in Replicas, Reachable(M)', DOMAIN limits' = Replicas,
         RatedMail(M)', RatedReplica(M, r)', \A x \in Replicas \ {r} : SameRates(x)
  PROVE  RateInv(M)'
BY SameRated DEF RateInv

LEMMA RatedMailStep ==
  ASSUME NEW M, AllInv, RatedMail(M), NEW r \in Replicas,
         chan' = chan \/ \E msg \in Post(M) : chan' = Broadcast(r, msg),
         buffer' = buffer \/ \E t \in Buffered : buffer' = [buffer EXCEPT ![r][t] = <<>>]
  PROVE  RatedMail(M)'
<1> SUFFICES ASSUME NEW d \in Replicas
             PROVE  /\ \A s \in Replicas : Elements(chan'[d][s]) \subseteq Post(M)
                    /\ \A t \in Buffered : Elements(buffer'[d][t]) \subseteq Post(M)
  BY DEF RatedMail
<1>1. ASSUME NEW s \in Replicas PROVE Elements(chan'[d][s]) \subseteq Post(M)
  <2>1. CASE chan' = chan
    BY <2>1 DEF RatedMail
  <2>2. ASSUME NEW msg \in Post(M), chan' = Broadcast(r, msg)
        PROVE  Elements(chan'[d][s]) \subseteq Post(M)
    <3>1. PICK c : c = Broadcast(r, msg)
      OBVIOUS
    <3>2. ChanOK(chan)
      BY Domains
    <3>3. Elements(c[d][s]) = IF Up(d) /\ s = r THEN Elements(chan[d][s]) \cup {msg}
                                               ELSE Elements(chan[d][s])
      BY ONLY <3>1, <3>2, r \in Replicas, d \in Replicas, s \in Replicas, BroadcastElements
    <3> QED BY <2>2, <3>1, <3>3 DEF RatedMail
  <2> QED BY <2>1, <2>2
<1>2. ASSUME NEW t \in Buffered PROVE Elements(buffer'[d][t]) \subseteq Post(M)
  <2>1. DOMAIN buffer = Replicas /\ DOMAIN buffer[d] = Buffered
    BY Domains DEF MailInv, BufferMail
  <2>2. buffer'[d][t] = buffer[d][t] \/ buffer'[d][t] = <<>>
    BY <2>1
  <2> QED BY <2>2, ElementsEmpty DEF RatedMail
<1> QED BY <1>1, <1>2

\* A step that does not touch the multipliers.
LEMMA KeepRates ==
  ASSUME NEW M, AllInv, RateInv(M), NEW r \in Replicas, Reachable(M)',
         UNCHANGED <<buffer, internal, running, starting, reloads, limits>>,
         chan' = chan \/ \E msg \in Post(M) : chan' = Broadcast(r, msg)
  PROVE  RateInv(M)'
<1>1. RatedMail(M)'
  BY RatedMailStep DEF RateInv
<1>2. \A x \in Replicas : SameRates(x)
  BY DEF SameRates
<1> QED BY <1>1, <1>2, SameRated DEF RateInv

LEMMA KeepReachable ==
  ASSUME NEW M, Reachable(M), budget' = budget
  PROVE  Reachable(M)'
BY DEF Reachable

LEMMA QuietRates ==
  ASSUME NEW M, AllInv, RateInv(M), NEW r \in Replicas,
         \/ Boot(r) \/ Resync(r) \/ Greet(r) \/ ShareDue(r) \/ CloseDue(r) \/ PhaseTimeout(r)
         \/ BackoffStart(r) \/ Tick \/ UNCHANGED vars
  PROVE  RateInv(M)'
<1>1. UNCHANGED <<chan, buffer, internal, running, starting, reloads, limits>>
  BY DEF Boot, Resync, Greet, ShareDue, CloseDue, AwaitPhase, PhaseTimeout, BackoffStart, Tick,
         vars, schedVars, roundVars
<1>2. budget' = budget \/ \E n : budget' = [budget EXCEPT !.rounds = n]
  BY DEF Boot, Resync, Greet, ShareDue, CloseDue, AwaitPhase, PhaseTimeout, BackoffStart, Tick,
         vars, bookVars
<1>3. budget'.failures = budget.failures
  BY <1>2 DEF AllInv, RoundInv, Punctual
<1>4. Reachable(M)'
  BY <1>3 DEF RateInv, Reachable
<1> QED BY <1>1, <1>4, KeepRates

LEMMA SayHelloRates ==
  ASSUME NEW M, AllInv, RateInv(M), NEW r \in Replicas, NEW who, SayHello(r, who)
  PROVE  RateInv(M)'
<1>1. /\ UNCHANGED <<buffer, internal, running, starting, reloads, limits, budget>>
      /\ chan' = Broadcast(r, HelloMsg(r))
  BY DEF SayHello
<1> QED BY <1>1, PostWritten, KeepReachable, KeepRates DEF RateInv

LEMMA ForgetRates ==
  ASSUME NEW M, Rates(M), AllInv, RateInv(M), NEW r \in Replicas, Forget(r),
         NEW left, left = chan \/ left = Broadcast(r, CloseMsg(r)),
         chan' = [left EXCEPT ![r] = [s \in Replicas |-> <<>>]]
  PROVE  RateInv(M)'
<1>1. /\ buffer' = [buffer EXCEPT ![r] = [t \in Buffered |-> <<>>]]
      /\ starting' = [starting EXCEPT ![r] = <<>>]
      /\ reloads' = [reloads EXCEPT ![r] = <<>>]
      /\ internal' = [internal EXCEPT ![r] = DefaultConfig]
      /\ running' = [running EXCEPT ![r] = Null]
      /\ limits' = [limits EXCEPT ![r] = <<>>]
      /\ UNCHANGED budget
  BY DEF Forget
<1>2. DOMAIN limits = Replicas
  BY DEF RateInv
<1>3. RatedReplica(M, r)'
  <2>1. /\ starting'[r] = <<>> /\ reloads'[r] = <<>> /\ internal'[r] = DefaultConfig
        /\ running'[r] = Null /\ limits'[r] = <<>>
    BY <1>1, <1>2, Domains
  <2>2. DefaultConfig.rateLimitMultiplier = 1
    BY DEF DefaultConfig
  <2> QED BY <2>1, <2>2, ElementsEmpty, IsSeqEmpty DEF RatedReplica, Rates
<1>4. \A x \in Replicas \ {r} : SameRates(x)
  BY <1>1, <1>2, Domains DEF SameRates
<1>5. RatedMail(M)'
  <2>1. DOMAIN left = Replicas
    BY Domains DEF Broadcast
  <2>2. ASSUME NEW d \in Replicas, NEW s \in Replicas
        PROVE  Elements(left[d][s]) \subseteq Post(M)
    <3>1. CASE left = chan
      BY <3>1 DEF RateInv, RatedMail
    <3>2. CASE left = Broadcast(r, CloseMsg(r))
      <4>1. Elements(left[d][s]) = IF Up(d) /\ s = r THEN Elements(chan[d][s]) \cup {CloseMsg(r)}
                                                     ELSE Elements(chan[d][s])
        <5>1. ChanOK(chan)
          BY Domains
        <5> QED BY ONLY <3>2, <5>1, r \in Replicas, d \in Replicas, s \in Replicas, BroadcastElements
      <4>2. CloseMsg(r) \in Post(M)
        BY PostWritten
      <4> QED BY <4>1, <4>2 DEF RateInv, RatedMail
    <3> QED BY <3>1, <3>2
  <2>3. chan'[r] = [s \in Replicas |-> <<>>] /\ \A d \in Replicas \ {r} : chan'[d] = left[d]
    BY <2>1
  <2>4. \A d, s \in Replicas : Elements(chan'[d][s]) \subseteq Post(M)
    BY <2>2, <2>3, ElementsEmpty
  <2>5. /\ buffer'[r] = [t \in Buffered |-> <<>>]
        /\ \A d \in Replicas \ {r} : buffer'[d] = buffer[d]
    BY <1>1, Domains
  <2>6. \A d \in Replicas, t \in Buffered : Elements(buffer'[d][t]) \subseteq Post(M)
    BY <2>5, ElementsEmpty DEF RateInv, RatedMail
  <2> QED BY <2>4, <2>6 DEF RatedMail
<1> QED BY <1>1, <1>2, <1>3, <1>4, <1>5, KeepReachable, RateStep DEF RateInv

\* What the buffers hold.
LEMMA BufferedRates ==
  ASSUME NEW M, AllInv, RateInv(M), NEW r \in Replicas
  PROVE  /\ IsSeq(buffer[r].STATUS) /\ IsSeq(buffer[r].SHARE)
         /\ \A m \in Elements(buffer[r].STATUS) : m.rateLimitMultiplier \in M /\ m.interval \in M
         /\ \A m \in Elements(buffer[r].SHARE) :
              m.rateLimitMultiplier \in M /\ m.clusterMembers \in Seq(Entry(M)) /\ Coherent(m)
<1>1. BufferMail(Gone, buffer[r])
  BY Domains DEF MailInv
<1>2. \A t \in Buffered : IsSeq(buffer[r][t]) /\ \A m \in Elements(buffer[r][t]) : Letter(Gone, m) /\ m.type = t
  BY <1>1 DEF BufferMail
<1>3. \A t \in Buffered : \A m \in Elements(buffer[r][t]) : m \in Post(M)
  BY DEF RateInv, RatedMail
<1>4. "STATUS" \in Buffered /\ "SHARE" \in Buffered
  BY DEF Buffered
<1> QED BY <1>2, <1>3, <1>4, PostFields DEF Letter

LEMMA SharedRate ==
  ASSUME NEW M, Rates(M), NEW r, NEW shares, IsSeq(shares),
         \A m \in Elements(shares) : m.rateLimitMultiplier \in M,
         NEW mult \in M, NEW state, state = ShareState(r, shares, mult)
  PROVE  \/ state.rateLimitMultiplier = Null
         \/ /\ state.rateLimitMultiplier \in M /\ state.rateLimitMultiplier > mult
            /\ \E m \in Elements(shares) : m.rateLimitMultiplier = state.rateLimitMultiplier
<1>1. PICK h : h = HighestMultiplier(shares)
  OBVIOUS
<1>2. h \in Nat /\ (h = 0 \/ \E m \in Elements(shares) : h = m.rateLimitMultiplier)
  <2>1. \A m \in Elements(shares) : m.rateLimitMultiplier \in Nat
    BY DEF Rates
  <2> QED BY <1>1, <2>1, HighestOf
<1>3. state.rateLimitMultiplier = IF h > mult THEN h ELSE Null
  BY <1>1 DEF ShareState
<1>4. mult \in Nat \ {0}
  BY DEF Rates
<1> QED BY <1>2, <1>3, <1>4

LEMMA CalledRates ==
  ASSUME NEW M, AllInv, RateInv(M), NEW r \in Replicas, Up(r), NEW by, NEW config,
         CallReload(r, by, config), config.rateLimitMultiplier \in M \cup {Null},
         running' = running, starting' = starting, limits'[r] = limits[r]
  PROVE  /\ RatedReplica(M, r)'
         /\ \A x \in Replicas \ {r} : reloads'[x] = reloads[x] /\ internal'[x] = internal[x]
<1>1. InPlace(internal[r]) /\ RatedReplica(M, r)
  BY PlaceOfUp DEF Settled, Scheduled, RateInv
<1>2. PICK call : call = [by |-> by, config |-> config]
  OBVIOUS
<1>3. /\ reloads' = [reloads EXCEPT ![r] = Append(reloads[r], call)]
      /\ internal' = IF reloads[r] = <<>>
                     THEN [internal EXCEPT ![r] = SetDynamicConfig(internal[r], config)]
                     ELSE internal
  BY <1>2 DEF CallReload
<1>4. Elements(reloads'[r]) = Elements(reloads[r]) \cup {call}
  BY <1>3, Domains, ElementsAppend
<1>5. internal'[r] = internal[r] \/ internal'[r] = SetDynamicConfig(internal[r], config)
  BY <1>3, Domains
<1>6. internal'[r].rateLimitMultiplier \in M
  BY <1>1, <1>5, RateTaken DEF RatedReplica
<1>7. call.config = config
  BY <1>2
<1>8. RatedReplica(M, r)'
  BY <1>1, <1>4, <1>6, <1>7 DEF RatedReplica
<1> QED BY <1>3, <1>8, Domains

LEMMA StatusDueRates ==
  ASSUME NEW M, Rates(M), AllInv, RateInv(M), NEW r \in Replicas, StatusDue(r)
  PROVE  RateInv(M)'
<1>1. /\ Up(r) /\ timer[r].STATUS = 0
      /\ buffer' = [buffer EXCEPT ![r]["STATUS"] = <<>>]
      /\ UNCHANGED <<reloads, running, limits, budget>>
  BY DEF StatusDue, Free, bookVars
<1>2. PICK state \in {AggregateState(r, buffer[r].STATUS)} :
        IF started[r]
        THEN chan' = Broadcast(r, ShareMsg(r, state)) /\ UNCHANGED <<starting, internal>>
        ELSE /\ starting' = [starting EXCEPT ![r] = Append(starting[r], state)]
             /\ internal' = IF starting[r] = <<>>
                            THEN [internal EXCEPT ![r] =
                                    SetDynamicConfig(internal[r], NormalizeState(r, state))]
                            ELSE internal
             /\ UNCHANGED chan
  BY DEF StatusDue, ShareAndRelease
<1>3. \E m \in Elements(buffer[r].STATUS) : m.from = r
  BY <1>1, OwnStatus
<1>4. state \in StateOf(M)
  <2>1. PICK statuses : statuses = buffer[r].STATUS
    OBVIOUS
  <2>2. /\ IsSeq(statuses) /\ Elements(statuses) # {}
        /\ \A m \in Elements(statuses) : m.rateLimitMultiplier \in M /\ m.interval \in M
    BY <1>3, <2>1, BufferedRates
  <2>3. state = AggregateState(r, statuses) /\ M \in SUBSET (Nat \ {0})
    BY <1>2, <2>1 DEF Rates
  <2> QED BY <2>2, <2>3, AggregatedRates
<1>5. chan' = chan \/ \E msg \in Post(M) : chan' = Broadcast(r, msg)
  BY <1>2, <1>4, PostWritten
<1>6. RatedMail(M)'
  <2>1. "STATUS" \in Buffered
    BY DEF Buffered
  <2> QED BY <1>1, <1>5, <2>1, RatedMailStep DEF RateInv
<1>7. RatedReplica(M, r) /\ InPlace(internal[r]) /\ IsSeq(starting[r])
  BY <1>1, PlaceOfUp DEF RateInv, Settled, Scheduled, Prepared
<1>8. internal'[r].rateLimitMultiplier \in M
  <2>1. internal'[r] = internal[r] \/ internal'[r] = SetDynamicConfig(internal[r], NormalizeState(r, state))
    BY <1>2, Domains
  <2>2. NormalizeState(r, state).rateLimitMultiplier \in M
    BY <1>4 DEF NormalizeState, StateOf
  <2> QED BY <1>7, <2>1, <2>2, RateTaken DEF RatedReplica
<1>9. Elements(starting'[r]) \subseteq StateOf(M)
  <2>1. starting'[r] = starting[r] \/ starting'[r] = Append(starting[r], state)
    BY <1>2, Domains
  <2>2. Elements(Append(starting[r], state)) = Elements(starting[r]) \cup {state}
    BY <1>7, ElementsAppend
  <2> QED BY <1>4, <1>7, <2>1, <2>2 DEF RatedReplica
<1>10. RatedReplica(M, r)'
  BY <1>1, <1>7, <1>8, <1>9 DEF RatedReplica
<1>11. \A x \in Replicas \ {r} : SameRates(x)
  BY <1>1, <1>2, Domains DEF SameRates
<1> QED BY <1>1, <1>6, <1>10, <1>11, KeepReachable, RateStep DEF RateInv

LEMMA MarketsStartedRates ==
  ASSUME NEW M, AllInv, RateInv(M), NEW r \in Replicas, MarketsStarted(r)
  PROVE  RateInv(M)'
<1>1. PICK state : state = Head(starting[r])
  OBVIOUS
<1>2. /\ Up(r) /\ starting[r] # <<>>
      /\ starting' = [starting EXCEPT ![r] = Tail(starting[r])]
      /\ running' = [running EXCEPT ![r] = SetDynamicConfig(internal[r], NormalizeState(r, state))]
      /\ internal' = IF Tail(starting[r]) = <<>> THEN internal
                     ELSE [internal EXCEPT ![r] =
                             SetDynamicConfig(internal[r], NormalizeState(r, Head(Tail(starting[r]))))]
      /\ chan' = Broadcast(r, ShareMsg(r, state))
      /\ UNCHANGED <<buffer, reloads, limits, budget>>
  BY <1>1 DEF MarketsStarted, Free, ShareAndRelease, bookVars
<1>3. Tail(starting[r]) = <<>>
  <2>1. OnTime(phase[r], timer[r], starting[r], Asking(r), OwnAnswer(r))
    BY <1>2, RoundOfUp DEF AllInv
  <2> QED BY <1>2, <2>1 DEF OnTime, Asked, Debouncing, StartingUp, Between
<1>4. RatedReplica(M, r) /\ InPlace(internal[r]) /\ IsSeq(starting[r])
  BY <1>2, PlaceOfUp DEF RateInv, Settled, Scheduled, Prepared
<1>5. state \in StateOf(M)
  <2>1. Elements(starting[r]) = {state} \cup Elements(Tail(starting[r]))
    BY <1>1, <1>2, <1>4, ElementsTail
  <2> QED BY <1>4, <2>1 DEF RatedReplica
<1>6. running'[r].rateLimitMultiplier \in M
  <2>1. running'[r] = SetDynamicConfig(internal[r], NormalizeState(r, state))
    BY <1>2, Domains
  <2>2. NormalizeState(r, state).rateLimitMultiplier \in M
    BY <1>5 DEF NormalizeState, StateOf
  <2> QED BY <1>4, <2>1, <2>2, RateTaken DEF RatedReplica
<1>7. starting'[r] = <<>> /\ internal' = internal
  BY <1>2, <1>3, Domains
<1>8. RatedReplica(M, r)'
  BY <1>2, <1>4, <1>6, <1>7, ElementsEmpty DEF RatedReplica
<1>9. RatedMail(M)'
  BY <1>2, <1>5, PostWritten, RatedMailStep DEF RateInv
<1>10. \A x \in Replicas \ {r} : SameRates(x)
  BY <1>2, <1>7, Domains DEF SameRates
<1> QED BY <1>2, <1>8, <1>9, <1>10, KeepReachable, RateStep DEF RateInv

LEMMA HandleShareRates ==
  ASSUME NEW M, Rates(M), AllInv, RateInv(M), NEW r \in Replicas, HandleShare(r)
  PROVE  RateInv(M)'
<1>1. /\ Up(r) /\ buffer' = [buffer EXCEPT ![r]["SHARE"] = <<>>]
      /\ UNCHANGED <<chan, starting, running, limits, budget>>
  BY DEF HandleShare, Granted, bookVars
<1>2. PICK state \in {ShareState(r, buffer[r].SHARE, internal[r].rateLimitMultiplier)} :
        \/ CallReload(r, "SHARE", NormalizeState(r, state))
        \/ UNCHANGED <<reloads, internal>>
  BY DEF HandleShare
<1>3. RatedReplica(M, r)
  BY DEF RateInv
<1>4. NormalizeState(r, state).rateLimitMultiplier \in M \cup {Null}
  <2>1. PICK shares, mult : shares = buffer[r].SHARE /\ mult = internal[r].rateLimitMultiplier
    OBVIOUS
  <2>2. /\ IsSeq(shares) /\ \A m \in Elements(shares) : m.rateLimitMultiplier \in M
        /\ mult \in M /\ state = ShareState(r, shares, mult)
    BY <1>2, <1>3, <2>1, BufferedRates DEF RatedReplica
  <2>3. state.rateLimitMultiplier \in M \cup {Null}
    BY <2>2, SharedRate
  <2> QED BY <2>3 DEF NormalizeState
<1>5. RatedMail(M)'
  <2>1. "SHARE" \in Buffered
    BY DEF Buffered
  <2> QED BY <1>1, <2>1, RatedMailStep DEF RateInv
<1>6. CASE CallReload(r, "SHARE", NormalizeState(r, state))
  <2>1. /\ RatedReplica(M, r)'
        /\ \A x \in Replicas \ {r} : reloads'[x] = reloads[x] /\ internal'[x] = internal[x]
    BY <1>1, <1>4, <1>6, CalledRates
  <2>2. \A x \in Replicas \ {r} : SameRates(x)
    BY <1>1, <2>1 DEF SameRates
  <2> QED BY <1>1, <1>5, <2>1, <2>2, KeepReachable, RateStep DEF RateInv
<1>7. CASE UNCHANGED <<reloads, internal>>
  <2>1. \A x \in Replicas : SameRates(x)
    BY <1>1, <1>7 DEF SameRates
  <2> QED BY <1>1, <1>3, <1>5, <2>1, SameRated, KeepReachable, RateStep DEF RateInv
<1> QED BY <1>2, <1>6, <1>7

LEMMA HandleCloseRates ==
  ASSUME NEW M, AllInv, RateInv(M), NEW r \in Replicas, HandleClose(r)
  PROVE  RateInv(M)'
<1>1. PICK left : left = RemoveClosed(r, buffer[r].CLOSE, members[r])
  OBVIOUS
<1>2. PICK config : config = NormalizeState(r, CloseState(left))
  OBVIOUS
<1>3. /\ Up(r) /\ buffer' = [buffer EXCEPT ![r]["CLOSE"] = <<>>]
      /\ CallReload(r, "CLOSE", config) \/ UNCHANGED <<reloads, internal>>
      /\ UNCHANGED <<chan, starting, running, limits, budget>>
  BY <1>1, <1>2 DEF HandleClose, Granted, bookVars
<1>4. config.rateLimitMultiplier = Null
  BY <1>2 DEF NormalizeState, CloseState
<1>5. RatedMail(M)'
  <2>1. "CLOSE" \in Buffered
    BY DEF Buffered
  <2> QED BY <1>3, <2>1, RatedMailStep DEF RateInv
<1>6. CASE CallReload(r, "CLOSE", config)
  <2>1. /\ RatedReplica(M, r)'
        /\ \A x \in Replicas \ {r} : reloads'[x] = reloads[x] /\ internal'[x] = internal[x]
    BY <1>3, <1>4, <1>6, CalledRates
  <2>2. \A x \in Replicas \ {r} : SameRates(x)
    BY <1>3, <2>1 DEF SameRates
  <2> QED BY <1>3, <1>5, <2>1, <2>2, KeepReachable, RateStep DEF RateInv
<1>7. CASE UNCHANGED <<reloads, internal>>
  <2>1. \A x \in Replicas : SameRates(x)
    BY <1>3, <1>7 DEF SameRates
  <2> QED BY <1>3, <1>5, <2>1, SameRated, KeepReachable, RateStep DEF RateInv
<1> QED BY <1>3, <1>6, <1>7

LEMMA HandleRateLimitRates ==
  ASSUME NEW M, AllInv, RateInv(M), NEW r \in Replicas, HandleRateLimit(r)
  PROVE  RateInv(M)'
<1>1. PICK multiplier, config :
        /\ multiplier = Head(limits[r])
        /\ config = [replicaSize |-> Null, instancePosition |-> Null,
                     rateLimitMultiplier |-> multiplier, clusterMembers |-> Null]
  OBVIOUS
<1>2. /\ Up(r) /\ limits[r] # <<>> /\ limits' = [limits EXCEPT ![r] = Tail(limits[r])]
      /\ CallReload(r, "BACKOFF", config) \/ UNCHANGED <<reloads, internal>>
      /\ UNCHANGED <<chan, buffer, starting, running, budget>>
  BY <1>1 DEF HandleRateLimit, Free, roundVars, bookVars
<1>3. RatedReplica(M, r) /\ DOMAIN limits = Replicas
  BY DEF RateInv
<1>4. /\ IsSeq(Tail(limits[r])) /\ multiplier \in M /\ Elements(Tail(limits[r])) \subseteq M
  <2>1. IsSeq(Tail(limits[r])) /\ Elements(limits[r]) = {multiplier} \cup Elements(Tail(limits[r]))
    BY <1>1, <1>2, <1>3, ElementsTail DEF RatedReplica
  <2> QED BY <1>3, <2>1 DEF RatedReplica
<1>5. limits'[r] = Tail(limits[r]) /\ \A x \in Replicas \ {r} : limits'[x] = limits[x]
  BY <1>2, <1>3
<1>6. /\ internal'[r].rateLimitMultiplier \in M
      /\ \A call \in Elements(reloads'[r]) : call.config.rateLimitMultiplier \in M \cup {Null}
      /\ \A x \in Replicas \ {r} : reloads'[x] = reloads[x] /\ internal'[x] = internal[x]
  <2>1. CASE CallReload(r, "BACKOFF", config)
    <3>1. PICK call : call = [by |-> "BACKOFF", config |-> config]
      OBVIOUS
    <3>2. /\ reloads' = [reloads EXCEPT ![r] = Append(reloads[r], call)]
          /\ internal' = IF reloads[r] = <<>>
                         THEN [internal EXCEPT ![r] = SetDynamicConfig(internal[r], config)]
                         ELSE internal
      BY <2>1, <3>1 DEF CallReload
    <3>3. Elements(reloads'[r]) = Elements(reloads[r]) \cup {call}
      BY <3>2, Domains, ElementsAppend
    <3>4. internal'[r] = internal[r] \/ internal'[r] = SetDynamicConfig(internal[r], config)
      BY <3>2, Domains
    <3>5. InPlace(internal[r])
      BY <1>2, PlaceOfUp DEF Settled, Scheduled
    <3>6. internal'[r].rateLimitMultiplier \in M
      BY <1>1, <1>3, <1>4, <3>4, <3>5, RateTaken DEF RatedReplica
    <3>7. call.config.rateLimitMultiplier = multiplier
      BY <1>1, <3>1
    <3> QED BY <1>3, <1>4, <3>2, <3>3, <3>6, <3>7, Domains DEF RatedReplica
  <2>2. CASE UNCHANGED <<reloads, internal>>
    BY <1>3, <2>2 DEF RatedReplica
  <2> QED BY <1>2, <2>1, <2>2
<1>7. RatedReplica(M, r)'
  BY <1>2, <1>3, <1>4, <1>5, <1>6 DEF RatedReplica
<1>8. \A x \in Replicas \ {r} : SameRates(x)
  BY <1>2, <1>5, <1>6 DEF SameRates
<1>9. RatedMail(M)'
  BY <1>2, RatedMailStep DEF RateInv
<1>10. DOMAIN limits' = Replicas
  BY <1>2, <1>3
<1> QED BY <1>2, <1>7, <1>8, <1>9, <1>10, KeepReachable, RateStep DEF RateInv

LEMMA ReloadedRates ==
  ASSUME NEW M, AllInv, RateInv(M), NEW r \in Replicas, Reloaded(r)
  PROVE  RateInv(M)'
<1>1. PICK calls, rest : calls = reloads[r] /\ rest = Tail(reloads[r])
  OBVIOUS
<1>2. /\ Up(r) /\ calls # <<>> /\ reloads' = [reloads EXCEPT ![r] = rest]
      /\ internal' = IF rest = <<>> THEN internal
                     ELSE [internal EXCEPT ![r] = SetDynamicConfig(internal[r], Head(rest).config)]
      /\ running' = IF running[r] = Null THEN running
                    ELSE [running EXCEPT ![r] = SetDynamicConfig(running[r], Head(calls).config)]
      /\ UNCHANGED <<chan, buffer, starting, limits, budget>>
  BY <1>1 DEF Reloaded, Free, NextReload, bookVars
<1>3. RatedReplica(M, r) /\ Settled(r) /\ IsSeq(calls)
  BY <1>1, <1>2, PlaceOfUp, Domains DEF RateInv
<1>4. /\ IsSeq(rest) /\ Elements(calls) = {Head(calls)} \cup Elements(rest)
      /\ rest # <<>> => Head(rest) \in Elements(rest)
  <2>1. IsSeq(rest) /\ Elements(calls) = {Head(calls)} \cup Elements(rest)
    BY <1>1, <1>2, <1>3, ElementsTail
  <2>2. ASSUME rest # <<>> PROVE Head(rest) \in Elements(rest)
    <3>1. Elements(rest) = {Head(rest)} \cup Elements(Tail(rest))
      BY <2>1, <2>2, ElementsTail
    <3> QED BY <3>1
  <2> QED BY <2>1, <2>2
<1>5. \A call \in Elements(calls) : call.config.rateLimitMultiplier \in M \cup {Null}
  BY <1>1, <1>3 DEF RatedReplica
<1>6. internal'[r].rateLimitMultiplier \in M
  <2>1. internal'[r] = internal[r] \/
          (rest # <<>> /\ internal'[r] = SetDynamicConfig(internal[r], Head(rest).config))
    BY <1>2, Domains
  <2> QED BY <1>3, <1>4, <1>5, <2>1, RateTaken DEF RatedReplica, Settled, Scheduled
<1>7. running'[r] # Null => running'[r].rateLimitMultiplier \in M
  <2>1. running'[r] = running[r] \/
          (running[r] # Null /\ running'[r] = SetDynamicConfig(running[r], Head(calls).config))
    BY <1>2, Domains
  <2> QED BY <1>3, <1>4, <1>5, <2>1, RateTaken DEF RatedReplica, Settled, Scheduled
<1>8. reloads'[r] = rest
  BY <1>2, Domains
<1>9. RatedReplica(M, r)'
  BY <1>2, <1>3, <1>4, <1>5, <1>6, <1>7, <1>8 DEF RatedReplica
<1>10. \A x \in Replicas \ {r} : SameRates(x)
  BY <1>2, Domains DEF SameRates
<1>11. RatedMail(M)'
  BY <1>2, RatedMailStep DEF RateInv
<1> QED BY <1>2, <1>9, <1>10, <1>11, KeepReachable, RateStep DEF RateInv

LEMMA RateLimitExceededRates ==
  ASSUME NEW M, Rates(M), AllInv, RateInv(M), NEW r \in Replicas, RateLimitExceeded(r)
  PROVE  RateInv(M)'
<1>1. PICK multiplier : multiplier = running[r].rateLimitMultiplier + 1
  OBVIOUS
<1>2. /\ running[r] # Null /\ budget.failures > 0
      /\ \/ UNCHANGED limits
         \/ limits' = [d \in Replicas |-> IF Up(d) /\ backoff[d] # "off" THEN Append(limits[d], multiplier)
                                                                        ELSE limits[d]]
      /\ UNCHANGED <<chan, buffer, starting, running, reloads, internal>>
  BY <1>1 DEF RateLimitExceeded, roundVars
<1>3. M = Nat \ {0}
  <2>1. budget.failures # 0
    BY <1>2
  <2> QED BY <2>1 DEF RateInv, Reachable
<1>4. multiplier \in M
  BY <1>1, <1>2, <1>3 DEF RateInv, RatedReplica
<1>5. ASSUME NEW x \in Replicas PROVE IsSeq(limits'[x]) /\ Elements(limits'[x]) \subseteq M
  <2>1. IsSeq(limits[x]) /\ Elements(limits[x]) \subseteq M
    BY DEF RateInv, RatedReplica
  <2>2. limits'[x] = limits[x] \/ limits'[x] = Append(limits[x], multiplier)
    BY <1>2
  <2>3. /\ IsSeq(Append(limits[x], multiplier))
        /\ Elements(Append(limits[x], multiplier)) = Elements(limits[x]) \cup {multiplier}
    BY <2>1, ElementsAppend
  <2> QED BY <1>4, <2>1, <2>2, <2>3
<1>6. \A x \in Replicas : RatedReplica(M, x)'
  BY <1>2, <1>5 DEF RateInv, RatedReplica
<1>7. RatedMail(M)' /\ DOMAIN limits' = Replicas
  BY <1>2, RatedMailStep DEF RateInv
<1> QED BY <1>3, <1>6, <1>7 DEF RateInv, Reachable

LEMMA DeliverRates ==
  ASSUME NEW M, AllInv, RateInv(M), NEW r \in Replicas, NEW s \in Replicas, Deliver(s, r)
  PROVE  RateInv(M)'
<1>1. PICK msg, c, answer : /\ msg = Head(chan[r][s]) /\ c = Rest(r, s)
                            /\ answer = StatusMsg(r, internal[r].rateLimitMultiplier)
  BY SMTT(30)
<1>2. /\ chan[r][s] # <<>>
      /\ UNCHANGED <<starting, running, reloads, internal, limits, budget>>
      /\ IF msg.type = "HELLO"
         THEN chan' = Send(c, r, s, answer) /\ UNCHANGED buffer
         ELSE /\ chan' = c
              /\ buffer' = [buffer EXCEPT ![r][msg.type] = Append(buffer[r][msg.type], msg)]
  BY <1>1 DEF Deliver, Rest, schedVars, bookVars
<1>3. ChanOK(chan)
  BY Domains
<1>4. /\ \A d, x \in Replicas : Elements(c[d][x]) \subseteq Elements(chan[d][x])
      /\ msg \in Elements(chan[r][s])
  BY <1>1, <1>2, <1>3, RestElements
<1>5. ChanOK(c)
  BY <1>1, <1>2, <1>3, RestEffect
<1>6. \A d, x \in Replicas : Elements(c[d][x]) \subseteq Post(M)
  BY <1>4 DEF RateInv, RatedMail
<1>7. msg \in Post(M) /\ answer \in Post(M)
  <2>1. internal[r].rateLimitMultiplier \in M
    BY DEF RateInv, RatedReplica
  <2> QED BY <1>1, <1>4, <2>1, PostWritten DEF RateInv, RatedMail
<1>8. ASSUME NEW d \in Replicas, NEW x \in Replicas
      PROVE  Elements(chan'[d][x]) \subseteq Post(M)
  <2>1. chan'[d][x] = c[d][x] \/ chan'[d][x] = Append(c[d][x], answer)
    BY <1>2, <1>5 DEF Send, ChanOK
  <2>2. IsSeq(c[d][x])
    BY <1>5 DEF ChanOK
  <2>3. Elements(Append(c[d][x], answer)) = Elements(c[d][x]) \cup {answer}
    BY <2>2, ElementsAppend
  <2> QED BY <1>6, <1>7, <2>1, <2>3
<1>9. ASSUME NEW d \in Replicas, NEW t \in Buffered
      PROVE  Elements(buffer'[d][t]) \subseteq Post(M)
  <2>1. DOMAIN buffer = Replicas /\ DOMAIN buffer[d] = Buffered /\ IsSeq(buffer[d][t])
    BY Domains DEF MailInv, BufferMail
  <2>2. buffer'[d][t] = buffer[d][t] \/ buffer'[d][t] = Append(buffer[d][t], msg)
    BY <1>2, <2>1
  <2>3. Elements(Append(buffer[d][t], msg)) = Elements(buffer[d][t]) \cup {msg}
    BY <2>1, ElementsAppend
  <2> QED BY <1>7, <2>2, <2>3 DEF RateInv, RatedMail
<1>10. RatedMail(M)'
  BY <1>8, <1>9 DEF RatedMail
<1>11. \A x \in Replicas : SameRates(x)
  BY <1>2 DEF SameRates
<1> QED BY <1>2, <1>10, <1>11, SameRated, KeepReachable DEF RateInv

LEMMA InitRates ==
  ASSUME NEW M, Rates(M), Init, Reachable(M)
  PROVE  RateInv(M)
<1>1. RatedMail(M)
  BY ElementsEmpty DEF Init, RatedMail
<1>2. DefaultConfig.rateLimitMultiplier = 1
  BY DEF DefaultConfig
<1>3. ASSUME NEW r \in Replicas PROVE RatedReplica(M, r)
  <2>1. /\ starting[r] = <<>> /\ reloads[r] = <<>> /\ internal[r] = DefaultConfig /\ running[r] = Null
        /\ limits[r] = <<>>
    BY DEF Init
  <2> QED BY <1>2, <2>1, ElementsEmpty, IsSeqEmpty DEF RatedReplica, Rates
<1>4. DOMAIN limits = Replicas
  BY DEF Init
<1> QED BY <1>1, <1>3, <1>4 DEF RateInv

LEMMA NextRates ==
  ASSUME NEW M, Rates(M), AllInv, RateInv(M), [Next]_vars
  PROVE  RateInv(M)'
<1>1. ASSUME NEW r \in Replicas, Lifecycle(r) PROVE RateInv(M)'
  <2>1. CASE Stop(r)
    <3>1. PICK left : /\ left = chan \/ left = Broadcast(r, CloseMsg(r))
                      /\ chan' = [left EXCEPT ![r] = [s \in Replicas |-> <<>>]]
      BY <2>1 DEF Stop
    <3>2. Forget(r)
      BY <2>1 DEF Stop
    <3> QED BY <3>1, <3>2, ForgetRates
  <2>2. CASE Crash(r)
    <3>1. Forget(r) /\ chan' = [chan EXCEPT ![r] = [s \in Replicas |-> <<>>]]
      BY <2>2 DEF Crash
    <3> QED BY <3>1, ForgetRates
  <2> QED BY <1>1, <2>1, <2>2, QuietRates, RateLimitExceededRates DEF Lifecycle
<1>2. ASSUME NEW r \in Replicas, Progress(r) PROVE RateInv(M)'
  BY <1>2, QuietRates, StatusDueRates, SayHelloRates, HandleShareRates, HandleCloseRates,
     MarketsStartedRates, ReloadedRates, HandleRateLimitRates, DeliverRates DEF Progress
<1>3. CASE Tick \/ UNCHANGED vars
  <2>1. 1 \in Replicas
    BY NAssumption DEF Replicas
  <2> QED BY <1>3, <2>1, QuietRates
<1> QED BY <1>1, <1>2, <1>3 DEF Next

-----------------------------------------------------------------------------
(* Joining. *)

Unclosed(p) == p.held # "CLOSE" /\ "CLOSE" \notin Elements(p.queue)

\* Nobody leaves, so nobody hears of a CLOSE, and nobody is terminated.
JoinInv ==
  /\ Stoppers = {}
  /\ \A r \in Replicas : life[r] # "failing" /\ Unclosed(phase[r]) /\ timer[r].CLOSE = Off
  /\ \A d, s \in Replicas : \A m \in Elements(chan[d][s]) : m.type # "CLOSE"

NewcomerInv == AllInv /\ RateInv({1}) /\ JoinInv

LEMMA OnlyOne == Rates({1})
BY DEF Rates

LEMMA Holding ==
  ASSUME AllInv, NEW r \in Replicas
  PROVE  /\ phase[r] \in LockType /\ DOMAIN phase = Replicas
         /\ timer[r] \in [Timers -> Int] /\ DOMAIN timer = Replicas
         /\ DOMAIN life = Replicas
BY DEF AllInv, IInv, LockInv, RoundInv

LEMMA AcquiredUnclosed ==
  ASSUME NEW p \in LockType, Unclosed(p), NEW who \in Holders \ {"CLOSE"}, NEW q, q = Acquired(p, who)
  PROVE  Unclosed(q)
<1>1. CASE p.held = "none"
  BY <1>1 DEF Acquired, Unclosed, LockType
<1>2. CASE p.held # "none"
  <2>1. q.held = p.held /\ q.queue = Append(p.queue, who)
    BY <1>2 DEF Acquired, LockType
  <2>2. IsSeq(p.queue)
    BY SeqIsSeq DEF LockType
  <2>3. Elements(q.queue) = Elements(p.queue) \cup {who}
    BY <2>1, <2>2, ElementsAppend
  <2> QED BY <2>1, <2>3 DEF Unclosed
<1> QED BY <1>1, <1>2

LEMMA ReleasedUnclosed ==
  ASSUME NEW p \in LockType, Unclosed(p), NEW q, q = Released(p)
  PROVE  Unclosed(q)
<1>1. CASE p.queue = <<>>
  BY <1>1, ElementsEmpty DEF Released, FreePhase, Unclosed
<1>2. CASE p.queue # <<>>
  <2>1. q.held = Head(p.queue) /\ q.queue = Tail(p.queue)
    BY <1>2 DEF Released
  <2>2. IsSeq(p.queue)
    BY SeqIsSeq DEF LockType
  <2>3. Elements(p.queue) = {Head(p.queue)} \cup Elements(Tail(p.queue))
    BY <1>2, <2>2, ElementsTail
  <2> QED BY <2>1, <2>3 DEF Unclosed
<1> QED BY <1>1, <1>2

\* A step of r that says no CLOSE, waits for none and does not fail.
LEMMA JoinStep ==
  ASSUME AllInv, JoinInv, NEW r \in Replicas,
         life' = life \/ life' = [life EXCEPT ![r] = "up"],
         phase' = phase \/ \E q : phase' = [phase EXCEPT ![r] = q] /\ Unclosed(q),
         timer' = timer \/ \E t : timer' = [timer EXCEPT ![r] = t] /\ t.CLOSE = Off,
         chan' = chan \/ \E msg : chan' = Broadcast(r, msg) /\ msg.type # "CLOSE"
  PROVE  JoinInv'
<1>1. \A x \in Replicas : life'[x] # "failing" /\ Unclosed(phase'[x]) /\ timer'[x].CLOSE = Off
  BY Holding DEF JoinInv
<1>2. ASSUME NEW d \in Replicas, NEW s \in Replicas, NEW m \in Elements(chan'[d][s])
      PROVE  m.type # "CLOSE"
  <2>1. CASE chan' = chan
    BY <1>2, <2>1 DEF JoinInv
  <2>2. ASSUME NEW msg, chan' = Broadcast(r, msg), msg.type # "CLOSE"
        PROVE  m.type # "CLOSE"
    <3>1. PICK c : c = Broadcast(r, msg)
      OBVIOUS
    <3>2. ChanOK(chan)
      BY Domains
    <3>3. Elements(c[d][s]) = IF Up(d) /\ s = r THEN Elements(chan[d][s]) \cup {msg}
                                               ELSE Elements(chan[d][s])
      BY ONLY <3>1, <3>2, r \in Replicas, d \in Replicas, s \in Replicas, BroadcastElements
    <3> QED BY <1>2, <2>2, <3>1, <3>3 DEF JoinInv
  <2> QED BY <2>1, <2>2
<1> QED BY <1>1, <1>2 DEF JoinInv

\* A lock that r acquires or releases.
LEMMA UnclosedLock ==
  ASSUME AllInv, JoinInv, NEW r \in Replicas
  PROVE  /\ \A who \in Holders \ {"CLOSE"} : Unclosed(Acquired(phase[r], who))
         /\ Unclosed(Released(phase[r]))
         /\ Unclosed([phase[r] EXCEPT !.entered = TRUE])
<1>1. phase[r] \in LockType /\ Unclosed(phase[r])
  BY Holding DEF JoinInv
<1>2. Unclosed([phase[r] EXCEPT !.entered = TRUE])
  BY <1>1 DEF Unclosed, LockType
<1>3. \A who \in Holders \ {"CLOSE"} : Unclosed(Acquired(phase[r], who))
  BY <1>1, AcquiredUnclosed
<1>4. Unclosed(Released(phase[r]))
  BY <1>1, ReleasedUnclosed
<1> QED BY <1>2, <1>3, <1>4

LEMMA RoundHolders == {"HELLO", "CLUSTER", "SHARE"} \subseteq Holders \ {"CLOSE"}
BY DEF Holders, Round

LEMMA LifecycleJoin ==
  ASSUME NewcomerInv, NEW r \in Replicas, Lifecycle(r)
  PROVE  JoinInv'
<1> USE DEF NewcomerInv
<1>1. CASE Boot(r)
  <2>1. timer' = [timer EXCEPT ![r] = [timer[r] EXCEPT !.GREET = InitDelay]]
    BY <1>1 DEF Boot
  <2>2. [timer[r] EXCEPT !.GREET = InitDelay].CLOSE = Off
    BY Holding DEF JoinInv, Timers, Buffered
  <2>3. life' = [life EXCEPT ![r] = "up"] /\ UNCHANGED <<chan, phase>>
    BY <1>1 DEF Boot
  <2> QED BY <2>1, <2>2, <2>3, JoinStep
<1>2. CASE Stop(r)
  BY <1>2 DEF Stop, JoinInv
<1>3. CASE Crash(r)
  <2>1. /\ life' = [life EXCEPT ![r] = "gone"] /\ phase' = [phase EXCEPT ![r] = FreePhase]
        /\ timer' = [timer EXCEPT ![r] = NoTimers]
        /\ chan' = [chan EXCEPT ![r] = [s \in Replicas |-> <<>>]]
    BY <1>3 DEF Crash, Forget
  <2>2. Unclosed(FreePhase) /\ NoTimers.CLOSE = Off
    BY ElementsEmpty DEF Unclosed, FreePhase, NoTimers, Buffered
  <2>3. \A d, s \in Replicas : chan'[d][s] = chan[d][s] \/ chan'[d][s] = <<>>
    BY <2>1, Domains
  <2>4. \A x \in Replicas : life'[x] # "failing" /\ Unclosed(phase'[x]) /\ timer'[x].CLOSE = Off
    BY <2>1, <2>2, Holding DEF JoinInv
  <2> QED BY <2>3, <2>4, ElementsEmpty DEF JoinInv
<1>4. CASE Resync(r)
  <2>1. phase' = [phase EXCEPT ![r] = Acquired(phase[r], "HELLO")] /\ UNCHANGED <<life, chan, timer>>
    BY <1>4 DEF Resync
  <2> QED BY <2>1, UnclosedLock, RoundHolders, JoinStep
<1>5. ~RateLimitExceeded(r)
  <2>1. budget.failures = 0
    <3>1. {1} # Nat \ {0}
      <4>1. 2 \in Nat \ {0} /\ 2 \notin {1}
        OBVIOUS
      <4> QED BY <4>1
    <3> QED BY <3>1 DEF RateInv, Reachable
  <2> QED BY <2>1 DEF RateLimitExceeded
<1> QED BY <1>1, <1>2, <1>3, <1>4, <1>5 DEF Lifecycle

\* The shares of replicas that all have the multiplier 1 bring no other one, and
\* their lists are complete.
LEMMA ShareIsSafe ==
  ASSUME NewcomerInv, NEW r \in Replicas, HandleShare(r)
  PROVE  life' = life
<1>1. PICK shares, mult : shares = buffer[r].SHARE /\ mult = internal[r].rateLimitMultiplier
  OBVIOUS
<1>2. PICK state : /\ state = ShareState(r, shares, mult)
                   /\ \/ ShouldReload(state, members[r]) /\ ~Normalizable(state)
                      \/ life' = life
  BY <1>1 DEF HandleShare
<1>3. /\ IsSeq(shares) /\ mult \in {1}
      /\ \A m \in Elements(shares) :
           m.rateLimitMultiplier \in {1} /\ m.clusterMembers \in Seq(Entry({1})) /\ Coherent(m)
  BY <1>1, BufferedRates DEF NewcomerInv, RateInv, RatedReplica
<1>4. state.rateLimitMultiplier = Null
  <2>1. \/ state.rateLimitMultiplier = Null
        \/ state.rateLimitMultiplier \in {1} /\ state.rateLimitMultiplier > mult
    BY <1>2, <1>3, OnlyOne, SharedRate
  <2> QED BY <1>3, <2>1
<1>5. ASSUME ShouldReload(state, members[r]) PROVE Normalizable(state)
  <2>1. {1} \in SUBSET Nat
    OBVIOUS
  <2> QED BY <1>2, <1>3, <1>4, <1>5, <2>1, SharedComplete
<1> QED BY <1>2, <1>5

LEMMA DeliverJoin ==
  ASSUME NewcomerInv, NEW r \in Replicas, NEW s \in Replicas, Deliver(s, r)
  PROVE  JoinInv'
<1>1. PICK msg, c, answer : /\ msg = Head(chan[r][s]) /\ c = Rest(r, s)
                            /\ answer = StatusMsg(r, internal[r].rateLimitMultiplier)
  BY SMTT(30)
<1>2. /\ chan[r][s] # <<>> /\ UNCHANGED <<life, phase>>
      /\ chan' = c \/ chan' = Send(c, r, s, answer)
      /\ timer' = timer \/ timer' = [timer EXCEPT ![r][msg.type] = DebounceDelay(msg.type)]
  BY <1>1 DEF Deliver, Rest
<1>3. ChanOK(chan)
  BY Domains DEF NewcomerInv
<1>4. ChanOK(c) /\ \A d, x \in Replicas : Elements(c[d][x]) \subseteq Elements(chan[d][x])
  BY <1>1, <1>2, <1>3, RestEffect, RestElements
<1>5. msg.type # "CLOSE"
  <2>1. msg \in Elements(chan[r][s])
    BY <1>1, <1>2, <1>3, RestElements
  <2> QED BY <2>1 DEF NewcomerInv, JoinInv
<1>6. ASSUME NEW d \in Replicas, NEW x \in Replicas, NEW m \in Elements(chan'[d][x])
      PROVE  m.type # "CLOSE"
  <2>1. chan'[d][x] = c[d][x] \/ chan'[d][x] = Append(c[d][x], answer)
    BY <1>2, <1>4 DEF Send, ChanOK
  <2>2. IsSeq(c[d][x])
    BY <1>4 DEF ChanOK
  <2>3. Elements(Append(c[d][x], answer)) = Elements(c[d][x]) \cup {answer}
    BY <2>2, ElementsAppend
  <2>4. answer.type # "CLOSE"
    BY <1>1 DEF StatusMsg
  <2> QED BY <1>4, <1>6, <2>1, <2>3, <2>4 DEF NewcomerInv, JoinInv
<1>7. \A x \in Replicas : timer'[x].CLOSE = Off
  <2> TAKE x \in Replicas
  <2>1. timer[x] \in [Timers -> Int] /\ DOMAIN timer = Replicas /\ timer[x].CLOSE = Off
    BY Holding DEF NewcomerInv, JoinInv
  <2>2. "CLOSE" \in Timers
    BY DEF Timers, Buffered
  <2> QED BY <1>2, <1>5, <2>1, <2>2
<1> QED BY <1>2, <1>6, <1>7 DEF NewcomerInv, JoinInv

LEMMA ProgressJoin ==
  ASSUME NewcomerInv, NEW r \in Replicas, Progress(r)
  PROVE  JoinInv'
<1> USE DEF NewcomerInv
<1>1. timer[r] \in [Timers -> Int] /\ timer[r].CLOSE = Off /\ "CLOSE" \in Timers
  BY Holding DEF JoinInv, Timers, Buffered
<1>2. CASE Greet(r) \/ ShareDue(r) \/ CloseDue(r)
  <2>1. ~CloseDue(r)
    BY <1>1 DEF CloseDue, AwaitPhase, Off
  <2>2. PICK t \in {"GREET", "SHARE"}, who \in {"HELLO", "SHARE"} : AwaitPhase(r, t, who)
    BY <1>2, <2>1 DEF Greet, ShareDue
  <2>3. /\ phase' = [phase EXCEPT ![r] = Acquired(phase[r], who)] /\ UNCHANGED <<life, chan>>
        /\ timer' = [timer EXCEPT ![r] = [timer[r] EXCEPT ![t] = Off]]
    BY <2>2 DEF AwaitPhase
  <2>4. [timer[r] EXCEPT ![t] = Off].CLOSE = Off
    BY <1>1
  <2> QED BY <2>3, <2>4, UnclosedLock, RoundHolders, JoinStep
<1>3. CASE StatusDue(r)
  <2>1. PICK state, t, u : /\ state = AggregateState(r, buffer[r].STATUS)
                           /\ t = [timer[r] EXCEPT !.STATUS = Off]
                           /\ u = [[timer[r] EXCEPT !.STATUS = Off] EXCEPT !.PHASE = Off]
    OBVIOUS
  <2>2. t.CLOSE = Off /\ u.CLOSE = Off
    BY <1>1, <2>1
  <2>3. /\ UNCHANGED life
        /\ \/ /\ chan' = Broadcast(r, ShareMsg(r, state))
              /\ timer' = [[timer EXCEPT ![r].STATUS = Off] EXCEPT ![r].PHASE = Off]
              /\ phase' = [phase EXCEPT ![r] = Released(phase[r])]
           \/ timer' = [timer EXCEPT ![r].STATUS = Off] /\ UNCHANGED <<chan, phase>>
    BY <1>3, <2>1 DEF StatusDue, ShareAndRelease
  <2>4. ShareMsg(r, state).type # "CLOSE"
    BY DEF ShareMsg
  <2>5. timer' = [timer EXCEPT ![r] = t] \/ timer' = [timer EXCEPT ![r] = u]
    BY <2>1, <2>3, Holding
  <2> QED BY <2>2, <2>3, <2>4, <2>5, UnclosedLock, JoinStep
<1>4. CASE PhaseTimeout(r)
  BY <1>4, PhaseTimeoutRound DEF AllInv
<1>5. ASSUME NEW who \in Round, SayHello(r, who) PROVE JoinInv'
  <2>1. /\ chan' = Broadcast(r, HelloMsg(r)) /\ UNCHANGED life
        /\ phase' = [phase EXCEPT ![r] = [phase[r] EXCEPT !.entered = TRUE]]
        /\ timer' = [timer EXCEPT ![r] = [timer[r] EXCEPT !.PHASE = PhaseDelay]]
    BY <1>5 DEF SayHello
  <2>2. [timer[r] EXCEPT !.PHASE = PhaseDelay].CLOSE = Off /\ HelloMsg(r).type # "CLOSE"
    BY <1>1 DEF HelloMsg
  <2> QED BY <2>1, <2>2, UnclosedLock, JoinStep
<1>6. CASE HandleShare(r)
  <2>1. /\ \/ phase' = [phase EXCEPT ![r] = [phase[r] EXCEPT !.entered = TRUE]]
           \/ phase' = [phase EXCEPT ![r] = Released(phase[r])]
        /\ UNCHANGED <<chan, timer>>
    BY <1>6 DEF HandleShare
  <2> QED BY <1>6, <2>1, ShareIsSafe, UnclosedLock, JoinStep
<1>7. CASE HandleClose(r)
  BY <1>7 DEF HandleClose, Granted, JoinInv, Unclosed
<1>8. CASE MarketsStarted(r)
  <2>1. PICK state : chan' = Broadcast(r, ShareMsg(r, state))
    BY <1>8 DEF MarketsStarted, ShareAndRelease
  <2>2. /\ phase' = [phase EXCEPT ![r] = Released(phase[r])] /\ UNCHANGED life
        /\ timer' = [timer EXCEPT ![r] = [timer[r] EXCEPT !.PHASE = Off]]
    BY <1>8 DEF MarketsStarted, ShareAndRelease
  <2>3. [timer[r] EXCEPT !.PHASE = Off].CLOSE = Off /\ ShareMsg(r, state).type # "CLOSE"
    BY <1>1 DEF ShareMsg
  <2> QED BY <2>1, <2>2, <2>3, UnclosedLock, JoinStep
<1>9. CASE Reloaded(r)
  <2>1. /\ UNCHANGED <<life, chan>>
        /\ \/ phase' = [phase EXCEPT ![r] = Acquired(phase[r], "CLUSTER")] /\ UNCHANGED timer
           \/ /\ phase' = [phase EXCEPT ![r] = Released(phase[r])]
              /\ timer' = [timer EXCEPT ![r] = [timer[r] EXCEPT !.PHASE = Off]]
    BY <1>9 DEF Reloaded
  <2>2. [timer[r] EXCEPT !.PHASE = Off].CLOSE = Off
    BY <1>1
  <2> QED BY <2>1, <2>2, UnclosedLock, RoundHolders, JoinStep
<1>10. CASE BackoffStart(r) \/ HandleRateLimit(r)
  BY <1>10, JoinStep DEF BackoffStart, HandleRateLimit, roundVars
<1>11. "HELLO" \in Round /\ "CLUSTER" \in Round
  BY DEF Round
<1> QED BY <1>2, <1>3, <1>4, <1>5, <1>6, <1>7, <1>8, <1>9, <1>10, <1>11, DeliverJoin DEF Progress

LEMMA NextJoin == NewcomerInv /\ [Next]_vars => JoinInv'
<1> SUFFICES ASSUME NewcomerInv, [Next]_vars PROVE JoinInv'
  OBVIOUS
<1>1. CASE Tick
  <2>1. ASSUME NEW x \in Replicas PROVE timer'[x].CLOSE = Off
    <3>1. timer[x].CLOSE = Off /\ "CLOSE" \in DOMAIN timer[x]
      BY Holding DEF NewcomerInv, JoinInv, Timers, Buffered
    <3>2. timer'[x].CLOSE = IF timer[x].CLOSE > 0 THEN timer[x].CLOSE - 1 ELSE timer[x].CLOSE
      BY <1>1, <3>1 DEF Tick
    <3> QED BY <3>1, <3>2 DEF Off
  <2> QED BY <1>1, <2>1 DEF Tick, NewcomerInv, JoinInv
<1>2. CASE UNCHANGED vars
  BY <1>2 DEF vars, NewcomerInv, JoinInv
<1> QED BY <1>1, <1>2, LifecycleJoin, ProgressJoin DEF Next

LEMMA InitJoin == Init /\ Stoppers = {} => JoinInv
<1> SUFFICES ASSUME Init, Stoppers = {} PROVE JoinInv
  OBVIOUS
<1>1. ASSUME NEW r \in Replicas
      PROVE  life[r] # "failing" /\ Unclosed(phase[r]) /\ timer[r].CLOSE = Off
  <2>1. Unclosed(FreePhase)
    BY ElementsEmpty DEF Unclosed, FreePhase
  <2>2. timer[r].CLOSE = Off
    BY DEF Init, NoTimers, Buffered
  <2> QED BY <2>1, <2>2 DEF Init
<1> QED BY <1>1, ElementsEmpty DEF Init, JoinInv

\* As long as no message is late, nobody exceeds a rate limit and nobody is asked
\* to terminate, no replica fails: whoever joins, whenever, and whoever dies.
THEOREM JoiningIsSafeHolds ==
  Spec /\ budget.late = {} /\ budget.failures = 0 /\ Stoppers = {} => []JoiningIsSafe
<1>1. Init /\ budget.late = {} /\ budget.failures = 0 /\ Stoppers = {} => NewcomerInv
  <2>1. budget.failures = 0 => Reachable({1})
    BY DEF Reachable
  <2> QED BY <2>1, InitIInv, InitRound, InitPlace, InitRates, InitJoin, OnlyOne DEF AllInv, NewcomerInv
<1>2. NewcomerInv /\ [Next]_vars => NewcomerInv'
  BY NextIInv, NextRound, NextPlace, NextRates, NextJoin, OnlyOne DEF AllInv, NewcomerInv
<1>3. NewcomerInv => JoiningIsSafe
  BY DEF NewcomerInv, JoinInv, JoiningIsSafe
<1> QED BY <1>1, <1>2, <1>3, PTL DEF Spec

-----------------------------------------------------------------------------
(* Types, however late the messages are.  What needs an argument are the    *)
(* folds that add up the intervals, and that a round is never aggregated    *)
(* without answers: its multiplier would be none.                           *)

\* f adds up the weights of the elements of the subsets of S, the way the folds
\* do it.
Adds(f, S, w) ==
  f = [s \in SUBSET S |-> IF s = {} THEN 0
        ELSE w[CHOOSE x \in s : TRUE] + f[s \ {CHOOSE x \in s : TRUE}]]

LEMMA AddsExist ==
  ASSUME NEW S, IsFiniteSet(S), NEW w \in [S -> Nat]
  PROVE  \E f : Adds(f, S, w) /\ f \in [SUBSET S -> Nat]
<1> DEFINE Small(k) == {s \in SUBSET S : Cardinality(s) <= k}
           Right(f, s) == f[s] = IF s = {} THEN 0
                          ELSE w[CHOOSE x \in s : TRUE] + f[s \ {CHOOSE x \in s : TRUE}]
           Partly(f, k) == f \in [Small(k) -> Nat] /\ \A s \in Small(k) : Right(f, s)
           bad == {k \in Nat : ~ \E f : Partly(f, k)}
<1>1. ASSUME NEW s \in SUBSET S
      PROVE  /\ Cardinality(s) \in Nat /\ (Cardinality(s) = 0 <=> s = {})
             /\ Cardinality(s) <= Cardinality(S)
             /\ \A x \in s : s \ {x} \in SUBSET S /\ Cardinality(s \ {x}) = Cardinality(s) - 1
  <2>1. IsFiniteSet(s)
    BY FS_Subset
  <2>2. Cardinality(s) <= Cardinality(S)
    BY FS_Subset
  <2>3. \A x \in s : Cardinality(s \ {x}) = Cardinality(s) - 1
    BY <2>1, FS_RemoveElement
  <2> QED BY <2>1, <2>2, <2>3, FS_CardinalityType, FS_EmptySet
<1>2. \E f : Partly(f, 0)
  <2>1. Small(0) = {{}}
    BY <1>1
  <2> DEFINE f == [s \in Small(0) |-> 0]
  <2>2. f \in [Small(0) -> Nat] /\ \A s \in Small(0) : Right(f, s)
    BY <2>1
  <2> QED BY <2>2
<1>3. ASSUME NEW k \in Nat, NEW f, Partly(f, k) PROVE \E g : Partly(g, k + 1)
  <2> DEFINE g == [s \in Small(k + 1) |->
                    IF s = {} THEN 0
                    ELSE w[CHOOSE x \in s : TRUE] + f[s \ {CHOOSE x \in s : TRUE}]]
  <2>1. ASSUME NEW s \in Small(k + 1), s # {}, NEW x, x = CHOOSE y \in s : TRUE
        PROVE  x \in s /\ s \ {x} \in Small(k) /\ s \ {x} \in Small(k + 1)
    <3>1. x \in s
      BY <2>1
    <3>2. Cardinality(s \ {x}) = Cardinality(s) - 1 /\ Cardinality(s) \in Nat
      BY <1>1, <3>1
    <3> QED BY <3>1, <3>2
  <2>2. g \in [Small(k + 1) -> Nat]
    <3>1. ASSUME NEW s \in Small(k + 1), s # {}
          PROVE  w[CHOOSE x \in s : TRUE] + f[s \ {CHOOSE x \in s : TRUE}] \in Nat
      <4>1. PICK x : x = CHOOSE y \in s : TRUE
        OBVIOUS
      <4>2. x \in S /\ s \ {x} \in Small(k)
        BY <2>1, <3>1, <4>1
      <4>3. w[x] \in Nat /\ f[s \ {x}] \in Nat
        <5> HIDE DEF Small, Right
        <5> QED BY <1>3, <4>2
      <4> QED BY <4>1, <4>3
    <3> HIDE DEF Small
    <3> QED BY <3>1
  <2>3. ASSUME NEW s \in Small(k) PROVE s \in Small(k + 1) /\ g[s] = f[s]
    <3>1. s \in Small(k + 1)
      BY <1>1
    <3>2. Right(f, s)
      BY <1>3
    <3> QED BY <3>1, <3>2
  <2>4. ASSUME NEW s \in Small(k + 1) PROVE Right(g, s)
    <3>1. CASE s = {}
      BY <3>1
    <3>2. CASE s # {}
      <4>1. PICK x : x = CHOOSE y \in s : TRUE
        OBVIOUS
      <4>2. s \ {x} \in Small(k)
        BY <2>1, <3>2, <4>1
      <4>3. g[s \ {x}] = f[s \ {x}]
        BY <2>3, <4>2
      <4>4. g[s] = w[x] + f[s \ {x}]
        <5> HIDE DEF Small
        <5> QED BY <3>2, <4>1
      <4> HIDE DEF g, Small
      <4> QED BY <3>2, <4>1, <4>3, <4>4
    <3> QED BY <3>1, <3>2
  <2> HIDE DEF g, Small, Right
  <2> QED BY <2>2, <2>4
<1>4. bad = {}
  <2> HIDE DEF Partly
  <2> SUFFICES ASSUME bad # {} PROVE FALSE
    OBVIOUS
  <2>1. PICK k \in bad : \A m \in bad : k <= m
    BY LeastNatural
  <2>2. k \in Nat /\ k # 0
    BY <1>2
  <2>3. k - 1 \in Nat /\ k - 1 \notin bad /\ (k - 1) + 1 = k
    BY <2>1, <2>2
  <2> QED BY <1>3, <2>3
<1>5. Cardinality(S) \in Nat
  BY FS_CardinalityType
<1>6. PICK f : Partly(f, Cardinality(S))
  <2> HIDE DEF Partly
  <2> QED BY <1>4, <1>5
<1>7. Small(Cardinality(S)) = SUBSET S
  BY <1>1
<1>8. Adds(f, S, w)
  <2> DEFINE g == [s \in SUBSET S |->
                    IF s = {} THEN 0
                    ELSE w[CHOOSE x \in s : TRUE] + f[s \ {CHOOSE x \in s : TRUE}]]
  <2>1. \A s \in SUBSET S : f[s] = g[s]
    BY <1>6, <1>7
  <2>2. f = [s \in SUBSET S |-> f[s]] /\ g = [s \in SUBSET S |-> g[s]]
    BY <1>6, <1>7
  <2>3. f = g
    <3> HIDE DEF g
    <3> QED BY <2>1, <2>2
  <2> QED BY <2>3 DEF Adds
<1> QED BY <1>6, <1>7, <1>8

\* What is a number at first and remains one with every element is one at last.
LEMMA FoldedNumber ==
  ASSUME NEW S, IsFiniteSet(S), NEW f, f[{}] \in Nat,
         \A s \in SUBSET S : \A x \in s :
           x = (CHOOSE y \in s : TRUE) /\ f[s \ {x}] \in Nat => f[s] \in Nat
  PROVE  f[S] \in Nat
<1> DEFINE wrong == {n \in Nat : \E s \in SUBSET S : Cardinality(s) = n /\ f[s] \notin Nat}
<1>1. wrong = {}
  <2> SUFFICES ASSUME wrong # {} PROVE FALSE
    OBVIOUS
  <2>1. PICK n \in wrong : \A m \in wrong : n <= m
    BY LeastNatural
  <2>2. PICK s \in SUBSET S : Cardinality(s) = n /\ f[s] \notin Nat
    OBVIOUS
  <2>3. s # {}
    BY <2>2
  <2>4. PICK x \in s : x = CHOOSE y \in s : TRUE
    BY <2>3
  <2>5. s \ {x} \in SUBSET S /\ Cardinality(s \ {x}) = n - 1 /\ n - 1 \in Nat
    <3>1. IsFiniteSet(s) /\ IsFiniteSet(s \ {x})
      BY FS_Subset, FS_RemoveElement
    <3>2. Cardinality(s \ {x}) = n - 1
      BY <2>2, <3>1, FS_RemoveElement
    <3> QED BY <3>1, <3>2, FS_CardinalityType
  <2>6. n - 1 \notin wrong
    <3>1. n \in Nat /\ ~(n <= n - 1)
      <4>1. n \in Nat
        OBVIOUS
      <4> HIDE DEF wrong
      <4> QED BY ONLY <4>1
    <3> HIDE DEF wrong
    <3> QED BY <2>1, <3>1
  <2>7. f[s \ {x}] \in Nat
    BY <2>5, <2>6
  <2> HIDE DEF wrong
  <2> QED BY <2>2, <2>4, <2>7
<1>2. Cardinality(S) \in Nat /\ Cardinality(S) \notin wrong
  BY <1>1, FS_CardinalityType
<1> QED BY <1>2

\* The tables of intervals, and the configs with them.
Windows == UNION {[ids -> Nat] : ids \in SUBSET Identities}
SetConfigs ==
  /\ starting \in [Replicas -> Seq(State)] /\ reloads \in [Replicas -> Seq(Call(Windows))]
  /\ internal \in [Replicas -> Config(Windows)] /\ running \in [Replicas -> Config(Windows) \cup {Null}]

LEMMA IntervalsAreNumbers ==
  ASSUME NEW M \in SUBSET Nat, NEW cluster \in Seq(Entry(M))
  PROVE  IdentityIntervals(cluster) \in Windows
<1> DEFINE D == DOMAIN cluster
           ids == {Identity[cluster[i].address] : i \in D}
<1>1. \A i \in D : cluster[i].address \in Replicas /\ cluster[i].interval \in Nat
  <2> TAKE i \in D
  <2>1. cluster[i] \in Entry(M)
    OBVIOUS
  <2> QED BY <2>1 DEF Entry
<1>2. ids \in SUBSET Identities
  BY <1>1 DEF Identities
<1>3. IsFiniteSet(D)
  <2>1. D = 1..Len(cluster) /\ Len(cluster) \in Nat
    OBVIOUS
  <2> HIDE DEF D
  <2> QED BY <2>1, FS_Interval
<1>4. ASSUME NEW id
      PROVE  FoldSeq(LAMBDA m, sum : IF Identity[m.address] = id THEN sum + m.interval ELSE sum,
                     0, cluster) \in Nat
  <2> DEFINE w == [i \in D |-> IF Identity[cluster[i].address] = id THEN cluster[i].interval ELSE 0]
             Folds(g) == g = [s \in SUBSET D |->
               IF s = {} THEN 0
               ELSE IF Identity[cluster[CHOOSE x \in s : TRUE].address] = id
                    THEN g[s \ {CHOOSE x \in s : TRUE}] + cluster[CHOOSE x \in s : TRUE].interval
                    ELSE g[s \ {CHOOSE x \in s : TRUE}]]
  <2>1. w \in [D -> Nat]
    BY <1>1
  <2>2. \E g : Folds(g)
    <3>1. PICK g : Adds(g, D, w) /\ g \in [SUBSET D -> Nat]
      <4> HIDE DEF D, w
      <4> QED BY <1>3, <2>1, AddsExist
    <3> DEFINE h == [s \in SUBSET D |->
               IF s = {} THEN 0
               ELSE IF Identity[cluster[CHOOSE x \in s : TRUE].address] = id
                    THEN g[s \ {CHOOSE x \in s : TRUE}] + cluster[CHOOSE x \in s : TRUE].interval
                    ELSE g[s \ {CHOOSE x \in s : TRUE}]]
    <3>2. ASSUME NEW s \in SUBSET D PROVE g[s] = h[s]
      <4>1. CASE s = {}
        BY <3>1, <4>1 DEF Adds
      <4>2. CASE s # {}
        <5>1. PICK x \in s : x = CHOOSE y \in s : TRUE
          BY <4>2
        <5>2. g[s] = w[x] + g[s \ {x}]
          BY <3>1, <4>2, <5>1 DEF Adds
        <5>3. h[s] = IF Identity[cluster[x].address] = id THEN g[s \ {x}] + cluster[x].interval
                                                         ELSE g[s \ {x}]
          BY <4>2, <5>1
        <5>4. g[s \ {x}] \in Nat /\ cluster[x].interval \in Nat
          BY <1>1, <3>1
        <5>5. w[x] = IF Identity[cluster[x].address] = id THEN cluster[x].interval ELSE 0
          OBVIOUS
        <5> HIDE DEF h, w, D
        <5> QED BY <5>2, <5>3, <5>4, <5>5
      <4> QED BY <4>1, <4>2
    <3>3. g = h
      <4>1. g = [s \in SUBSET D |-> g[s]] /\ h = [s \in SUBSET D |-> h[s]]
        BY <3>1
      <4> HIDE DEF h
      <4> QED BY <3>2, <4>1
    <3> QED BY <3>3
  <2>3. PICK f : f = CHOOSE g : Folds(g)
    OBVIOUS
  <2>4. FoldSeq(LAMBDA m, sum : IF Identity[m.address] = id THEN sum + m.interval ELSE sum,
                0, cluster) = f[D]
    BY <2>3 DEF FoldSeq, FoldFunction, FoldFunctionOnSet, MapThenFoldSet
  <2>5. Folds(f)
    <3> HIDE DEF Folds
    <3> QED BY <2>2, <2>3
  <2>6. f[D] \in Nat
    <3>1. f[{}] = 0
      BY <2>5
    <3>2. ASSUME NEW s \in SUBSET D, NEW x \in s, x = CHOOSE y \in s : TRUE, f[s \ {x}] \in Nat
          PROVE  f[s] \in Nat
      <4>1. s # {}
        OBVIOUS
      <4>2. f[s] = IF Identity[cluster[x].address] = id THEN f[s \ {x}] + cluster[x].interval
                                                       ELSE f[s \ {x}]
        BY <2>5, <3>2, <4>1
      <4>3. cluster[x].interval \in Nat
        BY <1>1
      <4> HIDE DEF Folds, D
      <4> QED BY <3>2, <4>2, <4>3
    <3>3. \A s \in SUBSET D : \A x \in s :
            x = (CHOOSE y \in s : TRUE) /\ f[s \ {x}] \in Nat => f[s] \in Nat
      BY <3>2
    <3>4. f[{}] \in Nat
      BY <3>1
    <3> HIDE DEF Folds, D, w
    <3> QED BY ONLY <1>3, <3>3, <3>4, FoldedNumber
  <2> QED BY <2>4, <2>6
<1>5. IdentityIntervals(cluster) \in [ids -> Nat]
  <2> DEFINE sum(id) == FoldSeq(LAMBDA m, acc : IF Identity[m.address] = id THEN acc + m.interval ELSE acc,
                                0, cluster)
  <2>1. \A id : sum(id) \in Nat
    BY <1>4
  <2>2. IdentityIntervals(cluster) = [id \in ids |-> sum(id)]
    BY DEF IdentityIntervals
  <2> HIDE DEF sum, ids, D
  <2> QED BY <2>1, <2>2
<1> HIDE DEF ids, D
<1> QED BY <1>2, <1>5 DEF Windows

LEMMA TypeNames ==
  /\ Multipliers \in SUBSET (Nat \ {0}) /\ 1 \in Multipliers
  /\ Member = Entry(Multipliers) /\ State = StateOf(Multipliers) /\ Message = Post(Multipliers)
<1>1. Multipliers \in SUBSET (Nat \ {0}) /\ 1 \in Multipliers
  BY BoundsAssumption DEF Multipliers
<1>2. Member = Entry(Multipliers)
  BY DEF Member
<1> QED BY <1>1, <1>2 DEF State, Message

LEMMA IndexTyped ==
  ASSUME NEW a, NEW S, NEW list \in Seq(S)
  PROVE  Len(list) \in Nat /\ IndexOf(a, list) \in Nat \cup {-1}
<1>1. CASE a \in Elements(list)
  <2>1. IndexOf(a, list) \in 0..(Len(list) - 1)
    BY <1>1, SeqIsSeq, FirstIndex
  <2> QED BY <2>1
<1>2. CASE a \notin Elements(list)
  <2>1. IndexOf(a, list) = -1
    BY <1>2 DEF IndexOf, Elements
  <2> QED BY <2>1
<1> QED BY <1>1, <1>2

LEMMA NormalizedConfig ==
  ASSUME NEW r, NEW state, state.clusterMembers \in Seq(Member),
         state.replicaMembers \in Seq(Replicas) \cup {Null},
         state.rateLimitMultiplier \in Multipliers \cup {Null}
  PROVE  NormalizeState(r, state) \in NewConfig(Windows)
<1>1. PICK list : list = state.replicaMembers
  OBVIOUS
<1>2. list # Null => Len(list) \in Nat /\ IndexOf(r, list) \in Nat \cup {-1}
  BY <1>1, IndexTyped
<1>3. IdentityIntervals(state.clusterMembers) \in Windows
  BY TypeNames, IntervalsAreNumbers
<1> HIDE DEF Windows
<1> QED BY <1>1, <1>2, <1>3 DEF NormalizeState, NewConfig

LEMMA ConfigTaken ==
  ASSUME NEW old \in Config(Windows), NEW c \in NewConfig(Windows)
  PROVE  SetDynamicConfig(old, c) \in Config(Windows)
<1>1. PICK new : new = SetDynamicConfig(old, c)
  OBVIOUS
<1>2. new = [f \in ConfigFields |-> IF c[f] = Null THEN old[f] ELSE c[f]]
  BY <1>1 DEF SetDynamicConfig, Overlay, Config, ConfigFields
<1>3. /\ new.replicaSize = IF c.replicaSize = Null THEN old.replicaSize ELSE c.replicaSize
      /\ new.instancePosition =
           IF c.instancePosition = Null THEN old.instancePosition ELSE c.instancePosition
      /\ new.rateLimitMultiplier =
           IF c.rateLimitMultiplier = Null THEN old.rateLimitMultiplier ELSE c.rateLimitMultiplier
      /\ new.clusterMembers = IF c.clusterMembers = Null THEN old.clusterMembers ELSE c.clusterMembers
  BY <1>2 DEF ConfigFields
<1>4. /\ new.replicaSize \in Nat /\ new.instancePosition \in Nat \cup {-1}
      /\ new.rateLimitMultiplier \in Multipliers /\ new.clusterMembers \in Windows \cup {Null}
  BY <1>3 DEF Config, NewConfig
<1>5. new = [replicaSize |-> new.replicaSize, instancePosition |-> new.instancePosition,
             rateLimitMultiplier |-> new.rateLimitMultiplier, clusterMembers |-> new.clusterMembers]
  BY <1>2 DEF ConfigFields
<1> QED BY <1>1, <1>4, <1>5 DEF Config

LEMMA ListTyped ==
  ASSUME NEW S, NEW list, IsSeq(list), Elements(list) \subseteq S
  PROVE  list \in Seq(S)
<1>1. list \in Seq(Elements(list))
  BY DEF IsSeq, Elements
<1> QED BY <1>1, SeqMonotonic

LEMMA SharedTyped ==
  ASSUME NEW r \in Replicas, NEW shares \in Seq(Message),
         \A i \in DOMAIN shares : shares[i].type = "SHARE",
         NEW mult \in Multipliers, NEW state, state = ShareState(r, shares, mult)
  PROVE  /\ state.replicaMembers \in Seq(Replicas) \cup {Null}
         /\ state.rateLimitMultiplier \in Multipliers \cup {Null}
         /\ state.clusterMembers \in Seq(Member) \cup {Null}
<1>1. IsSeq(shares)
  BY SeqIsSeq
<1>2. ASSUME NEW m \in Elements(shares)
      PROVE  /\ m.replicaMembers \in Seq(Replicas) /\ m.rateLimitMultiplier \in Multipliers
             /\ m.clusterMembers \in Seq(Member)
  <2>1. m \in Message /\ m.type = "SHARE"
    BY DEF Elements
  <2> QED BY <2>1 DEF Message, Post, Member
<1>3. state.replicaMembers \in Seq(Replicas) \cup {Null}
  <2> SUFFICES ASSUME state.replicaMembers # Null PROVE state.replicaMembers \in Seq(Replicas)
    OBVIOUS
  <2>1. PICK window, rate : window = shares /\ rate = mult
    OBVIOUS
  <2>2. IsSeq(window) /\ state = ShareState(r, window, rate) /\ state.replicaMembers # Null
    BY <1>1, <2>1
  <2>3. PICK m \in Elements(window) :
          /\ m.from \in Peers(r)
          /\ state.replicaMembers = m.replicaMembers /\ r \in Elements(state.replicaMembers)
    BY ONLY <2>2, SharedReplicas
  <2> QED BY <1>2, <2>1, <2>3
<1>4. state.rateLimitMultiplier \in Multipliers \cup {Null}
  BY <1>1, <1>2, TypeNames, SharedRate DEF Rates
<1>5. UniqueClusterMembers(shares) \in Seq(Member)
  <2>1. ASSUME NEW m \in Elements(shares)
        PROVE  IsSeq(m.clusterMembers) /\ Elements(m.clusterMembers) \subseteq Entry(Multipliers)
    <3>1. m.clusterMembers \in Seq(Member)
      BY <1>2
    <3> QED BY <3>1, TypeNames, SeqIsSeq DEF Elements
  <2> QED BY <1>1, <2>1, TypeNames, SharedMembers DEF Shares
<1>6. state.clusterMembers \in {UniqueClusterMembers(shares), Null}
  BY DEF ShareState
<1> QED BY <1>3, <1>4, <1>5, <1>6

LEMMA RemovedTyped ==
  ASSUME NEW r, NEW closes, NEW m \in ListsType
  PROVE  RemoveClosed(r, closes, m) \in ListsType
<1>1. PICK left : left = RemoveClosed(r, closes, m)
  OBVIOUS
<1>2. m.replicaMembers \in Seq(Replicas) /\ m.clusterMembers \in Seq(Member)
  BY DEF ListsType
<1>3. IsSeq(m.replicaMembers) /\ IsSeq(m.clusterMembers)
  BY <1>2, SeqIsSeq
<1>4. left.replicaMembers \in Seq(Replicas)
  <2>1. /\ IsSeq(left.replicaMembers)
        /\ Elements(left.replicaMembers) = Elements(m.replicaMembers) \ (Closers(closes) \cap Peers(r))
    BY <1>1, <1>3, RemovedReplicas
  <2>2. Elements(m.replicaMembers) \subseteq Replicas
    BY <1>2 DEF Elements
  <2> QED BY <2>1, <2>2, ListTyped
<1>5. left.clusterMembers \in Seq(Member)
  <2>1. PICK list : list = m.clusterMembers /\ IsSeq(list)
    BY <1>3
  <2>2. PICK keep : keep = {i \in DOMAIN list : list[i].address \notin Closers(closes)}
    OBVIOUS
  <2>3. PICK parts : parts = [i \in DOMAIN list |-> IF i \in keep THEN <<list[i]>> ELSE <<>>]
    OBVIOUS
  <2>4. parts = [i \in DOMAIN list |->
                   IF list[i].address \notin Closers(closes) THEN <<list[i]>> ELSE <<>>]
    BY <2>2, <2>3
  <2>5. left.clusterMembers = FlattenSeq(parts)
    BY <1>1, <2>1, <2>4 DEF RemoveClosed, Filter
  <2>6. keep \in SUBSET DOMAIN list
    BY <2>2
  <2>7. IsSeq(FlattenSeq(parts)) /\ Elements(FlattenSeq(parts)) = {list[i] : i \in keep}
    <3>1. IsSeq(list)
      BY <2>1
    <3> QED BY ONLY <2>3, <2>6, <3>1, KeptElements
  <2>8. {list[i] : i \in keep} \subseteq Member
    BY <1>2, <2>1, <2>6
  <2> QED BY <2>5, <2>7, <2>8, ListTyped
<1>6. left = [replicaMembers |-> left.replicaMembers, clusterMembers |-> left.clusterMembers]
  BY <1>1 DEF RemoveClosed
<1> QED BY <1>1, <1>4, <1>5, <1>6 DEF ListsType


\* The timer of the answers runs only while there are answers.
Gathering == \A r \in Replicas : timer[r].STATUS # Off => buffer[r].STATUS # <<>>
TypeInv ==
  TypedMail /\ Gathering /\ TypedTimers /\ TypedLists /\ SetConfigs /\ TypedBackoff /\ TypedLife

LEMMA TypeParts == IInv /\ TypeInv => TypeOK
<1> SUFFICES ASSUME IInv, TypeInv PROVE TypeOK
  OBVIOUS
<1>1. ASSUME NEW c \in Config(Windows) PROVE \E ids \in SUBSET Identities : c \in Config([ids -> Nat])
  <2>1. \E ids \in SUBSET Identities : c.clusterMembers \in [ids -> Nat] \cup {Null}
    BY DEF Config, Windows
  <2> QED BY <2>1 DEF Config
<1>2. ASSUME NEW c \in Call(Windows) PROVE \E ids \in SUBSET Identities : c \in Call([ids -> Nat])
  <2>1. c.config \in NewConfig(Windows)
    BY DEF Call
  <2>2. PICK ids \in SUBSET Identities : c.config.clusterMembers \in [ids -> Nat] \cup {Null}
    BY <2>1 DEF NewConfig, Windows
  <2>3. c.config \in NewConfig([ids -> Nat])
    BY <2>1, <2>2 DEF NewConfig
  <2> QED BY <2>3 DEF Call
<1>3. ASSUME NEW r \in Replicas
      PROVE  /\ \E ids \in SUBSET Identities : internal[r] \in Config([ids -> Nat])
             /\ \E ids \in SUBSET Identities : running[r] \in Config([ids -> Nat]) \cup {Null}
  <2>1. internal[r] \in Config(Windows) /\ running[r] \in Config(Windows) \cup {Null}
    BY DEF TypeInv, SetConfigs
  <2>2. {} \in SUBSET Identities
    OBVIOUS
  <2> QED BY <1>1, <2>1, <2>2
<1>4. ASSUME NEW r \in Replicas, NEW i \in DOMAIN reloads[r]
      PROVE  \E ids \in SUBSET Identities : reloads[r][i] \in Call([ids -> Nat])
  <2>1. reloads[r] \in Seq(Call(Windows))
    BY DEF TypeInv, SetConfigs
  <2>2. reloads[r][i] \in Call(Windows)
    BY <2>1
  <2> QED BY <1>2, <2>2
<1>5. TypedConfigs
  BY <1>3, <1>4 DEF IInv, LockInv, TypeInv, SetConfigs, TypedConfigs
<1> QED BY <1>5 DEF TypeOK, IInv, LockInv, ListInv, TypeInv

LEMMA InitTypes == Init => TypeInv
<1> SUFFICES ASSUME Init PROVE TypeInv
  OBVIOUS
<1>1. TypedMail
  BY DEF Init, TypedMail
<1>2. TypedTimers /\ Gathering
  <2>1. PhaseDelay \in Nat /\ InitDelay \in 0..PhaseDelay
    BY DelaysAssumption
  <2>2. NoTimers \in [Timers -> Off..PhaseDelay] /\ NoTimers.STATUS = Off
    BY <2>1 DEF NoTimers, Timers, Off, Buffered
  <2>3. /\ [NoTimers EXCEPT !.GREET = InitDelay] \in [Timers -> Off..PhaseDelay]
        /\ [NoTimers EXCEPT !.GREET = InitDelay].STATUS = Off
    BY <2>1, <2>2 DEF Timers, Buffered, Off
  <2> QED BY <2>2, <2>3 DEF Init, TypedTimers, Gathering
<1>3. TypedLists
  <2>1. [l \in Lists |-> <<>>] = [replicaMembers |-> <<>>, clusterMembers |-> <<>>]
    BY DEF Lists
  <2>2. [replicaMembers |-> <<>>, clusterMembers |-> <<>>] \in ListsType
    BY DEF ListsType
  <2> QED BY <2>1, <2>2 DEF Init, TypedLists
<1>4. DefaultConfig \in Config(Windows)
  BY TypeNames DEF DefaultConfig, Config
<1>5. SetConfigs
  BY <1>4 DEF Init, SetConfigs
<1>6. TypedBackoff
  BY DEF Init, TypedBackoff
<1>7. TypedLife
  <2>1. PICK t \in Trials : budget = [rounds |-> MaxRounds, failures |-> t.failures, late |-> t.late]
    BY DEF Init
  <2>2. t.late \in SUBSET {"HELLO", "STATUS", "SHARE", "CLOSE"} /\ t.failures \in Nat /\ MaxRounds \in 0..MaxRounds
    BY BoundsAssumption
  <2> QED BY <2>1, <2>2 DEF Init, TypedLife
<1> QED BY <1>1, <1>2, <1>3, <1>5, <1>6, <1>7 DEF TypeInv

LEMMA DelaysTyped ==
  /\ PhaseDelay \in Nat /\ Off \in Off..PhaseDelay
  /\ InitDelay \in Off..PhaseDelay /\ PhaseDelay \in Off..PhaseDelay
  /\ \A type : DebounceDelay(type) \in Off..PhaseDelay
BY DelaysAssumption DEF DebounceDelay, Off

LEMMA BroadcastTyped ==
  ASSUME TypedMail, NEW r \in Replicas, NEW msg \in Message
  PROVE  Broadcast(r, msg) \in [Replicas -> [Replicas -> Seq(Message)]]
<1>1. ASSUME NEW d \in Replicas
      PROVE  [chan[d] EXCEPT ![r] = Append(@, msg)] \in [Replicas -> Seq(Message)]
  <2>1. chan[d] \in [Replicas -> Seq(Message)] /\ Append(chan[d][r], msg) \in Seq(Message)
    BY DEF TypedMail
  <2> QED BY <2>1
<1> QED BY <1>1 DEF Broadcast, TypedMail

\* A timer other than that of the answers is set.
LEMMA TimerTyped ==
  ASSUME TypedTimers, Gathering, NEW r \in Replicas, NEW t, t # "STATUS", NEW d \in Off..PhaseDelay,
         timer' = timer \/ timer' = [timer EXCEPT ![r][t] = d],
         \A x \in Replicas : buffer'[x].STATUS = buffer[x].STATUS
  PROVE  TypedTimers' /\ Gathering'
<1>1. CASE timer' = timer
  BY <1>1 DEF TypedTimers, Gathering
<1>2. CASE timer' = [timer EXCEPT ![r][t] = d]
  <2>1. timer[r] \in [Timers -> Off..PhaseDelay]
    BY DEF TypedTimers
  <2>2. timer' = [timer EXCEPT ![r] = [timer[r] EXCEPT ![t] = d]]
    BY <1>2
  <2>3. [timer[r] EXCEPT ![t] = d] \in [Timers -> Off..PhaseDelay]
    BY <2>1
  <2>4. TypedTimers'
    BY <2>2, <2>3 DEF TypedTimers
  <2>5. "STATUS" \in Timers
    BY DEF Timers, Buffered
  <2>6. \A x \in Replicas : timer'[x].STATUS = timer[x].STATUS
    BY <2>1, <2>2, <2>5 DEF TypedTimers
  <2> QED BY <2>4, <2>6 DEF Gathering
<1> QED BY <1>1, <1>2

LEMMA LifecycleTypes ==
  ASSUME TypeInv, NEW r \in Replicas, Boot(r) \/ Resync(r) \/ RateLimitExceeded(r)
  PROVE  TypeInv'
<1>1. UNCHANGED <<chan, buffer, members, starting, reloads, internal, running, backoff>>
  BY DEF Boot, Resync, RateLimitExceeded, roundVars, schedVars
<1>2. TypedMail' /\ TypedLists' /\ SetConfigs'
  BY <1>1 DEF TypeInv, TypedMail, TypedLists, SetConfigs
<1>3. TypedTimers' /\ Gathering'
  <2>1. timer' = timer \/ timer' = [timer EXCEPT ![r]["GREET"] = InitDelay]
    BY DEF Boot, Resync, RateLimitExceeded, roundVars
  <2> QED BY <1>1, <2>1, DelaysTyped, TimerTyped DEF TypeInv
<1>4. TypedBackoff'
  <2>1. CASE UNCHANGED limits
    BY <1>1, <2>1 DEF TypeInv, TypedBackoff
  <2>2. CASE ~UNCHANGED limits
    <3>1. PICK multiplier : multiplier = running[r].rateLimitMultiplier + 1
      OBVIOUS
    <3>2. /\ running[r] # Null /\ multiplier <= MaxMultiplier
          /\ limits' = [d \in Replicas |-> IF Up(d) /\ backoff[d] # "off" THEN Append(limits[d], multiplier)
                                                                         ELSE limits[d]]
      BY <2>2, <3>1 DEF Boot, Resync, RateLimitExceeded, schedVars
    <3>3. multiplier \in Multipliers
      <4>1. running[r] \in Config(Windows)
        BY <3>2 DEF TypeInv, SetConfigs
      <4>2. running[r].rateLimitMultiplier \in 1..MaxMultiplier
        BY <4>1 DEF Config, Multipliers
      <4> QED BY <3>1, <3>2, <4>2, BoundsAssumption DEF Multipliers
    <3>4. \A d \in Replicas : limits[d] \in Seq(Multipliers) /\ Append(limits[d], multiplier) \in Seq(Multipliers)
      BY <3>3 DEF TypeInv, TypedBackoff
    <3> QED BY <1>1, <3>2, <3>4 DEF TypeInv, TypedBackoff
  <2> QED BY <2>1, <2>2
<1>5. TypedLife'
  <2>1. life' \in [Replicas -> {"off", "up", "failing", "gone"}] /\ missed' = missed
    BY DEF Boot, Resync, RateLimitExceeded, Fail, bookVars, TypeInv, TypedLife
  <2>2. \/ budget' = budget
        \/ budget.rounds > 0 /\ budget' = [budget EXCEPT !.rounds = budget.rounds - 1]
        \/ budget.failures > 0 /\ budget' = [budget EXCEPT !.failures = budget.failures - 1]
    BY DEF Boot, Resync, RateLimitExceeded, bookVars
  <2>3. budget.rounds \in 0..MaxRounds /\ budget.failures \in Nat /\ MaxRounds \in Nat
    BY BoundsAssumption DEF TypeInv, TypedLife
  <2>4. /\ budget.rounds > 0 => budget.rounds - 1 \in 0..MaxRounds
        /\ budget.failures > 0 => budget.failures - 1 \in Nat
    BY <2>3
  <2>5. budget' \in [rounds : 0..MaxRounds, failures : Nat, late : SUBSET {"HELLO", "STATUS", "SHARE", "CLOSE"}]
    BY <2>2, <2>4 DEF TypeInv, TypedLife
  <2> QED BY <2>1, <2>5 DEF TypeInv, TypedLife
<1> QED BY <1>2, <1>3, <1>4, <1>5 DEF TypeInv

LEMMA QuietTypes ==
  ASSUME TypeInv, NEW r \in Replicas,
         \/ Greet(r) \/ ShareDue(r) \/ CloseDue(r) \/ PhaseTimeout(r) \/ BackoffStart(r)
         \/ SayHello(r, "HELLO") \/ SayHello(r, "CLUSTER") \/ UNCHANGED vars
  PROVE  TypeInv'
<1>1. UNCHANGED <<buffer, members, starting, reloads, internal, running, limits, budget>>
  BY DEF Greet, ShareDue, CloseDue, AwaitPhase, PhaseTimeout, BackoffStart, SayHello, roundVars,
         schedVars, bookVars, vars
<1>2. TypedLists' /\ SetConfigs'
  BY <1>1 DEF TypeInv, TypedLists, SetConfigs
<1>3. TypedMail'
  <2>1. chan' = chan \/ chan' = Broadcast(r, HelloMsg(r))
    BY DEF Greet, ShareDue, CloseDue, AwaitPhase, PhaseTimeout, BackoffStart, SayHello, vars
  <2>2. HelloMsg(r) \in Message
    BY DEF HelloMsg, Message, Post
  <2>3. chan' \in [Replicas -> [Replicas -> Seq(Message)]]
    BY <2>1, <2>2, BroadcastTyped DEF TypeInv, TypedMail
  <2> QED BY <1>1, <2>3 DEF TypeInv, TypedMail
<1>4. TypedTimers' /\ Gathering'
  <2>1. \E t \in {"GREET", "SHARE", "CLOSE", "PHASE"} : \E d \in {Off, PhaseDelay} :
          timer' = timer \/ timer' = [timer EXCEPT ![r][t] = d]
    BY DEF Greet, ShareDue, CloseDue, AwaitPhase, PhaseTimeout, BackoffStart, SayHello, roundVars, vars
  <2> QED BY <1>1, <2>1, DelaysTyped, TimerTyped DEF TypeInv
<1>5. TypedBackoff'
  <2>1. backoff' = backoff \/ backoff' = [backoff EXCEPT ![r] = "idle"]
    BY DEF Greet, ShareDue, CloseDue, AwaitPhase, PhaseTimeout, BackoffStart, SayHello, schedVars, vars
  <2> QED BY <1>1, <2>1 DEF TypeInv, TypedBackoff
<1>6. TypedLife'
  <2>1. /\ life' = life \/ life' = [life EXCEPT ![r] = "failing"]
        /\ missed' = missed \/ missed' = missed \ Peers(r)
    BY DEF Greet, ShareDue, CloseDue, AwaitPhase, PhaseTimeout, Fail, BackoffStart, SayHello, bookVars, vars
  <2> QED BY <1>1, <2>1 DEF TypeInv, TypedLife
<1> QED BY <1>2, <1>3, <1>4, <1>5, <1>6 DEF TypeInv

LEMMA TickTypes ==
  ASSUME TypeInv, Tick
  PROVE  TypeInv'
<1>1. UNCHANGED <<life, chan, buffer, members, starting, reloads, internal, running, backoff,
                  limits, budget, missed>>
  BY DEF Tick, schedVars, bookVars
<1>2. timer' = [r \in Replicas |->
         [t \in DOMAIN timer[r] |-> IF timer[r][t] > 0 THEN timer[r][t] - 1 ELSE timer[r][t]]]
  BY DEF Tick
<1>3. \A r \in Replicas : timer[r] \in [Timers -> Off..PhaseDelay] /\ "STATUS" \in Timers
  BY DEF TypeInv, TypedTimers, Timers, Buffered
<1>4. \A d \in Off..PhaseDelay : /\ (IF d > 0 THEN d - 1 ELSE d) \in Off..PhaseDelay
                                 /\ (IF d > 0 THEN d - 1 ELSE d) # Off => d # Off
  BY DelaysTyped DEF Off
<1>5. ASSUME NEW r \in Replicas
      PROVE  timer'[r] \in [Timers -> Off..PhaseDelay] /\ (timer'[r].STATUS # Off => timer[r].STATUS # Off)
  BY <1>2, <1>3, <1>4
<1>6. TypedTimers' /\ Gathering'
  <2>1. timer' = [r \in Replicas |-> timer'[r]]
    BY <1>2
  <2> QED BY <1>1, <1>5, <2>1 DEF TypeInv, TypedTimers, Gathering
<1>7. TypedMail' /\ TypedLists' /\ SetConfigs' /\ TypedBackoff' /\ TypedLife'
  BY <1>1 DEF TypeInv, TypedMail, TypedLists, SetConfigs, TypedBackoff, TypedLife
<1> QED BY <1>6, <1>7 DEF TypeInv

LEMMA ForgetTypes ==
  ASSUME TypeInv, NEW r \in Replicas, Forget(r), missed' = missed \/ missed' = missed \cup {r},
         NEW left, left = chan \/ left = Broadcast(r, CloseMsg(r)),
         chan' = [left EXCEPT ![r] = [s \in Replicas |-> <<>>]]
  PROVE  TypeInv'
<1>1. TypedMail' /\ Gathering'
  <2>1. left \in [Replicas -> [Replicas -> Seq(Message)]]
    <3>1. CloseMsg(r) \in Message
      BY DEF CloseMsg, Message, Post
    <3> QED BY <3>1, BroadcastTyped DEF TypeInv, TypedMail
  <2>2. chan' \in [Replicas -> [Replicas -> Seq(Message)]]
    <3>1. [s \in Replicas |-> <<>>] \in [Replicas -> Seq(Message)]
      OBVIOUS
    <3> QED BY <2>1, <3>1
  <2>3. buffer' = [buffer EXCEPT ![r] = [t \in Buffered |-> <<>>]] /\ timer' = [timer EXCEPT ![r] = NoTimers]
    BY DEF Forget
  <2>4. buffer' \in [Replicas -> [Buffered -> Seq(Message)]]
    <3>1. [t \in Buffered |-> <<>>] \in [Buffered -> Seq(Message)]
      OBVIOUS
    <3> QED BY <2>3, <3>1 DEF TypeInv, TypedMail
  <2>5. \A x \in Replicas : buffer'[x] = IF x = r THEN [t \in Buffered |-> <<>>] ELSE buffer[x]
    BY <2>3 DEF TypeInv, TypedMail
  <2>6. \A x \in Replicas : timer'[x] = IF x = r THEN NoTimers ELSE timer[x]
    BY <2>3 DEF TypeInv, TypedTimers
  <2>7. Gathering'
    <3>1. NoTimers.STATUS = Off
      BY DEF NoTimers, Buffered
    <3> QED BY <2>5, <2>6, <3>1 DEF TypeInv, Gathering
  <2>8. TypedMail'
    <3>1. ASSUME NEW x \in Replicas, NEW t \in Buffered, NEW i \in DOMAIN buffer'[x][t]
          PROVE  buffer'[x][t][i].type = t
      <4>1. buffer'[x][t] = <<>> \/ buffer'[x] = buffer[x]
        BY <2>5
      <4> QED BY <4>1 DEF TypeInv, TypedMail
    <3> QED BY <2>2, <2>4, <3>1 DEF TypedMail
  <2> QED BY <2>7, <2>8
<1>2. TypedTimers'
  <2>1. NoTimers \in [Timers -> Off..PhaseDelay]
    BY DelaysTyped DEF NoTimers, Timers
  <2> QED BY <2>1 DEF Forget, TypeInv, TypedTimers
<1>3. TypedLists'
  <2>1. [l \in Lists |-> <<>>] = [replicaMembers |-> <<>>, clusterMembers |-> <<>>]
    BY DEF Lists
  <2>2. [replicaMembers |-> <<>>, clusterMembers |-> <<>>] \in ListsType
    BY DEF ListsType
  <2> QED BY <2>1, <2>2 DEF Forget, TypeInv, TypedLists
<1>4. SetConfigs'
  <2>1. DefaultConfig \in Config(Windows)
    BY TypeNames DEF DefaultConfig, Config
  <2> QED BY <2>1 DEF Forget, TypeInv, SetConfigs
<1>5. TypedBackoff' /\ TypedLife'
  BY DEF Forget, TypeInv, TypedBackoff, TypedLife
<1> QED BY <1>1, <1>2, <1>3, <1>4, <1>5 DEF TypeInv

\* One of the buffers is emptied; if it is that of the answers, so is its timer.
LEMMA EmptiedTyped ==
  ASSUME TypeInv, NEW r \in Replicas, NEW t \in Buffered, buffer' = [buffer EXCEPT ![r][t] = <<>>],
         chan' \in [Replicas -> [Replicas -> Seq(Message)]],
         IF t = "STATUS" THEN \E left \in [Timers -> Off..PhaseDelay] :
                                left.STATUS = Off /\ timer' = [timer EXCEPT ![r] = left]
                         ELSE timer' = timer
  PROVE  TypedMail' /\ TypedTimers' /\ Gathering'
<1>1. buffer \in [Replicas -> [Buffered -> Seq(Message)]]
  BY DEF TypeInv, TypedMail
<1>2. ASSUME NEW z \in Replicas, NEW u \in Buffered
      PROVE  buffer'[z][u] = IF z = r /\ u = t THEN <<>> ELSE buffer[z][u]
  BY <1>1
<1>3. buffer' \in [Replicas -> [Buffered -> Seq(Message)]]
  <2>1. [buffer[r] EXCEPT ![t] = <<>>] \in [Buffered -> Seq(Message)]
    BY <1>1
  <2> QED BY <1>1, <2>1
<1>4. TypedMail'
  <2>1. ASSUME NEW z \in Replicas, NEW u \in Buffered, NEW i \in DOMAIN buffer'[z][u]
        PROVE  buffer'[z][u][i].type = u
    BY <1>2 DEF TypeInv, TypedMail
  <2> QED BY <1>3, <2>1 DEF TypedMail
<1>6. CASE t = "STATUS"
  <2>1. PICK left \in [Timers -> Off..PhaseDelay] :
          left.STATUS = Off /\ timer' = [timer EXCEPT ![r] = left]
    BY <1>6
  <2>2. \A z \in Replicas : timer'[z] = IF z = r THEN left ELSE timer[z]
    BY <2>1 DEF TypeInv, TypedTimers
  <2>3. TypedTimers'
    BY <2>1 DEF TypeInv, TypedTimers
  <2>4. "STATUS" \in Buffered
    BY DEF Buffered
  <2>5. Gathering'
    BY <1>2, <2>1, <2>2, <2>4 DEF TypeInv, Gathering
  <2> QED BY <1>4, <2>3, <2>5
<1>7. CASE t # "STATUS"
  <2>1. "STATUS" \in Buffered
    BY DEF Buffered
  <2>2. TypedTimers' /\ Gathering'
    BY <1>2, <1>7, <2>1 DEF TypeInv, TypedTimers, Gathering
  <2> QED BY <1>4, <2>2
<1> QED BY <1>6, <1>7

LEMMA AnswersTyped ==
  ASSUME TypeInv, NEW r \in Replicas, timer[r].STATUS = 0,
         NEW state, state = AggregateState(r, buffer[r].STATUS)
  PROVE  state \in State
<1>1. PICK statuses : statuses = buffer[r].STATUS
  OBVIOUS
<1>2. statuses \in Seq(Message) /\ \A i \in DOMAIN statuses : statuses[i].type = "STATUS"
  BY <1>1 DEF TypeInv, TypedMail, Buffered
<1>3. statuses # <<>>
  BY <1>1 DEF TypeInv, Gathering, Off
<1>4. IsSeq(statuses) /\ Elements(statuses) # {}
  <2>1. IsSeq(statuses)
    BY <1>2, SeqIsSeq
  <2>2. Elements(statuses) = {Head(statuses)} \cup Elements(Tail(statuses))
    BY <1>3, <2>1, ElementsTail
  <2> QED BY <2>1, <2>2
<1>5. ASSUME NEW m \in Elements(statuses)
      PROVE  m.rateLimitMultiplier \in Multipliers /\ m.interval \in Multipliers
  <2>1. m \in Message /\ m.type = "STATUS"
    BY <1>2 DEF Elements
  <2> QED BY <2>1 DEF Message, Post
<1>6. state = AggregateState(r, statuses)
  BY <1>1
<1>7. state \in StateOf(Multipliers)
  BY <1>4, <1>5, <1>6, TypeNames, AggregatedRates
<1> QED BY <1>7, TypeNames

LEMMA ShareTyped ==
  ASSUME NEW r \in Replicas, NEW state \in State
  PROVE  /\ ShareMsg(r, state) \in Message
         /\ NormalizeState(r, state) \in NewConfig(Windows)
<1>1. ShareMsg(r, state) \in Message
  BY TypeNames, PostWritten
<1>2. NormalizeState(r, state) \in NewConfig(Windows)
  BY NormalizedConfig DEF State, StateOf, Member
<1> QED BY <1>1, <1>2

LEMMA StatusDueTypes ==
  ASSUME IInv, TypeInv, NEW r \in Replicas, StatusDue(r)
  PROVE  TypeInv'
<1>1. /\ Up(r) /\ timer[r].STATUS = 0
      /\ buffer' = [buffer EXCEPT ![r]["STATUS"] = <<>>]
      /\ UNCHANGED <<life, reloads, running, backoff, limits, budget, missed>>
  BY DEF StatusDue, Free, bookVars
<1>2. PICK state \in {AggregateState(r, buffer[r].STATUS)} :
        /\ members' = [members EXCEPT ![r] = [l \in Lists |-> IF l \in known[r] THEN @[l] ELSE state[l]]]
        /\ \/ /\ chan' = Broadcast(r, ShareMsg(r, state))
              /\ timer' = [[timer EXCEPT ![r]["STATUS"] = Off] EXCEPT ![r]["PHASE"] = Off]
              /\ UNCHANGED <<starting, internal>>
           \/ /\ starting' = [starting EXCEPT ![r] = Append(starting[r], state)]
              /\ internal' = IF starting[r] = <<>>
                             THEN [internal EXCEPT ![r] =
                                     SetDynamicConfig(internal[r], NormalizeState(r, state))]
                             ELSE internal
              /\ timer' = [timer EXCEPT ![r]["STATUS"] = Off]
              /\ UNCHANGED chan
  BY DEF StatusDue, ShareAndRelease, Store
<1>3. state \in State
  BY <1>1, <1>2, AnswersTyped
<1>4. TypedMail' /\ TypedTimers' /\ Gathering'
  <2>1. chan' \in [Replicas -> [Replicas -> Seq(Message)]]
    BY <1>2, <1>3, ShareTyped, BroadcastTyped DEF TypeInv, TypedMail
  <2>2. timer[r] \in [Timers -> Off..PhaseDelay] /\ "STATUS" \in Timers /\ "PHASE" \in Timers
    BY DEF TypeInv, TypedTimers, Timers, Buffered
  <2> DEFINE a == [timer[r] EXCEPT !["STATUS"] = Off]
             b == [a EXCEPT !["PHASE"] = Off]
  <2>3. a \in [Timers -> Off..PhaseDelay] /\ a.STATUS = Off
    BY <2>2, DelaysTyped
  <2>4. b \in [Timers -> Off..PhaseDelay] /\ b.STATUS = Off
    <3> HIDE DEF a
    <3> QED BY <2>2, <2>3, DelaysTyped
  <2>5. timer' = [timer EXCEPT ![r] = a] \/ timer' = [timer EXCEPT ![r] = b]
    BY <1>2 DEF TypeInv, TypedTimers
  <2>6. \E left \in [Timers -> Off..PhaseDelay] : left.STATUS = Off /\ timer' = [timer EXCEPT ![r] = left]
    <3> HIDE DEF a, b
    <3> QED BY <2>3, <2>4, <2>5
  <2>7. "STATUS" \in Buffered
    BY DEF Buffered
  <2> QED BY <1>1, <2>1, <2>6, <2>7, EmptiedTyped
<1>5. TypedLists'
  <2>1. members \in [Replicas -> ListsType]
    BY DEF TypeInv, TypedLists
  <2> DEFINE new == [l \in Lists |-> IF l \in known[r] THEN members[r][l] ELSE state[l]]
  <2>2. members[r].replicaMembers \in Seq(Replicas) /\ members[r].clusterMembers \in Seq(Member)
    BY <2>1 DEF ListsType
  <2>3. state.replicaMembers \in Seq(Replicas) /\ state.clusterMembers \in Seq(Member)
    BY <1>3 DEF State, StateOf, Member
  <2>4. new.replicaMembers \in Seq(Replicas) /\ new.clusterMembers \in Seq(Member)
    BY <2>2, <2>3 DEF Lists
  <2>5. new = [replicaMembers |-> new.replicaMembers, clusterMembers |-> new.clusterMembers]
    BY DEF Lists
  <2>6. members' = [members EXCEPT ![r] = new]
    BY <1>2
  <2> HIDE DEF new
  <2>7. new \in ListsType
    BY <2>4, <2>5 DEF ListsType
  <2> QED BY <2>1, <2>6, <2>7 DEF TypedLists
<1>6. SetConfigs'
  <2>1. NormalizeState(r, state) \in NewConfig(Windows)
    BY <1>3, ShareTyped
  <2>2. SetDynamicConfig(internal[r], NormalizeState(r, state)) \in Config(Windows)
    BY <2>1, ConfigTaken DEF TypeInv, SetConfigs
  <2>3. starting' \in [Replicas -> Seq(State)]
    <3>1. Append(starting[r], state) \in Seq(State)
      BY <1>3 DEF TypeInv, SetConfigs
    <3> QED BY <1>2, <3>1 DEF TypeInv, SetConfigs
  <2>4. internal' \in [Replicas -> Config(Windows)]
    BY <1>2, <2>2 DEF TypeInv, SetConfigs
  <2> QED BY <1>1, <2>3, <2>4 DEF TypeInv, SetConfigs
<1>7. TypedBackoff' /\ TypedLife'
  BY <1>1 DEF TypeInv, TypedBackoff, TypedLife
<1> QED BY <1>4, <1>5, <1>6, <1>7 DEF TypeInv

LEMMA MarketsStartedTypes ==
  ASSUME TypeInv, NEW r \in Replicas, MarketsStarted(r)
  PROVE  TypeInv'
<1>1. PICK state, rest : state = Head(starting[r]) /\ rest = Tail(starting[r])
  OBVIOUS
<1>2. /\ starting[r] # <<>> /\ starting' = [starting EXCEPT ![r] = rest]
      /\ running' = [running EXCEPT ![r] = SetDynamicConfig(internal[r], NormalizeState(r, state))]
      /\ internal' = IF rest = <<>> THEN internal
                     ELSE [internal EXCEPT ![r] =
                             SetDynamicConfig(internal[r], NormalizeState(r, Head(rest)))]
      /\ chan' = Broadcast(r, ShareMsg(r, state))
      /\ timer' = [timer EXCEPT ![r]["PHASE"] = Off]
      /\ UNCHANGED <<life, buffer, members, reloads, backoff, limits, budget, missed>>
  BY <1>1 DEF MarketsStarted, ShareAndRelease, bookVars
<1>3. /\ state \in State /\ rest \in Seq(State)
      /\ rest # <<>> => Head(rest) \in State
  <2>1. starting[r] \in Seq(State)
    BY DEF TypeInv, SetConfigs
  <2>2. state \in State /\ rest \in Seq(State)
    BY <1>1, <1>2, <2>1
  <2> QED BY <2>2
<1>4. TypedMail'
  <2>1. chan' \in [Replicas -> [Replicas -> Seq(Message)]]
    BY <1>2, <1>3, ShareTyped, BroadcastTyped DEF TypeInv
  <2> QED BY <1>2, <2>1 DEF TypeInv, TypedMail
<1>5. TypedTimers' /\ Gathering'
  BY <1>2, DelaysTyped, TimerTyped DEF TypeInv
<1>6. SetConfigs'
  <2>1. /\ SetDynamicConfig(internal[r], NormalizeState(r, state)) \in Config(Windows)
        /\ rest # <<>> => SetDynamicConfig(internal[r], NormalizeState(r, Head(rest))) \in Config(Windows)
    BY <1>3, ShareTyped, ConfigTaken DEF TypeInv, SetConfigs
  <2>2. running' \in [Replicas -> Config(Windows) \cup {Null}] /\ internal' \in [Replicas -> Config(Windows)]
    BY <1>2, <2>1 DEF TypeInv, SetConfigs
  <2>3. starting' \in [Replicas -> Seq(State)]
    BY <1>2, <1>3 DEF TypeInv, SetConfigs
  <2> QED BY <1>2, <2>2, <2>3 DEF TypeInv, SetConfigs
<1>7. TypedLists' /\ TypedBackoff' /\ TypedLife'
  BY <1>2 DEF TypeInv, TypedLists, TypedBackoff, TypedLife
<1> QED BY <1>4, <1>5, <1>6, <1>7 DEF TypeInv

\* reloadActive() is called with a config the schedulers can take.
LEMMA CalledTyped ==
  ASSUME TypeInv, NEW r \in Replicas, NEW by \in {"SHARE", "CLOSE", "BACKOFF"}, NEW c \in NewConfig(Windows),
         CallReload(r, by, c), UNCHANGED <<starting, running>>
  PROVE  SetConfigs'
<1>1. /\ reloads' = [reloads EXCEPT ![r] = Append(reloads[r], [by |-> by, config |-> c])]
      /\ \/ internal' = internal
         \/ internal' = [internal EXCEPT ![r] = SetDynamicConfig(internal[r], c)]
  BY DEF CallReload, TypeInv, SetConfigs
<1>2. [by |-> by, config |-> c] \in Call(Windows)
  BY DEF Call
<1>3. Append(reloads[r], [by |-> by, config |-> c]) \in Seq(Call(Windows))
  BY <1>2 DEF TypeInv, SetConfigs
<1>4. SetDynamicConfig(internal[r], c) \in Config(Windows)
  BY ConfigTaken DEF TypeInv, SetConfigs
<1>5. reloads' \in [Replicas -> Seq(Call(Windows))]
  BY <1>1, <1>3 DEF TypeInv, SetConfigs
<1>6. internal' \in [Replicas -> Config(Windows)]
  BY <1>1, <1>4 DEF TypeInv, SetConfigs
<1> QED BY <1>5, <1>6 DEF TypeInv, SetConfigs

LEMMA UpdatedTyped ==
  ASSUME NEW m \in ListsType, NEW state, state.replicaMembers \in Seq(Replicas) \cup {Null},
         state.clusterMembers \in Seq(Member) \cup {Null}
  PROVE  UpdateState(m, state) \in ListsType
<1>1. PICK new : new = UpdateState(m, state)
  OBVIOUS
<1>2. new = [f \in {"replicaMembers", "clusterMembers"} |-> IF state[f] = Null THEN m[f] ELSE state[f]]
  BY <1>1 DEF UpdateState, Overlay, ListsType
<1>3. /\ new.replicaMembers = IF state.replicaMembers = Null THEN m.replicaMembers ELSE state.replicaMembers
      /\ new.clusterMembers = IF state.clusterMembers = Null THEN m.clusterMembers ELSE state.clusterMembers
  BY <1>2
<1>4. new.replicaMembers \in Seq(Replicas) /\ new.clusterMembers \in Seq(Member)
  BY <1>3 DEF ListsType
<1>5. new = [replicaMembers |-> new.replicaMembers, clusterMembers |-> new.clusterMembers]
  BY <1>2
<1> QED BY <1>1, <1>4, <1>5 DEF ListsType

LEMMA HandleShareTypes ==
  ASSUME TypeInv, NEW r \in Replicas, HandleShare(r)
  PROVE  TypeInv'
<1>1. /\ buffer' = [buffer EXCEPT ![r]["SHARE"] = <<>>]
      /\ UNCHANGED <<chan, timer, starting, running, backoff, limits, budget, missed>>
  BY DEF HandleShare, bookVars
<1>2. PICK state : /\ state = ShareState(r, buffer[r].SHARE, internal[r].rateLimitMultiplier)
                   /\ members' = members \/ members' = [members EXCEPT ![r] = UpdateState(members[r], state)]
                   /\ \/ Normalizable(state) /\ CallReload(r, "SHARE", NormalizeState(r, state))
                      \/ UNCHANGED <<reloads, internal>>
                   /\ life' = life \/ life' = [life EXCEPT ![r] = "failing"]
  BY DEF HandleShare, Fail
<1>3. /\ state.replicaMembers \in Seq(Replicas) \cup {Null}
      /\ state.rateLimitMultiplier \in Multipliers \cup {Null}
      /\ state.clusterMembers \in Seq(Member) \cup {Null}
  <2>1. PICK shares, mult : shares = buffer[r].SHARE /\ mult = internal[r].rateLimitMultiplier
    OBVIOUS
  <2>2. shares \in Seq(Message) /\ \A i \in DOMAIN shares : shares[i].type = "SHARE"
    BY <2>1 DEF TypeInv, TypedMail, Buffered
  <2>3. mult \in Multipliers
    BY <2>1 DEF TypeInv, SetConfigs, Config
  <2>4. state = ShareState(r, shares, mult)
    BY <1>2, <2>1
  <2> QED BY ONLY <2>2, <2>3, <2>4, r \in Replicas, SharedTyped
<1>4. TypedMail' /\ TypedTimers' /\ Gathering'
  <2>1. "SHARE" \in Buffered /\ "SHARE" # "STATUS"
    BY DEF Buffered
  <2> QED BY <1>1, <2>1, EmptiedTyped DEF TypeInv, TypedMail
<1>5. TypedLists'
  <2>1. UpdateState(members[r], state) \in ListsType
    BY <1>3, UpdatedTyped DEF TypeInv, TypedLists
  <2> QED BY <1>2, <2>1 DEF TypeInv, TypedLists
<1>6. SetConfigs'
  <2>1. CASE Normalizable(state) /\ CallReload(r, "SHARE", NormalizeState(r, state))
    <3>1. NormalizeState(r, state) \in NewConfig(Windows)
      BY <1>3, <2>1, NormalizedConfig DEF Normalizable
    <3> QED BY <1>1, <2>1, <3>1, CalledTyped
  <2>2. CASE UNCHANGED <<reloads, internal>>
    BY <1>1, <2>2 DEF TypeInv, SetConfigs
  <2> QED BY <1>2, <2>1, <2>2
<1>7. TypedBackoff' /\ TypedLife'
  BY <1>1, <1>2 DEF TypeInv, TypedBackoff, TypedLife
<1> QED BY <1>4, <1>5, <1>6, <1>7 DEF TypeInv

LEMMA HandleCloseTypes ==
  ASSUME TypeInv, NEW r \in Replicas, HandleClose(r)
  PROVE  TypeInv'
<1>1. /\ buffer' = [buffer EXCEPT ![r]["CLOSE"] = <<>>]
      /\ UNCHANGED <<chan, timer, starting, running, backoff, limits, budget, missed>>
  BY DEF HandleClose, bookVars
<1>2. PICK left : left = RemoveClosed(r, buffer[r].CLOSE, members[r])
  OBVIOUS
<1>3. /\ \/ /\ members' = [members EXCEPT ![r] = left]
            /\ CallReload(r, "CLOSE", NormalizeState(r, CloseState(left)))
         \/ UNCHANGED <<members, reloads, internal>>
      /\ life' = life \/ life' = [life EXCEPT ![r] = "failing"]
  BY <1>2 DEF HandleClose, Fail
<1>4. left \in ListsType
  BY <1>2, RemovedTyped DEF TypeInv, TypedLists
<1>5. TypedMail' /\ TypedTimers' /\ Gathering'
  <2>1. "CLOSE" \in Buffered /\ "CLOSE" # "STATUS"
    BY DEF Buffered
  <2> QED BY <1>1, <2>1, EmptiedTyped DEF TypeInv, TypedMail
<1>6. TypedLists'
  BY <1>3, <1>4 DEF TypeInv, TypedLists
<1>7. SetConfigs'
  <2>1. CASE CallReload(r, "CLOSE", NormalizeState(r, CloseState(left)))
    <3>1. PICK state : state = CloseState(left)
      OBVIOUS
    <3>2. /\ state.replicaMembers \in Seq(Replicas) \cup {Null} /\ state.rateLimitMultiplier = Null
          /\ state.clusterMembers \in Seq(Member)
      BY <1>4, <3>1 DEF CloseState, ListsType
    <3>3. NormalizeState(r, state) \in NewConfig(Windows)
      BY <3>2, NormalizedConfig
    <3> QED BY <1>1, <2>1, <3>1, <3>3, CalledTyped
  <2>2. CASE UNCHANGED <<reloads, internal>>
    BY <1>1, <2>2 DEF TypeInv, SetConfigs
  <2> QED BY <1>3, <2>1, <2>2
<1>8. TypedBackoff' /\ TypedLife'
  BY <1>1, <1>3 DEF TypeInv, TypedBackoff, TypedLife
<1> QED BY <1>5, <1>6, <1>7, <1>8 DEF TypeInv

LEMMA ReloadedTypes ==
  ASSUME TypeInv, NEW r \in Replicas, Reloaded(r)
  PROVE  TypeInv'
<1>1. PICK done, rest : done = Head(reloads[r]) /\ rest = Tail(reloads[r])
  OBVIOUS
<1>2. /\ reloads[r] # <<>> /\ reloads' = [reloads EXCEPT ![r] = rest]
      /\ internal' = IF rest = <<>> THEN internal
                     ELSE [internal EXCEPT ![r] = SetDynamicConfig(internal[r], Head(rest).config)]
      /\ running' = IF running[r] = Null THEN running
                    ELSE [running EXCEPT ![r] = SetDynamicConfig(running[r], done.config)]
      /\ backoff' = backoff \/ backoff' = [backoff EXCEPT ![r] = "hello"]
      /\ timer' = timer \/ timer' = [timer EXCEPT ![r]["PHASE"] = Off]
      /\ UNCHANGED <<life, chan, buffer, members, starting, limits, budget, missed>>
  BY <1>1 DEF Reloaded, NextReload, bookVars
<1>3. done \in Call(Windows) /\ rest \in Seq(Call(Windows)) /\ (rest # <<>> => Head(rest) \in Call(Windows))
  <2>1. reloads[r] \in Seq(Call(Windows))
    BY DEF TypeInv, SetConfigs
  <2>2. done \in Call(Windows) /\ rest \in Seq(Call(Windows))
    BY <1>1, <1>2, <2>1
  <2> QED BY <2>2
<1>4. TypedTimers' /\ Gathering'
  BY <1>2, DelaysTyped, TimerTyped DEF TypeInv
<1>5. SetConfigs'
  <2>1. done.config \in NewConfig(Windows) /\ (rest # <<>> => Head(rest).config \in NewConfig(Windows))
    BY <1>3 DEF Call
  <2>2. /\ rest # <<>> => SetDynamicConfig(internal[r], Head(rest).config) \in Config(Windows)
        /\ running[r] # Null => SetDynamicConfig(running[r], done.config) \in Config(Windows)
    BY <2>1, ConfigTaken DEF TypeInv, SetConfigs
  <2>3. running' \in [Replicas -> Config(Windows) \cup {Null}] /\ internal' \in [Replicas -> Config(Windows)]
    BY <1>2, <2>2 DEF TypeInv, SetConfigs
  <2>4. reloads' \in [Replicas -> Seq(Call(Windows))]
    BY <1>2, <1>3 DEF TypeInv, SetConfigs
  <2> QED BY <1>2, <2>3, <2>4 DEF TypeInv, SetConfigs
<1>6. TypedBackoff'
  BY <1>2 DEF TypeInv, TypedBackoff
<1>7. TypedMail' /\ TypedLists' /\ TypedLife'
  BY <1>2 DEF TypeInv, TypedMail, TypedLists, TypedLife
<1> QED BY <1>4, <1>5, <1>6, <1>7 DEF TypeInv

LEMMA HandleRateLimitTypes ==
  ASSUME TypeInv, NEW r \in Replicas, HandleRateLimit(r)
  PROVE  TypeInv'
<1>1. PICK multiplier : multiplier = Head(limits[r])
  OBVIOUS
<1>2. PICK c : c = [replicaSize |-> Null, instancePosition |-> Null,
                    rateLimitMultiplier |-> multiplier, clusterMembers |-> Null]
  OBVIOUS
<1>3. /\ limits[r] # <<>> /\ limits' = [limits EXCEPT ![r] = Tail(limits[r])]
      /\ CallReload(r, "BACKOFF", c) \/ UNCHANGED <<reloads, internal>>
      /\ backoff' = backoff \/ backoff' = [backoff EXCEPT ![r] = "reload"]
      /\ UNCHANGED <<life, chan, buffer, timer, members, starting, running, budget, missed>>
  BY <1>1, <1>2 DEF HandleRateLimit, roundVars, bookVars
<1>4. multiplier \in Multipliers /\ Tail(limits[r]) \in Seq(Multipliers)
  <2>1. limits[r] \in Seq(Multipliers)
    BY DEF TypeInv, TypedBackoff
  <2> QED BY <1>1, <1>3, <2>1
<1>5. SetConfigs'
  <2>1. c \in NewConfig(Windows)
    BY <1>2, <1>4 DEF NewConfig
  <2>2. CASE CallReload(r, "BACKOFF", c)
    BY <1>3, <2>1, <2>2, CalledTyped
  <2>3. CASE UNCHANGED <<reloads, internal>>
    BY <1>3, <2>3 DEF TypeInv, SetConfigs
  <2> QED BY <1>3, <2>2, <2>3
<1>6. TypedBackoff'
  BY <1>3, <1>4 DEF TypeInv, TypedBackoff
<1>7. TypedMail' /\ TypedTimers' /\ Gathering' /\ TypedLists' /\ TypedLife'
  BY <1>3 DEF TypeInv, TypedMail, TypedTimers, Gathering, TypedLists, TypedLife
<1> QED BY <1>5, <1>6, <1>7 DEF TypeInv

LEMMA DeliverTypes ==
  ASSUME TypeInv, NEW r \in Replicas, NEW s \in Replicas, Deliver(s, r)
  PROVE  TypeInv'
<1>1. PICK msg, rest : msg = Head(chan[r][s]) /\ rest = [chan EXCEPT ![r][s] = Tail(@)]
  OBVIOUS
<1>2. /\ chan[r][s] # <<>>
      /\ UNCHANGED <<life, members, starting, reloads, internal, running, backoff, limits, budget, missed>>
      /\ IF msg.type = "HELLO"
         THEN /\ chan' = Send(rest, r, s, StatusMsg(r, internal[r].rateLimitMultiplier))
              /\ UNCHANGED <<buffer, timer>>
         ELSE /\ chan' = rest
              /\ buffer' = [buffer EXCEPT ![r][msg.type] = Append(@, msg)]
              /\ timer' = [timer EXCEPT ![r][msg.type] = DebounceDelay(msg.type)]
  BY <1>1 DEF Deliver, schedVars, bookVars
<1>3. chan \in [Replicas -> [Replicas -> Seq(Message)]]
  BY DEF TypeInv, TypedMail
<1>4. msg \in Message /\ Tail(chan[r][s]) \in Seq(Message)
  <2>1. chan[r][s] \in Seq(Message)
    BY <1>3
  <2> QED BY <1>1, <1>2, <2>1
<1>5. rest \in [Replicas -> [Replicas -> Seq(Message)]]
  <2>1. [chan[r] EXCEPT ![s] = Tail(chan[r][s])] \in [Replicas -> Seq(Message)]
    BY <1>3, <1>4
  <2>2. rest = [chan EXCEPT ![r] = [chan[r] EXCEPT ![s] = Tail(chan[r][s])]]
    BY <1>1, <1>3
  <2> QED BY <1>3, <2>1, <2>2
<1>6. chan' \in [Replicas -> [Replicas -> Seq(Message)]]
  <2>1. CASE msg.type # "HELLO"
    BY <1>2, <1>5, <2>1
  <2>2. CASE msg.type = "HELLO"
    <3>1. internal[r].rateLimitMultiplier \in Multipliers
      BY DEF TypeInv, SetConfigs, Config
    <3>2. PICK answer \in Message : answer = StatusMsg(r, internal[r].rateLimitMultiplier)
      BY <3>1, TypeNames, PostWritten
    <3>3. chan' = rest \/ chan' = [rest EXCEPT ![s][r] = Append(@, answer)]
      BY <1>2, <2>2, <3>2 DEF Send
    <3>4. [rest[s] EXCEPT ![r] = Append(rest[s][r], answer)] \in [Replicas -> Seq(Message)]
      BY <1>5
    <3>5. CASE chan' = [rest EXCEPT ![s][r] = Append(@, answer)]
      <4>1. chan' = [rest EXCEPT ![s] = [rest[s] EXCEPT ![r] = Append(rest[s][r], answer)]]
        BY <1>5, <3>5
      <4> QED BY <1>5, <3>4, <4>1
    <3> QED BY <1>5, <3>3, <3>5
  <2> QED BY <2>1, <2>2
<1>7. TypedMail' /\ TypedTimers' /\ Gathering'
  <2>1. CASE msg.type = "HELLO"
    BY <1>2, <1>6, <2>1 DEF TypeInv, TypedMail, TypedTimers, Gathering
  <2>2. CASE msg.type # "HELLO"
    <3>1. PICK t \in Buffered : t = msg.type
      BY <1>4, <2>2 DEF Message, Post, Buffered
    <3>2. PICK d \in Off..PhaseDelay : d = DebounceDelay(t)
      BY DelaysTyped
    <3>3. /\ buffer \in [Replicas -> [Buffered -> Seq(Message)]]
          /\ timer \in [Replicas -> [Timers -> Off..PhaseDelay]] /\ t \in Timers
      BY DEF TypeInv, TypedMail, TypedTimers, Timers
    <3>4. PICK b : b = [buffer[r] EXCEPT ![t] = Append(buffer[r][t], msg)]
      OBVIOUS
    <3>5. PICK left : left = [timer[r] EXCEPT ![t] = d]
      OBVIOUS
    <3>6. buffer' = [buffer EXCEPT ![r] = b] /\ timer' = [timer EXCEPT ![r] = left]
      BY <1>2, <2>2, <3>1, <3>2, <3>3, <3>4, <3>5
    <3>7. Append(buffer[r][t], msg) \in Seq(Message) /\ Append(buffer[r][t], msg) # <<>>
      <4>1. buffer[r][t] \in Seq(Message)
        BY <3>3
      <4> QED BY <1>4, <4>1
    <3>8. b \in [Buffered -> Seq(Message)] /\ left \in [Timers -> Off..PhaseDelay]
      BY <3>2, <3>3, <3>4, <3>5, <3>7
    <3>9. ASSUME NEW u \in Buffered, NEW i \in DOMAIN b[u] PROVE b[u][i].type = u
      <4>1. CASE u = t
        <5>1. buffer[r][t] \in Seq(Message) /\ b[t] = Append(buffer[r][t], msg)
          BY <3>3, <3>4
        <5>2. i \in 1..(Len(buffer[r][t]) + 1)
          BY <1>4, <4>1, <5>1
        <5>3. \A j \in DOMAIN buffer[r][t] : buffer[r][t][j].type = t
          BY DEF TypeInv, TypedMail
        <5> QED BY <1>4, <3>1, <4>1, <5>1, <5>2, <5>3
      <4>2. CASE u # t
        <5>1. b[u] = buffer[r][u]
          BY <3>3, <3>4, <4>2
        <5> QED BY <5>1 DEF TypeInv, TypedMail
      <4> QED BY <4>1, <4>2
    <3>10. \A x \in Replicas : /\ buffer'[x] = IF x = r THEN b ELSE buffer[x]
                               /\ timer'[x] = IF x = r THEN left ELSE timer[x]
      BY <3>3, <3>6
    <3>11. TypedMail'
      <4>1. ASSUME NEW x \in Replicas, NEW u \in Buffered, NEW i \in DOMAIN buffer'[x][u]
            PROVE  buffer'[x][u][i].type = u
        <5>1. buffer'[x] = b \/ buffer'[x] = buffer[x]
          BY <3>10
        <5>2. \A j \in DOMAIN b[u] : b[u][j].type = u
          BY <3>9
        <5>3. \A j \in DOMAIN buffer[x][u] : buffer[x][u][j].type = u
          BY DEF TypeInv, TypedMail
        <5>4. CASE buffer'[x] = b
          BY <5>2, <5>4
        <5>5. CASE buffer'[x] = buffer[x]
          BY <5>3, <5>5
        <5> QED BY <5>1, <5>4, <5>5
      <4>2. buffer' \in [Replicas -> [Buffered -> Seq(Message)]]
        BY <3>3, <3>6, <3>8
      <4> QED BY <1>6, <4>1, <4>2 DEF TypedMail
    <3>12. TypedTimers'
      BY <3>3, <3>6, <3>8 DEF TypedTimers
    <3>13. left.STATUS # Off => b.STATUS # <<>>
      <4>1. "STATUS" \in Timers /\ "STATUS" \in Buffered
        BY DEF Timers, Buffered
      <4>2. CASE t = "STATUS"
        BY <3>3, <3>4, <3>7, <4>1, <4>2
      <4>3. CASE t # "STATUS"
        BY <3>3, <3>4, <3>5, <4>1, <4>3 DEF TypeInv, Gathering
      <4> QED BY <4>2, <4>3
    <3>14. Gathering'
      BY <3>10, <3>13 DEF TypeInv, Gathering
    <3> QED BY <3>11, <3>12, <3>14
  <2> QED BY <2>1, <2>2
<1>8. TypedLists' /\ SetConfigs' /\ TypedBackoff' /\ TypedLife'
  BY <1>2 DEF TypeInv, TypedLists, SetConfigs, TypedBackoff, TypedLife
<1> QED BY <1>7, <1>8 DEF TypeInv

LEMMA NextTypes == IInv /\ TypeInv /\ [Next]_vars => TypeInv'
<1> SUFFICES ASSUME IInv, TypeInv, [Next]_vars PROVE TypeInv'
  OBVIOUS
<1>1. ASSUME NEW r \in Replicas, Lifecycle(r) PROVE TypeInv'
  <2>1. CASE Boot(r) \/ Resync(r) \/ RateLimitExceeded(r)
    BY <2>1, LifecycleTypes
  <2>2. CASE Stop(r)
    <3>1. PICK left : /\ left = IF Recorded(r) THEN Broadcast(r, CloseMsg(r)) ELSE chan
                      /\ chan' = [left EXCEPT ![r] = [s \in Replicas |-> <<>>]]
      BY <2>2 DEF Stop
    <3>2. Forget(r) /\ (missed' = missed \/ missed' = missed \cup {r})
      BY <2>2 DEF Stop
    <3>3. left = chan \/ left = Broadcast(r, CloseMsg(r))
      BY <3>1
    <3> QED BY <3>1, <3>2, <3>3, ForgetTypes
  <2>3. CASE Crash(r)
    BY <2>3, ForgetTypes DEF Crash
  <2> QED BY <1>1, <2>1, <2>2, <2>3 DEF Lifecycle
<1>2. ASSUME NEW r \in Replicas, Progress(r) PROVE TypeInv'
  BY <1>2, QuietTypes, StatusDueTypes, HandleShareTypes, HandleCloseTypes, MarketsStartedTypes,
     ReloadedTypes, HandleRateLimitTypes, DeliverTypes DEF Progress
<1>3. CASE Tick
  BY <1>3, TickTypes
<1>4. CASE UNCHANGED vars
  <2>1. 1 \in Replicas
    BY NAssumption DEF Replicas
  <2> QED BY <1>4, <2>1, QuietTypes
<1> QED BY <1>1, <1>2, <1>3, <1>4 DEF Next

\* However late messages are, whoever joins, leaves, dies or exceeds a limit,
\* every variable has its type: no scheduler is given a multiplier that is not
\* positive, as Math.max of no answers would be (aggregateState of
\* RateLimitStateManagerReducer), a window that is not a number, or a config
\* that lacks a field.
THEOREM TypeOKHolds == Spec => []TypeOK
<1>1. Init => IInv /\ TypeInv
  BY InitIInv, InitTypes
<1>2. IInv /\ TypeInv /\ [Next]_vars => (IInv /\ TypeInv)'
  BY NextIInv, NextTypes
<1>3. IInv /\ TypeInv => TypeOK
  BY TypeParts
<1> QED BY <1>1, <1>2, <1>3, PTL DEF Spec

-----------------------------------------------------------------------------
(* Who waits for the lock, and what a step of one replica leaves alone.      *)

\* Who wants the lock, has it, or had it; who has yet to enter.
Wanted(p) == {p.held} \cup Elements(p.queue)
Awaited(p) == Elements(p.queue) \cup (IF p.entered THEN {} ELSE {p.held})

LEMMA AcquiredWants ==
  ASSUME NEW p \in LockType, p.held = "none" => p.queue = <<>> /\ ~p.entered, NEW who, NEW q,
         q = Acquired(p, who), NEW x, x # "none"
  PROVE  /\ x \in Wanted(q) <=> x \in Wanted(p) \/ x = who
         /\ x \in Awaited(q) <=> x \in Awaited(p) \/ x = who
<1>1. CASE p.held = "none"
  <2>1. q = [p EXCEPT !.held = who]
    BY <1>1 DEF Acquired
  <2>2. q.held = who /\ q.queue = <<>> /\ ~q.entered
    BY <1>1, <2>1 DEF LockType
  <2> QED BY <1>1, <2>2, ElementsEmpty DEF Wanted, Awaited
<1>2. CASE p.held # "none"
  <2>1. q = [p EXCEPT !.queue = Append(p.queue, who)]
    BY <1>2 DEF Acquired
  <2>2. q.held = p.held /\ q.queue = Append(p.queue, who) /\ q.entered = p.entered
    BY <2>1 DEF LockType
  <2>3. p.queue \in Seq(Holders)
    BY DEF LockType
  <2>4. IsSeq(p.queue)
    BY <2>3, SeqIsSeq
  <2>5. Elements(q.queue) = Elements(p.queue) \cup {who}
    BY <2>2, <2>4, ElementsAppend
  <2> QED BY <2>2, <2>5 DEF Wanted, Awaited
<1> QED BY <1>1, <1>2

LEMMA ReleasedWants ==
  ASSUME NEW p \in LockType, NEW q, q = Released(p), NEW x, x # "none"
  PROVE  /\ x \in Wanted(q) <=> x \in Elements(p.queue)
         /\ x \in Awaited(q) <=> x \in Elements(p.queue)
<1>1. CASE p.queue = <<>>
  BY <1>1, ElementsEmpty DEF Released, FreePhase, Wanted, Awaited
<1>2. CASE p.queue # <<>>
  <2>1. q.held = Head(p.queue) /\ q.queue = Tail(p.queue) /\ ~q.entered
    BY <1>2 DEF Released
  <2>2. p.queue \in Seq(Holders)
    BY DEF LockType
  <2>3. IsSeq(p.queue)
    BY <2>2, SeqIsSeq
  <2>4. Elements(p.queue) = {q.held} \cup Elements(q.queue)
    BY <1>2, <2>1, <2>3, ElementsTail
  <2> QED BY <2>1, <2>4 DEF Wanted, Awaited
<1> QED BY <1>1, <1>2

LEMMA EnteredWants ==
  ASSUME NEW p \in LockType, ~p.entered, NEW q, q = [p EXCEPT !.entered = TRUE], NEW x
  PROVE  /\ x \in Wanted(q) <=> x \in Wanted(p)
         /\ x \in Awaited(q) <=> x \in Elements(p.queue)
<1>1. q.held = p.held /\ q.queue = p.queue /\ q.entered
  BY DEF LockType
<1> QED BY <1>1 DEF Wanted, Awaited

\* The step changes nothing of the others but their queues.
Others(r) ==
  \A x \in Replicas \ {r} :
    /\ life'[x] = life[x] /\ buffer'[x] = buffer[x] /\ timer'[x] = timer[x] /\ phase'[x] = phase[x]
    /\ members'[x] = members[x] /\ starting'[x] = starting[x] /\ started'[x] = started[x]
    /\ reloads'[x] = reloads[x] /\ internal'[x] = internal[x] /\ running'[x] = running[x]

LEMMA Everywhere ==
  ASSUME AllInv
  PROVE  /\ DOMAIN life = Replicas /\ DOMAIN chan = Replicas /\ DOMAIN buffer = Replicas
         /\ DOMAIN timer = Replicas /\ DOMAIN phase = Replicas /\ DOMAIN members = Replicas
         /\ DOMAIN starting = Replicas /\ DOMAIN started = Replicas /\ DOMAIN reloads = Replicas
         /\ DOMAIN internal = Replicas /\ DOMAIN running = Replicas
         /\ ChanOK(chan)
BY Domains, Holding DEF AllInv, IInv, LockInv, ListInv, MailInv

LEMMA Private ==
  ASSUME AllInv, NEW r \in Replicas
  PROVE  /\ timer[r] \in [Timers -> Int] /\ phase[r] \in LockType
         /\ DOMAIN buffer[r] = Buffered /\ (\A t \in Buffered : IsSeq(buffer[r][t]))
         /\ IsSeq(reloads[r])
BY Domains, Holding DEF MailInv, BufferMail

LEMMA Tellings ==
  /\ "SHARE" # "none" /\ "HELLO" # "none" /\ "CLUSTER" # "none"
  /\ Round = {"HELLO", "CLUSTER"}
  /\ {"STATUS", "SHARE", "GREET", "PHASE"} \subseteq Timers
  /\ {"STATUS", "SHARE"} \subseteq Buffered
BY DEF Round, Timers, Buffered

\* A config set once and again.
LEMMA SetTwice ==
  ASSUME NEW old, DOMAIN old = ConfigFields, NEW c, NEW new, new = SetDynamicConfig(old, c)
  PROVE  /\ new = [f \in ConfigFields |-> new[f]] /\ DOMAIN new = ConfigFields
         /\ SetDynamicConfig(new, c) = new
<1>1. new = [f \in ConfigFields |-> IF c[f] = Null THEN old[f] ELSE c[f]]
  BY DEF SetDynamicConfig, Overlay
<1>2. new = [f \in ConfigFields |-> new[f]] /\ SetDynamicConfig(new, c) = new
  BY <1>1 DEF SetDynamicConfig, Overlay
<1> QED BY <1>1, <1>2

=============================================================================
