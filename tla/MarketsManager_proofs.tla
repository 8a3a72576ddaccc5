----------------------- MODULE MarketsManager_proofs -----------------------
(***************************************************************************)
(* MarketsManager, for any markets, any seeder and any number of starts    *)
(* and reloads: what has been stopped stays so, every market has a         *)
(* position of its own in the queue, and all schedulers run, as announced. *)
(* Then the seeders of Seeding, whose tables the managers read: what they  *)
(* leave selected is what they are configured for.                         *)
(***************************************************************************)
EXTENDS MarketsManager, SequenceTheorems, FiniteSetTheorems, TLAPS

\* What the constants are to be: finitely many rows, never all of them
\* configured, for that is what Unseeded stands for.
Reasonable ==
  /\ IsFiniteSet(Markets) /\ ActiveFirst \subseteq SUBSET Markets
  /\ Symbols \subseteq (SUBSET Markets) \ {Markets}

Manager == [position : Nat, size : Nat, config : Nat, cron : {"unknown", "none", "live", "stopped"}]
CallRecord ==
  [id : Nat, kind : {"start", "reload", "stop"}, config : Nat, pending : SUBSET Markets, size : Nat,
   step : {"wait", "count", "list", "markets", "failed"}]
Total == used.starts + used.reloads

Types ==
  /\ active \subseteq Markets /\ seeding \subseteq Markets /\ internal \in [size : Nat, config : Nat]
  /\ managers \in [Markets -> Manager] /\ calls \subseteq CallRecord
  /\ used \in [starts : Nat, reloads : Nat] /\ seen \in [seeded : BOOLEAN, outlived : BOOLEAN]
  /\ \A c \in calls : c.kind # "start" => c.step \notin {"count", "list"}

\* Before the markets are stopped, whoever starts them has a place in the
\* queue for the mutex; at its head if it has begun, and never behind stop().
InOrder ==
  life \notin {"stopped", "ended"} =>
    /\ startStop \in Seq(Nat)
    /\ \A i \in 1..Len(startStop) : startStop[i] = 0 => i = Len(startStop) /\ life = "stopping"
    /\ \A c \in calls : c.kind = "start" =>
         /\ c.id \in 1..Total /\ \E i \in 1..Len(startStop) : startStop[i] = c.id
         /\ c.step # "wait" => startStop[1] = c.id
    /\ \A c, d \in calls : c.kind = "start" /\ d.kind = "start" /\ c.id = d.id => c = d
    /\ \A c \in calls : c.kind = "stop" => c.id = 0 /\ life = "stopping"

\* Afterwards nobody starts them, but for a reload that outlived the stop.
Quiet ==
  life = "stopped" =>
    /\ \A c \in calls : c.kind # "start"
    /\ ~seen.outlived => /\ \A c \in calls : c.kind # "reload"
                         /\ \A m \in Markets : managers[m].cron # "live"

\* The size that was queried is that of the list to be queried, unless the
\* seeder comes between.
Positioned ==
  /\ seeding = Unseeded => ~seen.seeded
  /\ \A c \in calls : c.step = "list" /\ ~seen.seeded => c.size = Cardinality(active)
  /\ OwnPositions

\* The inductive invariant.
IInv == Types /\ InOrder /\ Quiet /\ Positioned

-----------------------------------------------------------------------------
(* Parts of steps. *)

\* It holds at the start.
LEMMA InitIInv == Reasonable /\ Init => IInv
<1> SUFFICES ASSUME Reasonable, Init PROVE IInv
  OBVIOUS
<1>1. Types
  BY DEF Init, Types, Reasonable, Unseeded, Unknown, Manager
<1>2. InOrder /\ Quiet
  BY DEF Init, InOrder, Quiet
<1>3. Known = {}
  BY DEF Init, Known, Unknown
<1>4. Positioned
  BY <1>3 DEF Init, Positioned, OwnPositions
<1> QED BY <1>1, <1>2, <1>4 DEF IInv

\* A call to start or reload goes on, or ends.
LEMMA CallsGoOn ==
  ASSUME IInv, Alive, NEW c \in calls, NEW D, calls' = (calls \ {c}) \cup D, c.kind # "stop",
         \A d \in D : d.id = c.id /\ d.kind = c.kind, \A d, e \in D : d = e,
         \A d \in D : d.kind = "start" /\ d.step # "wait" => startStop[1] = c.id,
         UNCHANGED <<startStop, used>>, seen'.outlived = seen.outlived,
         life' = life \/ (life' \in {"closing", "ended"} /\ life \notin {"stopping", "stopped"})
  PROVE  InOrder' /\ Quiet'
<1>1. InOrder'
  <2> SUFFICES ASSUME life' \notin {"stopped", "ended"} PROVE InOrder'
    BY DEF InOrder
  <2>1. life \notin {"stopped", "ended"} /\ (life = "stopping" => life' = "stopping")
    BY DEF Alive
  <2>2. /\ startStop' \in Seq(Nat) /\ Total' = Total
        /\ \A i \in 1..Len(startStop') : startStop'[i] = 0 => i = Len(startStop') /\ life' = "stopping"
    BY <2>1 DEF IInv, InOrder, Total
  <2>3. \A d \in calls : d.kind = "start" =>
          /\ d.id \in 1..Total
          /\ \E i \in 1..Len(startStop) : startStop[i] = d.id
          /\ d.step # "wait" => startStop[1] = d.id
    BY <2>1 DEF IInv, InOrder
  <2>4. \A d \in calls' : d.kind = "start" =>
          /\ d.id \in 1..Total'
          /\ \E i \in 1..Len(startStop') : startStop'[i] = d.id
          /\ d.step # "wait" => startStop'[1] = d.id
    BY <2>2, <2>3
  <2>5. \A d, e \in calls' : d.kind = "start" /\ e.kind = "start" /\ d.id = e.id => d = e
    BY <2>1 DEF IInv, InOrder
  <2>6. \A d \in calls' : d.kind = "stop" => d.id = 0 /\ life' = "stopping"
    BY <2>1 DEF IInv, InOrder
  <2> QED BY <2>2, <2>4, <2>5, <2>6 DEF InOrder
<1>2. Quiet'
  <2> SUFFICES ASSUME life' = "stopped" PROVE Quiet'
    BY DEF Quiet
  <2>1. life = "stopped"
    OBVIOUS
  <2>2. c.kind # "start" /\ \A d \in calls : d.kind # "start"
    BY <2>1 DEF IInv, Quiet
  <2>3. c.kind = "reload"
    BY <2>2 DEF IInv, Types, CallRecord
  <2>4. seen.outlived
    BY <2>1, <2>3 DEF IInv, Quiet
  <2> QED BY <2>2, <2>3, <2>4 DEF Quiet
<1> QED BY <1>1, <1>2

\* Markets keep their positions while the list is not loaded again.
LEMMA PositionsStay ==
  ASSUME IInv, UNCHANGED <<active, seeding>>, seen'.seeded = seen.seeded,
         managers' \in [Markets -> Manager],
         \A m \in Markets : /\ managers'[m].position = managers[m].position /\ managers'[m].size = managers[m].size
                            /\ managers[m].cron = "unknown" => managers'[m].cron = "unknown",
         \A d \in calls' : d.step = "list" => d \in calls
  PROVE  Positioned'
<1>1. Known' \subseteq Known
  BY DEF Known
<1>2. OwnPositions'
  BY <1>1 DEF IInv, Positioned, OwnPositions, Known
<1> QED BY <1>2 DEF IInv, Positioned, Unseeded

\* A call that does nothing to the managers but what keeps their positions.
LEMMA CallKeeps ==
  ASSUME IInv, Alive, NEW c \in calls, c.kind # "stop", NEW d \in CallRecord, calls' = (calls \ {c}) \cup {d},
         d.id = c.id, d.kind = c.kind, d.kind = "start" /\ d.step # "wait" => startStop[1] = c.id,
         d.kind # "start" => d.step \notin {"count", "list"}, d.step # "list",
         UNCHANGED <<active, seeding, startStop, used, seen>>,
         life' = life \/ (life' \in {"closing", "ended"} /\ life \notin {"stopping", "stopped"}),
         internal' \in [size : Nat, config : Nat],
         managers' \in [Markets -> Manager],
         \A m \in Markets : /\ managers'[m].position = managers[m].position /\ managers'[m].size = managers[m].size
                            /\ managers[m].cron = "unknown" => managers'[m].cron = "unknown"
  PROVE  IInv'
<1>1. Types'
  BY DEF IInv, Types
<1>2. PICK D : D = {d}
  OBVIOUS
<1>3. /\ calls' = (calls \ {c}) \cup D /\ seen'.outlived = seen.outlived
      /\ \A e \in D : e.id = c.id /\ e.kind = c.kind
      /\ \A e, f \in D : e = f
      /\ \A e \in D : e.kind = "start" /\ e.step # "wait" => startStop[1] = c.id
      /\ UNCHANGED <<startStop, used>>
  BY <1>2
<1>4. InOrder' /\ Quiet'
  BY <1>3, CallsGoOn
<1>5. \A e \in calls' : e.step = "list" => e \in calls
  OBVIOUS
<1>6. Positioned'
  BY <1>5, PositionsStay
<1> QED BY <1>1, <1>4, <1>6 DEF IInv

\* Whoever has begun to start the markets is at the head of the queue.
LEMMA StarterHolds ==
  ASSUME IInv, Alive, NEW c \in calls, c.kind = "start"
  PROVE  /\ life # "stopped" /\ startStop \in Seq(Nat) /\ startStop # <<>>
         /\ c.step # "wait" => startStop[1] = c.id
<1>1. life \notin {"stopped", "ended"}
  BY DEF IInv, Quiet, Alive
<1>2. /\ startStop \in Seq(Nat)
      /\ c.step # "wait" => startStop[1] = c.id
      /\ \E i \in 1..Len(startStop) : startStop[i] = c.id
  BY <1>1 DEF IInv, InOrder
<1>3. startStop # <<>>
  BY <1>2, EmptySeq
<1> QED BY <1>1, <1>2, <1>3

-----------------------------------------------------------------------------
(* The steps. *)

\* The seeder: whoever was between the two queries is noted.
LEMMA SeederKeeps ==
  ASSUME Reasonable, IInv, ResetMarketStatuses \/ SetupMarket
  PROVE  IInv'
<1>1. UNCHANGED <<internal, managers, calls, startStop, life, used>>
  BY DEF ResetMarketStatuses, SetupMarket, schedulerVars, lockVars, lifeVars
<1>2. /\ active' \subseteq Markets /\ seeding' \subseteq Markets /\ seeding' # Unseeded
      /\ seen' \in [seeded : BOOLEAN, outlived : BOOLEAN] /\ seen'.outlived = seen.outlived
      /\ ~seen'.seeded => ~seen.seeded /\ \A c \in calls : c.step # "list"
  <2>1. CASE ResetMarketStatuses
    <3>1. active' = {} /\ seeding' \in Symbols /\ seeding = Unseeded /\ seen' = [seen EXCEPT !.seeded = \E c \in calls : c.step = "list"]
      BY <2>1 DEF ResetMarketStatuses
    <3>2. seen \in [seeded : BOOLEAN, outlived : BOOLEAN] /\ ~seen.seeded
      BY <3>1 DEF IInv, Types, Positioned
    <3>3. /\ seen' \in [seeded : BOOLEAN, outlived : BOOLEAN] /\ seen'.outlived = seen.outlived
          /\ ~seen'.seeded => \A c \in calls : c.step # "list"
      BY <3>1, <3>2
    <3> QED BY <3>1, <3>2, <3>3 DEF Reasonable, Unseeded
  <2>2. CASE SetupMarket
    <3>1. PICK m \in seeding : seeding' = seeding \ {m} /\ active' \in {active, active \cup {m}}
      BY <2>2 DEF SetupMarket
    <3>2. active' \subseteq Markets /\ seeding' \subseteq Markets /\ seeding' # Unseeded
      BY <3>1 DEF IInv, Types, Unseeded
    <3>3. seen' = [seen EXCEPT !.seeded = @ \/ \E c \in calls : c.step = "list"] /\ seen \in [seeded : BOOLEAN, outlived : BOOLEAN]
      BY <2>2 DEF SetupMarket, IInv, Types
    <3> QED BY <3>2, <3>3
  <2> QED BY <2>1, <2>2
<1>3. Types'
  BY <1>1, <1>2 DEF IInv, Types
<1>4. InOrder' /\ Quiet'
  BY <1>1, <1>2 DEF IInv, InOrder, Quiet, Total
<1>5. Positioned'
  BY <1>1, <1>2 DEF IInv, Positioned, OwnPositions, Known, Unseeded
<1> QED BY <1>3, <1>4, <1>5 DEF IInv

\* start() begins, and counts the markets.
LEMMA StartBeginsKeeps ==
  ASSUME IInv, Alive, NEW c \in calls, StartBegins(c)
  PROVE  IInv'
<1>1. /\ c.kind = "start" /\ Holds(c, startStop) /\ calls' = (calls \ {c}) \cup {[c EXCEPT !.step = "count"]}
      /\ UNCHANGED <<active, seeding, managers, startStop, life, used, seen>>
      /\ internal' = [internal EXCEPT !.config = c.config]
  BY DEF StartBegins, Becomes, tableVars, lockVars, lifeVars
<1>2. c \in CallRecord /\ c.config \in Nat /\ internal \in [size : Nat, config : Nat] /\ managers \in [Markets -> Manager]
  BY DEF IInv, Types, CallRecord
<1>3. PICK d : d = [c EXCEPT !.step = "count"]
  OBVIOUS
<1>4. d \in CallRecord /\ d.id = c.id /\ d.kind = c.kind /\ d.step = "count"
  BY <1>2, <1>3 DEF CallRecord
<1>5. startStop[1] = c.id
  BY <1>1 DEF Holds
<1>6. internal' \in [size : Nat, config : Nat]
  BY <1>1, <1>2
<1> QED BY <1>1, <1>2, <1>3, <1>4, <1>5, <1>6, CallKeeps

\* The first query: its answer is the number of the rows of the second, if
\* nobody comes between.
LEMMA CountKeeps ==
  ASSUME Reasonable, IInv, Alive, NEW c \in calls, CountMarkets(c)
  PROVE  IInv'
<1>1. /\ c.step = "count" /\ calls' = (calls \ {c}) \cup {[c EXCEPT !.step = "list", !.size = Cardinality(active)]}
      /\ UNCHANGED <<active, seeding, internal, managers, startStop, life, used, seen>>
  BY DEF CountMarkets, Becomes, tableVars, schedulerVars, lockVars, lifeVars
<1>2. c \in CallRecord /\ c.kind = "start" /\ Cardinality(active) \in Nat
  <2>1. IsFiniteSet(active)
    BY FS_Subset DEF IInv, Types, Reasonable
  <2> QED BY <1>1, <2>1, FS_CardinalityType DEF IInv, Types
<1>3. PICK d : d = [c EXCEPT !.step = "list", !.size = Cardinality(active)]
  OBVIOUS
<1>4. d \in CallRecord /\ d.id = c.id /\ d.kind = c.kind /\ d.step = "list" /\ d.size = Cardinality(active)
  BY <1>2, <1>3 DEF CallRecord
<1>5. startStop[1] = c.id
  BY <1>1, <1>2, StarterHolds
<1>6. PICK D : D = {d}
  OBVIOUS
<1>7. InOrder' /\ Quiet'
  <2>1. calls' = (calls \ {c}) \cup D /\ c.kind # "stop" /\ UNCHANGED <<startStop, used>> /\ seen'.outlived = seen.outlived
    BY <1>1, <1>2, <1>3, <1>6
  <2>2. /\ \A e \in D : e.id = c.id /\ e.kind = c.kind
        /\ \A e, f \in D : e = f
        /\ \A e \in D : e.kind = "start" /\ e.step # "wait" => startStop[1] = c.id
    BY <1>4, <1>5, <1>6
  <2> QED BY <1>1, <2>1, <2>2, CallsGoOn
<1>8. Types'
  BY <1>1, <1>2, <1>3, <1>4 DEF IInv, Types
<1>9. Positioned'
  BY <1>1, <1>3, <1>4 DEF IInv, Positioned, OwnPositions, Known, Unseeded
<1> QED BY <1>7, <1>8, <1>9 DEF IInv



\* Some market of a start or a reload starts.
LEMMA MarketStartKeeps ==
  ASSUME IInv, Alive, NEW c \in calls, StartMarket(c) \/ ReloadMarket(c)
  PROVE  IInv'
<1>1. PICK m \in c.pending : SchedulerStarts(m, c.config) /\ calls' = (calls \ {c}) \cup {[c EXCEPT !.pending = @ \ {m}]}
  BY DEF StartMarket, ReloadMarket, Becomes
<1>2. /\ UNCHANGED <<active, seeding, internal, startStop, life, used, seen>>
      /\ c.kind \in {"start", "reload"} /\ c.step \in {"markets", "failed"}
  BY DEF StartMarket, ReloadMarket, tableVars, lockVars, lifeVars
<1>3. c \in CallRecord /\ c.config \in Nat /\ m \in Markets /\ managers \in [Markets -> Manager] /\ internal \in [size : Nat, config : Nat]
  BY <1>1 DEF IInv, Types, CallRecord
<1>4. PICK d : d = [c EXCEPT !.pending = @ \ {m}]
  OBVIOUS
<1>5. d \in CallRecord /\ d.id = c.id /\ d.kind = c.kind /\ d.step = c.step
  BY <1>3, <1>4 DEF CallRecord
<1>6. c.kind = "start" => startStop[1] = c.id
  BY <1>2, StarterHolds
<1>7. /\ managers' \in [Markets -> Manager]
      /\ \A n \in Markets : /\ managers'[n].position = managers[n].position /\ managers'[n].size = managers[n].size
                            /\ managers[n].cron = "unknown" => managers'[n].cron = "unknown"
  <2>1. CASE m \in Known
    <3>1. managers' = [managers EXCEPT ![m].config = c.config, ![m].cron = "live"]
      BY <1>1, <2>1 DEF SchedulerStarts
    <3>2. managers[m].cron # "unknown"
      BY <2>1 DEF Known
    <3>3. PICK r : r = [managers[m] EXCEPT !.config = c.config, !.cron = "live"]
      OBVIOUS
    <3>4. r \in Manager /\ r.position = managers[m].position /\ r.size = managers[m].size
      BY <1>3, <3>3 DEF Manager
    <3>5. managers' = [managers EXCEPT ![m] = r]
      BY <1>3, <3>1, <3>3
    <3> QED BY <1>3, <3>2, <3>4, <3>5
  <2>2. CASE m \notin Known
    BY <1>1, <1>3, <2>2 DEF SchedulerStarts
  <2> QED BY <2>1, <2>2
<1> QED BY <1>1, <1>2, <1>3, <1>4, <1>5, <1>6, <1>7, CallKeeps

\* A stopped scheduler keeps its place.
LEMMA StoppedKeeps ==
  ASSUME managers \in [Markets -> Manager], managers' = [m \in Markets |-> Stopped(m)]
  PROVE  /\ managers' \in [Markets -> Manager]
         /\ \A m \in Markets : /\ managers'[m].position = managers[m].position /\ managers'[m].size = managers[m].size
                               /\ managers[m].cron = "unknown" => managers'[m].cron = "unknown"
                               /\ managers'[m].cron # "live"
                               /\ managers'[m].cron = "unknown" => managers[m].cron = "unknown"
<1> SUFFICES ASSUME NEW m \in Markets
             PROVE  /\ Stopped(m) \in Manager
                    /\ Stopped(m).position = managers[m].position /\ Stopped(m).size = managers[m].size
                    /\ managers[m].cron = "unknown" => Stopped(m).cron = "unknown"
                    /\ Stopped(m).cron # "live"
                    /\ Stopped(m).cron = "unknown" => managers[m].cron = "unknown"
  OBVIOUS
<1>1. managers[m] \in Manager
  OBVIOUS
<1> QED BY <1>1 DEF Stopped, Manager

\* A reload begins: all schedulers stop.
LEMMA ReloadBeginsKeeps ==
  ASSUME IInv, Alive, NEW c \in calls, ReloadBegins(c)
  PROVE  IInv'
<1>1. PICK step \in {"markets", "failed"}, rest \in SUBSET Known :
        calls' = (calls \ {c}) \cup {[c EXCEPT !.step = step, !.pending = rest]}
  BY DEF ReloadBegins, Becomes
<1>2. /\ UNCHANGED <<active, seeding, startStop, used, seen>> /\ c.kind = "reload"
      /\ internal' = [internal EXCEPT !.config = c.config]
      /\ managers' = [m \in Markets |-> Stopped(m)]
      /\ life' = life \/ Terminated
  BY DEF ReloadBegins, tableVars
<1>3. life' = life \/ (life' \in {"closing", "ended"} /\ life \notin {"stopping", "stopped"})
  BY <1>2 DEF Terminated
<1>4. c \in CallRecord /\ c.config \in Nat /\ managers \in [Markets -> Manager] /\ internal \in [size : Nat, config : Nat]
  BY DEF IInv, Types, CallRecord
<1>5. PICK d : d = [c EXCEPT !.step = step, !.pending = rest]
  OBVIOUS
<1>6. d \in CallRecord /\ d.id = c.id /\ d.kind = c.kind /\ d.step = step
  BY <1>1, <1>4, <1>5 DEF Known, CallRecord
<1>7. internal' \in [size : Nat, config : Nat]
  BY <1>2, <1>4
<1>8. /\ managers' \in [Markets -> Manager]
      /\ \A m \in Markets : /\ managers'[m].position = managers[m].position /\ managers'[m].size = managers[m].size
                            /\ managers[m].cron = "unknown" => managers'[m].cron = "unknown"
  BY <1>2, <1>4, StoppedKeeps
<1> QED BY <1>1, <1>2, <1>3, <1>5, <1>6, <1>7, <1>8, CallKeeps

\* A reload ends.
LEMMA ReloadEndsKeeps ==
  ASSUME IInv, Alive, NEW c \in calls, ReloadEnds(c)
  PROVE  IInv'
<1>1. /\ UNCHANGED <<active, seeding, internal, managers, startStop, life, used, seen>>
      /\ calls' = calls \ {c} /\ c.kind = "reload"
  BY DEF ReloadEnds, tableVars, schedulerVars, lifeVars
<1>2. Types' /\ Positioned'
  BY <1>1 DEF IInv, Types, Positioned, OwnPositions, Known, Unseeded
<1>3. PICK D : D = {}
  OBVIOUS
<1>4. calls' = (calls \ {c}) \cup D /\ c.kind # "stop" /\ seen'.outlived = seen.outlived
  BY <1>1, <1>3
<1>5. InOrder' /\ Quiet'
  BY <1>1, <1>3, <1>4, CallsGoOn
<1> QED BY <1>2, <1>5 DEF IInv

\* A start ends, and the next in the queue has the mutex.
LEMMA StartEndsKeeps ==
  ASSUME IInv, Alive, NEW c \in calls, StartEnds(c)
  PROVE  IInv'
<1>1. /\ UNCHANGED <<active, seeding, internal, managers, life, used, seen>>
      /\ calls' = calls \ {c} /\ startStop' = Tail(startStop) /\ c.kind = "start" /\ c.step = "markets"
  BY DEF StartEnds, tableVars, schedulerVars
<1>2. Types' /\ Positioned'
  BY <1>1 DEF IInv, Types, Positioned, OwnPositions, Known, Unseeded
<1>3. life \notin {"stopped", "ended"} /\ startStop \in Seq(Nat) /\ startStop # <<>> /\ startStop[1] = c.id
  BY <1>1, StarterHolds DEF Alive
<1>4. /\ startStop' \in Seq(Nat) /\ Len(startStop') = Len(startStop) - 1
      /\ \A i \in 1..Len(startStop') : startStop'[i] = startStop[i + 1] /\ i + 1 \in 1..Len(startStop)
  BY <1>1, <1>3, HeadTailProperties
<1>5. \A i \in 1..Len(startStop') : startStop'[i] = 0 => i = Len(startStop') /\ life' = "stopping"
  <2>1. \A i \in 1..Len(startStop) : startStop[i] = 0 => i = Len(startStop) /\ life = "stopping"
    BY <1>3 DEF IInv, InOrder
  <2>2. Len(startStop) \in Nat
    BY <1>3, LenProperties
  <2> SUFFICES ASSUME NEW i \in 1..Len(startStop'), startStop'[i] = 0
               PROVE  i = Len(startStop') /\ life' = "stopping"
    OBVIOUS
  <2>3. i + 1 \in 1..Len(startStop) /\ startStop[i + 1] = 0
    BY <1>4
  <2>4. i + 1 = Len(startStop) /\ life = "stopping"
    BY <2>1, <2>3
  <2>5. i \in Int /\ Len(startStop') = Len(startStop) - 1 /\ life' = life
    BY <1>1, <1>4
  <2> QED BY <2>2, <2>4, <2>5
<1>6. \A d \in calls' : d.kind = "start" =>
        /\ d.id \in 1..Total'
        /\ \E i \in 1..Len(startStop') : startStop'[i] = d.id
        /\ d.step # "wait" => startStop'[1] = d.id
  <2> SUFFICES ASSUME NEW d \in calls', d.kind = "start"
               PROVE  /\ d.id \in 1..Total'
                      /\ \E i \in 1..Len(startStop') : startStop'[i] = d.id
                      /\ d.step # "wait" => startStop'[1] = d.id
    OBVIOUS
  <2>1. d.id # c.id /\ d \in calls /\ d.id \in 1..Total
    BY <1>1, <1>3 DEF IInv, InOrder
  <2>2. PICK i \in 1..Len(startStop) : startStop[i] = d.id
    BY <1>3, <2>1 DEF IInv, InOrder
  <2>3. d.step = "wait"
    BY <1>3, <2>1 DEF IInv, InOrder
  <2>4. i # 1
    BY <1>3, <2>1, <2>2
  <2>5. i - 1 \in 1..Len(startStop') /\ startStop'[i - 1] = d.id
    BY <1>3, <1>4, <2>2, <2>4, LenProperties
  <2> QED BY <1>1, <2>1, <2>3, <2>5 DEF Total
<1>7. /\ \A d, e \in calls' : d.kind = "start" /\ e.kind = "start" /\ d.id = e.id => d = e
      /\ \A d \in calls' : d.kind = "stop" => d.id = 0 /\ life' = "stopping"
  BY <1>1, <1>3 DEF IInv, InOrder
<1>8. InOrder'
  BY <1>4, <1>5, <1>6, <1>7 DEF InOrder
<1>9. Quiet'
  BY <1>1, <1>3 DEF Quiet
<1> QED BY <1>2, <1>8, <1>9 DEF IInv

\* stop(), at the head of the queue: it is the last one there.
LEMMA StopKeeps ==
  ASSUME IInv, Alive, NEW c \in calls, StopAll(c)
  PROVE  IInv'
<1>1. /\ UNCHANGED <<active, seeding, internal, used>>
      /\ calls' = calls \ {c} /\ c.kind = "stop" /\ Holds(c, startStop) /\ life' = "stopped"
      /\ managers' = [m \in Markets |-> Stopped(m)]
      /\ seen' = [seen EXCEPT !.outlived = \E d \in calls : d.kind = "reload"]
  BY DEF StopAll, MayStop, tableVars
<1>2. managers \in [Markets -> Manager] /\ seen \in [seeded : BOOLEAN, outlived : BOOLEAN]
  BY DEF IInv, Types
<1>3. /\ managers' \in [Markets -> Manager]
      /\ \A m \in Markets : /\ managers'[m].position = managers[m].position /\ managers'[m].size = managers[m].size
                            /\ managers[m].cron = "unknown" => managers'[m].cron = "unknown"
                            /\ managers'[m].cron # "live"
  BY <1>1, <1>2, StoppedKeeps
<1>4. /\ seen' \in [seeded : BOOLEAN, outlived : BOOLEAN] /\ seen'.seeded = seen.seeded
      /\ ~seen'.outlived => \A d \in calls : d.kind # "reload"
  BY <1>1, <1>2
<1>5. \A d \in calls : d.kind # "start"
  <2>1. CASE life = "stopped"
    BY <2>1 DEF IInv, Quiet
  <2>2. CASE life # "stopped"
    <3>1. startStop \in Seq(Nat) /\ c.id = 0
      BY <1>1, <2>2 DEF IInv, InOrder, Alive
    <3>2. startStop # <<>> /\ startStop[1] = 0
      BY <1>1, <3>1 DEF Holds
    <3>3. Len(startStop) = 1
      <4>1. \A i \in 1..Len(startStop) : startStop[i] = 0 => i = Len(startStop)
        BY <2>2 DEF IInv, InOrder, Alive
      <4>2. Len(startStop) \in Nat \ {0}
        BY <3>1, <3>2, EmptySeq
      <4>3. 1 \in 1..Len(startStop)
        BY <4>2
      <4> QED BY <3>2, <4>1, <4>3
    <3>4. \A d \in calls : d.kind = "start" => d.id \in 1..Total /\ \E i \in 1..Len(startStop) : startStop[i] = d.id
      BY <2>2 DEF IInv, InOrder, Alive
    <3>5. \A d \in calls : d.kind = "start" => d.id = 0 /\ d.id \in 1..Total
      BY <3>2, <3>3, <3>4
    <3> QED BY <3>5
  <2> QED BY <2>1, <2>2
<1>6. Types'
  BY <1>1, <1>3, <1>4 DEF IInv, Types
<1>7. InOrder'
  BY <1>1 DEF InOrder
<1>8. Quiet'
  BY <1>1, <1>3, <1>4, <1>5 DEF Quiet
<1>9. \A d \in calls' : d.step = "list" => d \in calls
  BY <1>1
<1>10. Positioned'
  BY <1>1, <1>3, <1>4, <1>9, PositionsStay
<1> QED BY <1>6, <1>7, <1>8, <1>10 DEF IInv

\* The second query: no market is twice in its answer.
LEMMA ListKeeps ==
  ASSUME Reasonable, IInv, Alive, NEW c \in calls, ListMarkets(c)
  PROVE  IInv'
<1>1. /\ c.step = "list" /\ internal' = [internal EXCEPT !.size = c.size]
      /\ calls' = (calls \ {c}) \cup {[c EXCEPT !.step = "markets", !.pending = active]}
      /\ UNCHANGED <<active, seeding, startStop, life, used, seen>>
  BY DEF ListMarkets, Becomes, tableVars, lockVars, lifeVars
<1>2. PICK ids \in SetToSeqs(active) : managers' = [m \in Markets |-> Resolved(ids, c.size, m)]
  BY DEF ListMarkets
<1>3. /\ c \in CallRecord /\ c.kind = "start" /\ c.size \in Nat /\ active \subseteq Markets
      /\ managers \in [Markets -> Manager] /\ internal \in [size : Nat, config : Nat]
  BY <1>1 DEF IInv, Types, CallRecord
<1>4. PICK N : N = Cardinality(active)
  OBVIOUS
<1>5. N \in Nat
  <2>1. IsFiniteSet(active)
    BY FS_Subset DEF IInv, Types, Reasonable
  <2> QED BY <1>4, <2>1, FS_CardinalityType
<1>6. /\ ids \in [1..N -> active] /\ ids \in Seq(active) /\ Len(ids) = N
      /\ \A i, j \in 1..N : ids[i] = ids[j] => i = j
  <2>1. ids \in [1..N -> active] /\ \A i, j \in 1..N : i # j => ids[i] # ids[j]
    BY <1>2, <1>4 DEF SetToSeqs
  <2>2. ids \in Seq(active)
    BY <1>5, <2>1, SeqDef
  <2>3. Len(ids) \in Nat /\ DOMAIN ids = 1..Len(ids)
    BY <2>2, LenProperties
  <2>4. Len(ids) = N
    BY <1>5, <2>1, <2>3
  <2> QED BY <2>1, <2>2, <2>4
<1>7. \A m \in Markets :
        IF Contains(ids, m)
        THEN /\ managers'[m] \in Manager /\ managers'[m].cron # "unknown"
             /\ managers'[m].position + 1 \in 1..N /\ ids[managers'[m].position + 1] = m
             /\ managers'[m].size = c.size
        ELSE managers'[m] = Unknown
  <2> SUFFICES ASSUME NEW m \in Markets, Contains(ids, m)
               PROVE  /\ managers'[m] \in Manager /\ managers'[m].cron # "unknown"
                      /\ managers'[m].position + 1 \in 1..N /\ ids[managers'[m].position + 1] = m
                      /\ managers'[m].size = c.size
    BY <1>2 DEF Resolved
  <2>1. PICK j \in 1..N : ids[j] = m
    BY <1>6 DEF Contains
  <2>2. j - 1 \in 0..(N - 1) /\ ids[(j - 1) + 1] = m
    BY <1>5, <2>1
  <2>3. PICK p : p = CHOOSE i \in 0..(N - 1) : ids[i + 1] = m
    OBVIOUS
  <2>4. p \in 0..(N - 1) /\ ids[p + 1] = m
    BY <2>2, <2>3
  <2>5. PICK cron : cron = IF m \in Known THEN managers[m].cron ELSE "none"
    OBVIOUS
  <2>6. cron \in {"none", "live", "stopped"}
    BY <1>3, <2>5 DEF Known, Manager
  <2>7. managers'[m] = [position |-> p, size |-> c.size, config |-> internal.config, cron |-> cron]
    BY <1>2, <1>6, <2>3, <2>5 DEF Resolved
  <2>8. p \in Nat /\ p + 1 \in 1..N /\ internal.config \in Nat
    BY <1>3, <1>5, <2>4
  <2> QED BY <1>3, <2>4, <2>6, <2>7, <2>8 DEF Manager
<1>8. managers' \in [Markets -> Manager]
  <2>1. Unknown \in Manager
    BY DEF Unknown, Manager
  <2> QED BY <1>2, <1>7, <2>1
<1>9. OwnPositions'
  <2> SUFFICES ASSUME NEW m \in Known'
               PROVE  /\ \A n \in Known' \ {m} : managers'[m].position # managers'[n].position
                      /\ ~seen'.seeded => managers'[m].position < managers'[m].size
    BY DEF OwnPositions
  <2>1. \A n \in Known' : n \in Markets /\ Contains(ids, n)
    BY <1>7 DEF Known, Unknown
  <2>2. \A n \in Known' \ {m} : managers'[m].position # managers'[n].position
    BY <1>7, <2>1
  <2>3. ~seen'.seeded => c.size = N
    BY <1>1, <1>4 DEF IInv, Positioned
  <2>4. managers'[m].position + 1 \in 1..N /\ managers'[m].size = c.size /\ managers'[m].position \in Nat
    BY <1>7, <2>1 DEF Manager
  <2>5. managers'[m].position < N
    BY <1>5, <2>4
  <2> QED BY <2>2, <2>3, <2>4, <2>5
<1>10. PICK d : d = [c EXCEPT !.step = "markets", !.pending = active]
  OBVIOUS
<1>11. d \in CallRecord /\ d.id = c.id /\ d.kind = c.kind /\ d.step = "markets"
  BY <1>3, <1>10 DEF CallRecord
<1>12. internal' \in [size : Nat, config : Nat]
  BY <1>1, <1>3
<1>13. Types'
  BY <1>1, <1>3, <1>8, <1>10, <1>11, <1>12 DEF IInv, Types
<1>14. Positioned'
  BY <1>1, <1>9, <1>10, <1>11 DEF IInv, Positioned, Unseeded
<1>15. PICK D : D = {d}
  OBVIOUS
<1>16. /\ calls' = (calls \ {c}) \cup D /\ c.kind # "stop" /\ UNCHANGED <<startStop, used>> /\ seen'.outlived = seen.outlived
       /\ \A e \in D : e.id = c.id /\ e.kind = c.kind
       /\ \A e, f \in D : e = f
       /\ \A e \in D : e.kind = "start" /\ e.step # "wait" => startStop[1] = c.id
  BY <1>1, <1>3, <1>10, <1>11, <1>15, StarterHolds
<1>17. InOrder' /\ Quiet'
  BY <1>1, <1>16, CallsGoOn
<1> QED BY <1>13, <1>14, <1>17 DEF IInv

\* The life of the replica goes on; it has not just been stopped.
LEMMA LifeKeeps ==
  ASSUME Reasonable, IInv, Alive, InitManagers \/ PoliciesStarted \/ Terminate \/ Exit \/ ForceTermination
  PROVE  IInv'
<1>1. /\ UNCHANGED <<active, seeding, managers, calls, startStop, used, seen>>
      /\ life' # "stopped"
      /\ life' # "ended" => life \notin {"stopping", "stopped", "ended"}
  BY DEF InitManagers, PoliciesStarted, Terminate, Exit, ForceTermination, Terminated,
         tableVars, schedulerVars, lockVars, lifeVars
<1>2. internal' = internal \/ internal' = [internal EXCEPT !.size = Cardinality(active)]
  BY DEF InitManagers, PoliciesStarted, Terminate, Exit, ForceTermination, schedulerVars
<1>3. internal' \in [size : Nat, config : Nat]
  <2>1. IsFiniteSet(active) /\ internal \in [size : Nat, config : Nat]
    BY FS_Subset DEF IInv, Types, Reasonable
  <2>2. Cardinality(active) \in Nat
    BY <2>1, FS_CardinalityType
  <2> QED BY <1>2, <2>1, <2>2
<1>4. Types' /\ Positioned'
  BY <1>1, <1>3 DEF IInv, Types, Positioned, OwnPositions, Known, Unseeded
<1>5. InOrder'
  BY <1>1 DEF IInv, InOrder, Total
<1>6. Quiet'
  BY <1>1 DEF Quiet
<1> QED BY <1>4, <1>5, <1>6 DEF IInv

\* A call is added, to the end of a queue.
LEMMA TargetStartKeeps ==
  ASSUME IInv, TargetStart
  PROVE  IInv'
<1>1. PICK c : c = Call("start", used.starts + used.reloads + 1)
  OBVIOUS
<1>2. /\ UNCHANGED <<active, seeding, internal, managers, life, seen>> /\ life = "discovering"
      /\ calls' = calls \cup {c} /\ startStop' = Append(startStop, c.id)
      /\ used' = [used EXCEPT !.starts = @ + 1]
  BY <1>1 DEF TargetStart, tableVars, schedulerVars, lifeVars
<1>3. used \in [starts : Nat, reloads : Nat]
  BY DEF IInv, Types
<1>4. used' \in [starts : Nat, reloads : Nat] /\ Total \in Nat /\ Total' = Total + 1
  BY <1>2, <1>3 DEF Total
<1>5. c \in CallRecord /\ c.id = Total + 1 /\ c.kind = "start" /\ c.step = "wait"
  BY <1>1, <1>3, <1>4 DEF Call, CallRecord, Total
<1>6. Types'
  BY <1>2, <1>4, <1>5 DEF IInv, Types
<1>7. Positioned'
  BY <1>2, <1>5 DEF IInv, Positioned, OwnPositions, Known, Unseeded
<1>8. Quiet'
  BY <1>2 DEF Quiet
<1>9. startStop \in Seq(Nat) /\ Len(startStop) \in Nat
  BY <1>2, LenProperties DEF IInv, InOrder
<1>10. /\ startStop' \in Seq(Nat) /\ Len(startStop') = Len(startStop) + 1
       /\ \A i \in 1..Len(startStop) : startStop'[i] = startStop[i]
       /\ startStop'[Len(startStop')] = c.id
  BY <1>2, <1>4, <1>5, <1>9, AppendProperties
<1>11. \A i \in 1..Len(startStop) : startStop[i] # 0
  BY <1>2 DEF IInv, InOrder
<1>12. \A i \in 1..Len(startStop') : startStop'[i] # 0
  <2> SUFFICES ASSUME NEW i \in 1..Len(startStop') PROVE startStop'[i] # 0
    OBVIOUS
  <2>1. c.id # 0
    BY <1>4, <1>5
  <2>2. i = Len(startStop') \/ i \in 1..Len(startStop)
    BY <1>9, <1>10
  <2> QED BY <1>10, <1>11, <2>1, <2>2
<1>13. \A d \in calls : d.kind = "start" =>
         /\ d.id \in 1..Total
         /\ \E i \in 1..Len(startStop) : startStop[i] = d.id
         /\ d.step # "wait" => startStop[1] = d.id
  BY <1>2 DEF IInv, InOrder
<1>14. \A d \in calls' : d.kind = "start" =>
         /\ d.id \in 1..Total'
         /\ \E i \in 1..Len(startStop') : startStop'[i] = d.id
         /\ d.step # "wait" => startStop'[1] = d.id
  <2> SUFFICES ASSUME NEW d \in calls', d.kind = "start"
               PROVE  /\ d.id \in 1..Total'
                      /\ \E i \in 1..Len(startStop') : startStop'[i] = d.id
                      /\ d.step # "wait" => startStop'[1] = d.id
    OBVIOUS
  <2>1. CASE d = c
    <3>1. Len(startStop') \in 1..Len(startStop')
      BY <1>9, <1>10
    <3> QED BY <1>4, <1>5, <1>10, <2>1, <3>1
  <2>2. CASE d # c
    <3>1. d \in calls /\ d.id \in 1..Total
      BY <1>2, <1>13, <2>2
    <3>2. PICK i \in 1..Len(startStop) : startStop[i] = d.id
      BY <1>13, <3>1
    <3>3. i \in 1..Len(startStop') /\ startStop'[i] = d.id /\ 1 \in 1..Len(startStop)
      BY <1>9, <1>10, <3>2
    <3>4. startStop'[1] = startStop[1]
      BY <1>10, <3>3
    <3> QED BY <1>4, <1>13, <3>1, <3>3, <3>4
  <2> QED BY <2>1, <2>2
<1>15. \A d, e \in calls' : d.kind = "start" /\ e.kind = "start" /\ d.id = e.id => d = e
  <2>1. \A d \in calls : d.kind = "start" => d.id # c.id
    BY <1>4, <1>5, <1>13
  <2>2. \A d, e \in calls : d.kind = "start" /\ e.kind = "start" /\ d.id = e.id => d = e
    BY <1>2 DEF IInv, InOrder
  <2> QED BY <1>2, <2>1, <2>2
<1>16. \A d \in calls' : d.kind = "stop" => d.id = 0 /\ life' = "stopping"
  BY <1>2, <1>5 DEF IInv, InOrder
<1>17. InOrder'
  BY <1>10, <1>12, <1>14, <1>15, <1>16 DEF InOrder
<1> QED BY <1>6, <1>7, <1>8, <1>17 DEF IInv

\* A reload waits for its mutex; after a stop that is noted.
LEMMA AskReloadKeeps ==
  ASSUME IInv, AskReload
  PROVE  IInv'
<1>1. PICK c : c = Call("reload", used.starts + used.reloads + 1)
  OBVIOUS
<1>2. /\ UNCHANGED <<active, seeding, internal, managers, startStop, life>>
      /\ calls' = calls \cup {c}
      /\ used' = [used EXCEPT !.reloads = @ + 1]
      /\ seen' = [seen EXCEPT !.outlived = @ \/ life = "stopped"]
  BY <1>1 DEF AskReload, tableVars, schedulerVars, lifeVars
<1>3. used \in [starts : Nat, reloads : Nat] /\ seen \in [seeded : BOOLEAN, outlived : BOOLEAN]
  BY DEF IInv, Types
<1>4. /\ used' \in [starts : Nat, reloads : Nat] /\ Total \in Nat /\ Total' = Total + 1
      /\ seen' \in [seeded : BOOLEAN, outlived : BOOLEAN] /\ seen'.seeded = seen.seeded
      /\ ~seen'.outlived => life # "stopped"
  <2>1. used' \in [starts : Nat, reloads : Nat] /\ Total \in Nat /\ Total' = Total + 1
    BY <1>2, <1>3 DEF Total
  <2>2. PICK b \in BOOLEAN : b = (seen.outlived \/ life = "stopped")
    BY <1>3
  <2>3. seen' = [seen EXCEPT !.outlived = b]
    BY <1>2, <2>2
  <2>4. seen' \in [seeded : BOOLEAN, outlived : BOOLEAN] /\ seen'.seeded = seen.seeded /\ seen'.outlived = b
    BY <1>3, <2>3
  <2> QED BY <2>1, <2>2, <2>4
<1>5. c \in CallRecord /\ c.kind = "reload" /\ c.step = "wait"
  BY <1>1, <1>3 DEF Call, CallRecord
<1>6. Types'
  BY <1>2, <1>4, <1>5 DEF IInv, Types
<1>7. Positioned'
  BY <1>2, <1>4, <1>5 DEF IInv, Positioned, OwnPositions, Known, Unseeded
<1>8. Quiet'
  BY <1>2, <1>4, <1>5 DEF IInv, Quiet
<1>9. \A k \in 1..Total : k \in 1..Total'
  BY <1>4
<1>10. InOrder'
  BY <1>2, <1>5, <1>9 DEF IInv, InOrder
<1> QED BY <1>6, <1>7, <1>8, <1>10 DEF IInv

\* stop() takes the last place in the queue.
LEMMA StopPoliciesKeeps ==
  ASSUME IInv, StopPolicies
  PROVE  IInv'
<1>1. PICK c : c = [Call("stop", 0) EXCEPT !.id = 0]
  OBVIOUS
<1>2. /\ UNCHANGED <<active, seeding, internal, managers, used, seen>> /\ life = "closing" /\ life' = "stopping"
      /\ calls' = calls \cup {c} /\ startStop' = Append(startStop, c.id)
  BY <1>1 DEF StopPolicies, tableVars, schedulerVars
<1>3. c \in CallRecord /\ c.id = 0 /\ c.kind = "stop" /\ c.step = "wait"
  BY <1>1 DEF Call, CallRecord
<1>4. Types'
  BY <1>2, <1>3 DEF IInv, Types
<1>5. Positioned'
  BY <1>2, <1>3 DEF IInv, Positioned, OwnPositions, Known, Unseeded
<1>6. Quiet'
  BY <1>2 DEF Quiet
<1>7. startStop \in Seq(Nat) /\ Len(startStop) \in Nat
  BY <1>2, LenProperties DEF IInv, InOrder
<1>8. /\ startStop' \in Seq(Nat) /\ Len(startStop') = Len(startStop) + 1
      /\ \A i \in 1..Len(startStop) : startStop'[i] = startStop[i] /\ i \in 1..Len(startStop')
  BY <1>2, <1>3, <1>7, AppendProperties
<1>9. \A i \in 1..Len(startStop) : startStop[i] # 0
  BY <1>2 DEF IInv, InOrder
<1>10. \A i \in 1..Len(startStop') : startStop'[i] = 0 => i = Len(startStop') /\ life' = "stopping"
  BY <1>2, <1>7, <1>8, <1>9
<1>11. \A d \in calls : d.kind = "start" =>
         /\ d.id \in 1..Total
         /\ \E i \in 1..Len(startStop) : startStop[i] = d.id
         /\ d.step # "wait" => startStop[1] = d.id
  BY <1>2 DEF IInv, InOrder
<1>12. \A d \in calls' : d.kind = "start" =>
         /\ d.id \in 1..Total'
         /\ \E i \in 1..Len(startStop') : startStop'[i] = d.id
         /\ d.step # "wait" => startStop'[1] = d.id
  <2> SUFFICES ASSUME NEW d \in calls, d.kind = "start"
               PROVE  /\ d.id \in 1..Total'
                      /\ \E i \in 1..Len(startStop') : startStop'[i] = d.id
                      /\ d.step # "wait" => startStop'[1] = d.id
    BY <1>2, <1>3
  <2>1. PICK i \in 1..Len(startStop) : startStop[i] = d.id
    BY <1>11
  <2>2. 1 \in 1..Len(startStop)
    BY <1>7, <2>1
  <2>3. startStop'[1] = startStop[1] /\ startStop'[i] = d.id /\ i \in 1..Len(startStop') /\ Total' = Total
    BY <1>2, <1>8, <2>1, <2>2 DEF Total
  <2> QED BY <1>11, <2>3
<1>13. /\ \A d, e \in calls' : d.kind = "start" /\ e.kind = "start" /\ d.id = e.id => d = e
       /\ \A d \in calls' : d.kind = "stop" => d.id = 0 /\ life' = "stopping"
  BY <1>2, <1>3 DEF IInv, InOrder
<1>14. InOrder'
  BY <1>8, <1>10, <1>12, <1>13 DEF InOrder
<1> QED BY <1>4, <1>5, <1>6, <1>14 DEF IInv

-----------------------------------------------------------------------------

\* No step breaks it.
LEMMA NextIInv == Reasonable /\ IInv /\ [Next]_vars => IInv'
<1> SUFFICES ASSUME Reasonable, IInv, [Next]_vars PROVE IInv'
  OBVIOUS
<1>1. CASE UNCHANGED vars
  BY <1>1 DEF vars, IInv, Types, InOrder, Quiet, Positioned, OwnPositions, Known, Unseeded, Total
<1>2. ASSUME Alive, NEW c \in calls, Proceed(c) PROVE IInv'
  <2>1. CASE StartBegins(c)
    BY <1>2, <2>1, StartBeginsKeeps
  <2>2. CASE CountMarkets(c)
    BY <1>2, <2>2, CountKeeps
  <2>3. CASE ListMarkets(c)
    BY <1>2, <2>3, ListKeeps
  <2>4. CASE StartMarket(c) \/ ReloadMarket(c)
    BY <1>2, <2>4, MarketStartKeeps
  <2>5. CASE StartEnds(c)
    BY <1>2, <2>5, StartEndsKeeps
  <2>6. CASE ReloadBegins(c)
    BY <1>2, <2>6, ReloadBeginsKeeps
  <2>7. CASE ReloadEnds(c)
    BY <1>2, <2>7, ReloadEndsKeeps
  <2>8. CASE StopAll(c)
    BY <1>2, <2>8, StopKeeps
  <2> QED BY <1>2, <2>1, <2>2, <2>3, <2>4, <2>5, <2>6, <2>7, <2>8 DEF Proceed
<1>3. CASE Alive /\ (InitManagers \/ PoliciesStarted \/ Terminate \/ Exit \/ ForceTermination)
  BY <1>3, LifeKeeps
<1>4. CASE TargetStart
  BY <1>4, TargetStartKeeps
<1>5. CASE AskReload
  BY <1>5, AskReloadKeeps
<1>6. CASE StopPolicies
  BY <1>6, StopPoliciesKeeps
<1>7. CASE ResetMarketStatuses \/ SetupMarket
  BY <1>7, SeederKeeps
<1> QED BY <1>1, <1>2, <1>3, <1>4, <1>5, <1>6, <1>7 DEF Next, Progress

\* IInv holds at every time.
THEOREM Invariant == ASSUME Reasonable PROVE Spec => []IInv
<1>1. Init => IInv
  BY InitIInv
<1>2. IInv /\ [Next]_vars => IInv'
  BY NextIInv
<1> QED BY <1>1, <1>2, PTL DEF Spec

\* For any markets, any seeder and any starts and reloads: what has been
\* stopped stays so, unless a reload outlives the stop.
THEOREM StoppedForGoodHolds == ASSUME Reasonable PROVE Spec => []StoppedForGood
<1>1. IInv => StoppedForGood
  BY DEF IInv, Quiet, StoppedForGood, Known
<1> QED BY <1>1, Invariant, PTL

\* For the same: every market has a position of its own in the queue, and in
\* the queue unless the seeder came between the two queries.
THEOREM OwnPositionsHolds == ASSUME Reasonable PROVE Spec => []OwnPositions
<1>1. IInv => OwnPositions
  BY DEF IInv, Positioned
<1> QED BY <1>1, Invariant, PTL

-----------------------------------------------------------------------------
(* Schedulers run, with what has been announced. *)

\* Until the replica is told to go, somebody is about to start every scheduler
\* that does not run, if only a reload that has failed.
Restless(m) == \E c \in calls : c.step = "markets" /\ m \in c.pending
Awaited(m) == \E c \in calls : c.step \in {"markets", "failed"} /\ m \in c.pending
AllStarting ==
  life \in {"init", "discovering", "running"} =>
    \A m \in Known : managers[m].cron # "live" => Awaited(m)

\* A replica with a single start: all that comes before its end is of that one,
\* and reloads follow each other.
Starts == {c \in calls : c.kind = "start"}
Reloads == {c \in calls : c.kind = "reload"}
InTurn ==
  /\ reloading \in Seq(Nat)
  /\ \A c \in Reloads :
       /\ c.id \in 1..Total /\ \E i \in 1..Len(reloading) : reloading[i] = c.id
       /\ c.step = "markets" => reloading[1] = c.id
  /\ \A c, d \in Reloads : c.id = d.id => c = d
OneStart ==
  /\ leaked = [m \in Markets |-> 0]
  /\ used.starts = 0 => calls = {} /\ Known = {} /\ ~hasStarted
  /\ \A c, d \in Starts : c = d
  /\ hasStarted => Starts = {}
  /\ ~hasStarted => calls = Starts
  /\ \A c \in Starts : c.step # "markets" => Known = {}
  /\ \A c \in calls : /\ c.step # "failed" /\ (c.kind = "stop" => c.step = "wait")
                      /\ c.step # "wait" => c.config = internal.config
                      /\ c.step = "markets" => \A m \in c.pending : managers[m].cron \in {"none", "stopped"}
  /\ \A m \in Known :
       /\ managers[m].cron = "none" => \E c \in Starts : c.step = "markets" /\ m \in c.pending
       /\ managers[m].config = internal.config \/ Restless(m)
  /\ InTurn

\* The markets have been started once by whoever has got any further.
Begun == life \in {"running", "closing", "stopping", "stopped"} => hasStarted

Steady == AllStarting /\ Begun /\ (used.starts <= 1 => OneStart)

LEMMA InitSteady == Reasonable /\ Init => Steady
<1> SUFFICES ASSUME Reasonable, Init PROVE Steady
  OBVIOUS
<1>1. Known = {} /\ calls = {} /\ Starts = {} /\ Reloads = {} /\ life = "init"
  BY DEF Init, Known, Unknown, Starts, Reloads
<1>2. /\ reloading = <<>> /\ <<>> \in Seq(Nat) /\ leaked = [m \in Markets |-> 0] /\ ~hasStarted
  BY DEF Init
<1> QED BY <1>1, <1>2 DEF Steady, AllStarting, Begun, OneStart, InTurn

LEMMA PendingStays ==
  ASSUME NEW c \in calls, NEW d, calls' = (calls \ {c}) \cup {d}, NEW m,
         c.step \in {"markets", "failed"} /\ m \in c.pending => d.step = c.step /\ m \in d.pending
  PROVE  Awaited(m) => Awaited(m)'
BY DEF Awaited

\* A scheduler starts.
LEMMA SchedulerStarted ==
  ASSUME Types, NEW m \in Markets, NEW config \in Nat, SchedulerStarts(m, config)
  PROVE  /\ DOMAIN managers' = Markets
         /\ m \in Known => managers'[m] = [managers[m] EXCEPT !.config = config, !.cron = "live"]
         /\ m \in Known => managers'[m].cron = "live" /\ managers'[m].config = config
         /\ m \notin Known => managers' = managers
         /\ \A n \in Markets \ {m} : managers'[n] = managers[n]
         /\ Known' = Known
         /\ m \in Known /\ managers[m].cron # "live" /\ leaked = [n \in Markets |-> 0] => leaked' = leaked
<1>1. managers \in [Markets -> Manager]
  BY DEF Types
<1>2. CASE m \in Known
  <2>1. managers' = [managers EXCEPT ![m] = [managers[m] EXCEPT !.config = config, !.cron = "live"]]
        /\ leaked' = [leaked EXCEPT ![m] = IF managers[m].cron = "live" THEN @ + 1 ELSE @]
    BY <1>1, <1>2 DEF SchedulerStarts, Manager
  <2>2. /\ DOMAIN managers' = Markets /\ managers'[m] = [managers[m] EXCEPT !.config = config, !.cron = "live"]
        /\ \A n \in Markets \ {m} : managers'[n] = managers[n]
    BY <1>1, <2>1
  <2>3. managers'[m].cron = "live" /\ managers'[m].config = config
    BY <1>1, <2>2 DEF Manager
  <2>4. Known' = Known
    BY <1>2, <2>2, <2>3 DEF Known
  <2>5. managers[m].cron # "live" /\ leaked = [n \in Markets |-> 0] => leaked' = leaked
    BY <2>1
  <2> QED BY <1>2, <2>2, <2>3, <2>4, <2>5
<1>3. CASE m \notin Known
  BY <1>1, <1>3 DEF SchedulerStarts, Known
<1> QED BY <1>2, <1>3

\* The list that is loaded.
LEMMA ListResult ==
  ASSUME Reasonable, IInv, NEW c \in calls, ListMarkets(c)
  PROVE  /\ Known' = active
         /\ \A m \in Known' : /\ managers'[m].config = internal.config
                             /\ managers'[m].cron = IF m \in Known THEN managers[m].cron ELSE "none"
<1>1. PICK ids \in SetToSeqs(active) : managers' = [m \in Markets |-> Resolved(ids, c.size, m)]
  BY DEF ListMarkets
<1>2. PICK N : N = Cardinality(active)
  OBVIOUS
<1>3. IsFiniteSet(active) /\ active \subseteq Markets
  BY FS_Subset DEF IInv, Types, Reasonable
<1>4. N \in Nat
  BY <1>2, <1>3, FS_CardinalityType
<1>5. ids \in [1..N -> active] /\ \A i, j \in 1..N : ids[i] = ids[j] => i = j
  BY <1>1, <1>2 DEF SetToSeqs
<1>6. \A m \in active : \E i \in 1..N : ids[i] = m
  <2>1. IsFiniteSet(1..N) /\ Cardinality(1..N) = N
    BY <1>4, FS_Interval
  <2>2. ids \in Injection(1..N, active)
    BY <1>5 DEF Injection, IsInjective
  <2>3. ids \in Surjection(1..N, active)
    BY <1>2, <1>3, <2>1, <2>2, FS_Injection
  <2> QED BY <2>3 DEF Surjection
<1>7. Len(ids) = N
  <2>1. ids \in Seq(active)
    BY <1>4, <1>5, SeqDef
  <2>2. Len(ids) \in Nat /\ DOMAIN ids = 1..Len(ids)
    BY <2>1, LenProperties
  <2> QED BY <1>4, <1>5, <2>2
<1>8. \A m : Contains(ids, m) <=> m \in active
  BY <1>5, <1>6, <1>7 DEF Contains
<1>9. \A m \in Markets \ active : managers'[m] = Unknown
  BY <1>1, <1>8 DEF Resolved
<1>10. ASSUME NEW m \in active
       PROVE  /\ managers'[m].config = internal.config
              /\ managers'[m].cron = IF m \in Known THEN managers[m].cron ELSE "none"
              /\ managers'[m].cron # "unknown"
  <2>1. managers'[m] = [position |-> CHOOSE i \in 0..(Len(ids) - 1) : ids[i + 1] = m, size |-> c.size,
                        config |-> internal.config, cron |-> IF m \in Known THEN managers[m].cron ELSE "none"]
    BY <1>1, <1>3, <1>8 DEF Resolved
  <2> QED BY <2>1 DEF Known
<1> QED BY <1>3, <1>9, <1>10 DEF Known, Unknown

LEMMA NextStarting ==
  ASSUME Reasonable, IInv, AllStarting, [Next]_vars
  PROVE  AllStarting'
<1>1. Types /\ managers \in [Markets -> Manager]
  BY DEF IInv, Types
<1>2. CASE UNCHANGED vars \/ ResetMarketStatuses \/ SetupMarket \/ InitManagers \/ PoliciesStarted \/ Terminate
           \/ Exit \/ ForceTermination
  BY <1>2 DEF vars, ResetMarketStatuses, SetupMarket, InitManagers, PoliciesStarted, Terminate, Terminated, Exit,
              ForceTermination, schedulerVars, lifeVars, AllStarting, Known, Awaited
<1>3. CASE TargetStart \/ AskReload \/ StopPolicies
  <2>1. calls \subseteq calls' /\ managers' = managers
        /\ (life' \in {"init", "discovering", "running"} => life' = life)
    BY <1>3 DEF TargetStart, AskReload, StopPolicies, schedulerVars, lifeVars
  <2> QED BY <2>1 DEF AllStarting, Known, Awaited
<1>4. ASSUME Alive, NEW c \in calls, Proceed(c) PROVE AllStarting'
  <2>1. CASE StartBegins(c) \/ CountMarkets(c)
    <3>1. /\ c.step \notin {"markets", "failed"} /\ UNCHANGED <<managers, life>>
          /\ \E d : calls' = (calls \ {c}) \cup {d}
      BY <2>1 DEF StartBegins, CountMarkets, Becomes, schedulerVars, lifeVars
    <3>2. Known' = Known /\ \A m : Awaited(m) => Awaited(m)'
      BY <3>1, PendingStays DEF Known
    <3> QED BY <3>1, <3>2 DEF AllStarting
  <2>2. CASE ListMarkets(c)
    <3>1. /\ c.step = "list" /\ life' = life
          /\ calls' = (calls \ {c}) \cup {[c EXCEPT !.step = "markets", !.pending = active]}
      BY <2>2 DEF ListMarkets, Becomes, lifeVars
    <3>2. c \in CallRecord /\ active \subseteq Markets
      BY <1>1 DEF Types
    <3>3. PICK d : d = [c EXCEPT !.step = "markets", !.pending = active]
      OBVIOUS
    <3>4. d.step = "markets" /\ d.pending = active /\ calls' = (calls \ {c}) \cup {d}
      BY <3>1, <3>2, <3>3 DEF CallRecord
    <3>5. \A m \in active : Awaited(m)'
      BY <3>4 DEF Awaited
    <3>6. Known' = active
      BY <2>2, ListResult
    <3> QED BY <3>1, <3>5, <3>6 DEF AllStarting
  <2>3. CASE StartMarket(c) \/ ReloadMarket(c)
    <3>1. PICK m \in c.pending : SchedulerStarts(m, c.config) /\ Becomes(c, [c EXCEPT !.pending = @ \ {m}])
      BY <2>3 DEF StartMarket, ReloadMarket
    <3>2. c \in CallRecord /\ m \in Markets /\ c.config \in Nat /\ life' = life
      BY <1>1, <2>3 DEF Types, CallRecord, StartMarket, ReloadMarket, lifeVars
    <3>3. PICK d : d = [c EXCEPT !.pending = @ \ {m}]
      OBVIOUS
    <3>4. d.step = c.step /\ d.pending = c.pending \ {m} /\ calls' = (calls \ {c}) \cup {d}
      BY <3>1, <3>2, <3>3 DEF CallRecord, Becomes
    <3>5. \A n : n # m => (Awaited(n) => Awaited(n)')
      BY <3>4, PendingStays
    <3>6. Known' = Known /\ (m \in Known => managers'[m].cron = "live")
          /\ \A n \in Markets : n # m => managers'[n] = managers[n]
      BY <1>1, <3>1, <3>2, SchedulerStarted
    <3>7. Known \subseteq Markets
      BY DEF Known
    <3> QED BY <3>2, <3>5, <3>6, <3>7 DEF AllStarting
  <2>4. CASE StartEnds(c) \/ ReloadEnds(c)
    <3>1. c.pending = {} /\ calls' = calls \ {c} /\ UNCHANGED <<managers, life>>
      BY <2>4 DEF StartEnds, ReloadEnds, schedulerVars, lifeVars
    <3> QED BY <3>1 DEF AllStarting, Known, Awaited
  <2>5. CASE ReloadBegins(c)
    <3> DEFINE unborn == {m \in Known : managers[m].cron = "none"}
    <3>1. /\ c.step = "wait" /\ managers' = [m \in Markets |-> Stopped(m)]
          /\ Becomes(c, [c EXCEPT !.step = IF unborn = {} THEN "markets" ELSE "failed", !.pending = Known \ unborn])
          /\ life' = life \/ life' \in {"closing", "ended"}
      BY <2>5 DEF ReloadBegins, Terminated
    <3>2. c.kind = "reload" /\ c \in CallRecord
      BY <1>1, <2>5 DEF Types, ReloadBegins
    <3>3. PICK d : d = [c EXCEPT !.step = IF unborn = {} THEN "markets" ELSE "failed", !.pending = Known \ unborn]
      OBVIOUS
    <3>4. d.step \in {"markets", "failed"} /\ d.pending = Known \ unborn /\ calls' = (calls \ {c}) \cup {d}
      BY <3>1, <3>2, <3>3 DEF CallRecord, Becomes
    <3>5. \A m \in Known \ unborn : Awaited(m)'
      BY <3>4 DEF Awaited
    <3>6. \A m : Awaited(m) => Awaited(m)'
      BY <3>1, <3>4, PendingStays
    <3>7. Known' \subseteq Known
      BY <1>1, <3>1 DEF Known, Stopped, Manager
    <3> QED BY <3>1, <3>5, <3>6, <3>7 DEF AllStarting
  <2>6. CASE StopAll(c)
    BY <2>6 DEF StopAll, AllStarting
  <2> QED BY <1>4, <2>1, <2>2, <2>3, <2>4, <2>5, <2>6 DEF Proceed
<1> QED BY <1>2, <1>3, <1>4 DEF Next, Progress

LEMMA NextBegun ==
  ASSUME IInv, Begun, [Next]_vars
  PROVE  Begun'
<1>1. CASE UNCHANGED vars \/ ResetMarketStatuses \/ SetupMarket \/ InitManagers \/ PoliciesStarted \/ Terminate
           \/ Exit \/ ForceTermination \/ TargetStart \/ AskReload \/ StopPolicies
  BY <1>1 DEF vars, ResetMarketStatuses, SetupMarket, InitManagers, PoliciesStarted, Terminate, Terminated, Exit,
              ForceTermination, TargetStart, AskReload, StopPolicies, lifeVars, Begun
<1>2. ASSUME Alive, NEW c \in calls, Proceed(c) PROVE Begun'
  <2>1. CASE ReloadBegins(c)
    BY <2>1 DEF ReloadBegins, Terminated, Begun
  <2>2. CASE StopAll(c)
    <3>1. life \in {"stopping", "stopped"}
      BY <1>2, <2>2 DEF StopAll, IInv, InOrder, Alive
    <3> QED BY <2>2, <3>1 DEF StopAll, Begun
  <2> QED BY <1>2, <2>1, <2>2 DEF Proceed, StartBegins, CountMarkets, ListMarkets, StartMarket, StartEnds, ReloadMarket,
                          ReloadEnds, lifeVars, Begun
<1> QED BY <1>1, <1>2 DEF Next, Progress

-----------------------------------------------------------------------------
(* The only start. *)

\* reloading, when nobody but the seeder and the starts do anything.
LEMMA SameTurn ==
  ASSUME InTurn, UNCHANGED <<reloading, used>>, Reloads' = Reloads
  PROVE  InTurn'
BY DEF InTurn, Total

\* The reload that goes on is the one at the head of the queue.
LEMMA TurnGoesOn ==
  ASSUME InTurn, UNCHANGED <<reloading, used>>, NEW c \in calls, NEW d, calls' = (calls \ {c}) \cup {d},
         c.kind = "reload", d.kind = "reload", d.id = c.id, reloading[1] = c.id
  PROVE  InTurn'
<1>1. Reloads' = (Reloads \ {c}) \cup {d} /\ c \in Reloads
  BY DEF Reloads
<1> QED BY <1>1 DEF InTurn, Total

LEMMA OnlyReload ==
  ASSUME InTurn, NEW c \in Reloads, reloading[1] = c.id, NEW d \in Reloads, d.step = "markets"
  PROVE  d = c
BY DEF InTurn

\* Seeding and the life of the replica do not matter.
LEMMA OneStartAside ==
  ASSUME OneStart, UNCHANGED <<leaked, managers, calls, reloading, hasStarted, used>>,
         internal'.config = internal.config
  PROVE  OneStart'
BY DEF OneStart, Starts, Known, Restless, InTurn, Reloads, Total

LEMMA OneStartTarget ==
  ASSUME IInv, OneStart, TargetStart, used.starts = 0
  PROVE  OneStart'
<1>1. PICK c : c = Call("start", used.starts + used.reloads + 1)
  OBVIOUS
<1>2. c.kind = "start" /\ c.step = "wait"
  BY <1>1 DEF Call
<1>3. calls' = calls \cup {c} /\ used' = [used EXCEPT !.starts = @ + 1]
      /\ UNCHANGED <<managers, internal, leaked, reloading, hasStarted>>
  BY <1>1 DEF TargetStart, schedulerVars, lifeVars
<1>4. calls = {} /\ Known = {} /\ ~hasStarted
  BY DEF OneStart
<1>5. calls' = {c} /\ Starts' = {c} /\ Reloads' = {} /\ Known' = {}
  BY <1>2, <1>3, <1>4 DEF Starts, Reloads, Known
<1>6. used'.starts # 0
  BY <1>3 DEF IInv, Types
<1>7. InTurn'
  BY <1>3, <1>5 DEF InTurn, OneStart
<1> QED BY <1>2, <1>3, <1>4, <1>5, <1>6, <1>7 DEF OneStart

LEMMA OneStartAsk ==
  ASSUME IInv, OneStart, AskReload
  PROVE  OneStart'
<1>1. PICK c : c = Call("reload", used.starts + used.reloads + 1)
  OBVIOUS
<1>2. c.kind = "reload" /\ c.step = "wait" /\ c.id = Total + 1
  BY <1>1 DEF Call, Total
<1>3. calls' = calls \cup {c} /\ used' = [used EXCEPT !.reloads = @ + 1] /\ reloading' = Append(reloading, c.id)
      /\ UNCHANGED <<managers, internal, leaked, hasStarted>> /\ hasStarted
  BY <1>1 DEF AskReload, schedulerVars, lifeVars
<1>4. used'.starts = used.starts /\ Total' = Total + 1 /\ Total \in Nat
  BY <1>3 DEF IInv, Types, Total
<1>5. Starts' = Starts /\ Reloads' = Reloads \cup {c} /\ Known' = Known /\ \A m : Restless(m)' <=> Restless(m)
  BY <1>2, <1>3 DEF Starts, Reloads, Known, Restless
<1>6. InTurn'
  <2>1. reloading \in Seq(Nat) /\ c.id \in Nat
    BY <1>2, <1>4 DEF OneStart, InTurn
  <2>2. /\ reloading' \in Seq(Nat) /\ Len(reloading) \in Nat /\ Len(reloading') = Len(reloading) + 1
        /\ reloading'[Len(reloading) + 1] = c.id
        /\ \A i \in 1..Len(reloading) : reloading'[i] = reloading[i]
    BY <1>3, <2>1, AppendProperties, LenProperties
  <2>3. /\ \A d \in Reloads : /\ d.id \in 1..Total
                              /\ \E i \in 1..Len(reloading) : reloading[i] = d.id
                              /\ d.step = "markets" => reloading[1] = d.id
        /\ \A d, e \in Reloads : d.id = e.id => d = e
    BY DEF OneStart, InTurn
  <2>4. ASSUME NEW d \in Reloads
        PROVE  /\ d.id \in 1..Total' /\ d.id # c.id
               /\ \E i \in 1..Len(reloading') : reloading'[i] = d.id
               /\ d.step = "markets" => reloading'[1] = d.id
    <3>1. PICK i \in 1..Len(reloading) : reloading[i] = d.id
      BY <2>3
    <3>2. i \in 1..Len(reloading') /\ 1 \in 1..Len(reloading)
      BY <2>2, <3>1
    <3> QED BY <1>2, <1>4, <2>2, <2>3, <3>1, <3>2
  <2>5. c.id \in 1..Total' /\ Len(reloading) + 1 \in 1..Len(reloading')
    BY <1>2, <1>4, <2>2
  <2> QED BY <1>2, <1>5, <2>2, <2>3, <2>4, <2>5 DEF InTurn
<1>7. used.starts # 0
  BY <1>3 DEF OneStart
<1> QED BY <1>2, <1>3, <1>4, <1>5, <1>6, <1>7 DEF OneStart

LEMMA OneStartStopping ==
  ASSUME IInv, Begun, OneStart, StopPolicies
  PROVE  OneStart'
<1>1. PICK c : c = [Call("stop", 0) EXCEPT !.id = 0]
  OBVIOUS
<1>2. c.kind = "stop" /\ c.step = "wait"
  BY <1>1 DEF Call
<1>3. calls' = calls \cup {c} /\ UNCHANGED <<managers, internal, leaked, reloading, hasStarted, used>> /\ hasStarted
  BY <1>1 DEF StopPolicies, schedulerVars, Begun
<1>4. Starts' = Starts /\ Reloads' = Reloads /\ Known' = Known /\ \A m : Restless(m)' <=> Restless(m)
  BY <1>2, <1>3 DEF Starts, Reloads, Known, Restless
<1>5. InTurn'
  BY <1>3, <1>4, SameTurn DEF OneStart
<1> QED BY <1>2, <1>3, <1>4, <1>5 DEF OneStart

\* The start is the only call until it ends.
LEMMA OnlyStart ==
  ASSUME OneStart, NEW c \in calls, c.kind = "start"
  PROVE  /\ calls = {c} /\ Starts = {c} /\ ~hasStarted /\ used.starts # 0
         /\ c.step # "markets" => Known = {}
         /\ \A m : Restless(m) <=> c.step = "markets" /\ m \in c.pending
<1>1. c \in Starts
  BY DEF Starts
<1>2. ~hasStarted /\ calls = Starts /\ Starts = {c}
  BY <1>1 DEF OneStart
<1>3. calls = {c}
  BY <1>2
<1>4. \A m : Restless(m) <=> c.step = "markets" /\ m \in c.pending
  BY <1>3 DEF Restless
<1> QED BY <1>1, <1>2, <1>3, <1>4 DEF OneStart

\* The start has come from c to d.
LEMMA OneStartGoesOn ==
  ASSUME OneStart, NEW c \in calls, c.kind = "start", NEW d, d.kind = "start",
         calls' = (calls \ {c}) \cup {d}, UNCHANGED <<leaked, reloading, hasStarted, used>>,
         d.step # "markets" => Known' = {},
         d.step # "failed" /\ (d.step # "wait" => d.config = internal'.config),
         d.step = "markets" => \A m \in d.pending : managers'[m].cron \in {"none", "stopped"},
         \A m \in Known' :
           /\ managers'[m].cron = "none" => d.step = "markets" /\ m \in d.pending
           /\ managers'[m].config = internal'.config \/ (d.step = "markets" /\ m \in d.pending)
  PROVE  OneStart'
<1>1. calls = {c} /\ ~hasStarted /\ used.starts # 0
  BY OnlyStart
<1>2. calls' = {d} /\ Starts' = {d} /\ Reloads' = {}
  BY <1>1 DEF Starts, Reloads
<1>3. InTurn'
  BY <1>2 DEF InTurn, OneStart
<1>4. \A m : Restless(m)' <=> d.step = "markets" /\ m \in d.pending
  BY <1>2 DEF Restless
<1> QED BY <1>1, <1>2, <1>3, <1>4 DEF OneStart

LEMMA OneStartLoads ==
  ASSUME Reasonable, IInv, OneStart, NEW c \in calls, StartBegins(c) \/ CountMarkets(c) \/ ListMarkets(c)
  PROVE  OneStart'
<1>1. c \in CallRecord /\ internal \in [size : Nat, config : Nat] /\ c.kind = "start" /\ c.step \in {"wait", "count", "list"}
  BY DEF IInv, Types, CallRecord, StartBegins, CountMarkets, ListMarkets
<1>2. Known = {} /\ (c.step # "wait" => c.config = internal.config) /\ \A m \in Markets : managers[m].cron = "unknown"
  BY <1>1, OnlyStart DEF OneStart, Known
<1>3. CASE StartBegins(c) \/ CountMarkets(c)
  <2>1. UNCHANGED <<managers, leaked, reloading, hasStarted, used>>
    BY <1>3 DEF StartBegins, CountMarkets, schedulerVars, lockVars, lifeVars
  <2>2. CASE StartBegins(c)
    <3>1. PICK d : d = [c EXCEPT !.step = "count"]
      OBVIOUS
    <3>2. d.kind = "start" /\ d.step = "count" /\ d.config = c.config
      BY <1>1, <3>1 DEF CallRecord
    <3>3. calls' = (calls \ {c}) \cup {d} /\ internal'.config = c.config
      BY <1>1, <2>2, <3>1 DEF StartBegins, Becomes
    <3> QED BY <1>1, <1>2, <2>1, <3>2, <3>3, OneStartGoesOn DEF Known
  <2>3. CASE CountMarkets(c)
    <3>1. PICK d : d = [c EXCEPT !.step = "list", !.size = Cardinality(active)]
      OBVIOUS
    <3>2. d.kind = "start" /\ d.step = "list" /\ d.config = c.config
      BY <1>1, <3>1 DEF CallRecord
    <3>3. calls' = (calls \ {c}) \cup {d} /\ internal' = internal /\ c.step = "count"
      BY <1>1, <2>3, <3>1 DEF CountMarkets, Becomes, schedulerVars
    <3> QED BY <1>1, <1>2, <2>1, <3>2, <3>3, OneStartGoesOn DEF Known
  <2> QED BY <1>3, <2>2, <2>3
<1>4. CASE ListMarkets(c)
  <2>1. PICK d : d = [c EXCEPT !.step = "markets", !.pending = active]
    OBVIOUS
  <2>2. d.kind = "start" /\ d.step = "markets" /\ d.config = c.config /\ d.pending = active
    BY <1>1, <2>1 DEF CallRecord
  <2>3. /\ calls' = (calls \ {c}) \cup {d} /\ internal'.config = internal.config /\ c.step = "list"
        /\ UNCHANGED <<reloading, hasStarted, used>>
        /\ leaked' = [m \in Markets |-> IF m \notin active /\ managers[m].cron = "live" THEN leaked[m] + 1 ELSE leaked[m]]
    BY <1>1, <1>4, <2>1 DEF ListMarkets, Becomes, lockVars, lifeVars
  <2>4. leaked' = leaked
    <3>1. leaked = [m \in Markets |-> 0]
      BY DEF OneStart
    <3> QED BY <1>2, <2>3, <3>1
  <2>5. Known' = active /\ \A m \in Known' : managers'[m].config = internal.config /\ managers'[m].cron = "none"
    BY <1>2, <1>4, ListResult
  <2> QED BY <1>1, <1>2, <2>2, <2>3, <2>4, <2>5, OneStartGoesOn
<1> QED BY <1>3, <1>4

LEMMA OneStartMarket ==
  ASSUME IInv, OneStart, NEW c \in calls, StartMarket(c)
  PROVE  OneStart'
<1>1. PICK m \in c.pending : SchedulerStarts(m, c.config) /\ Becomes(c, [c EXCEPT !.pending = @ \ {m}])
  BY DEF StartMarket
<1>2. /\ c \in CallRecord /\ m \in Markets /\ c.config \in Nat /\ Types /\ c.kind = "start" /\ c.step = "markets"
      /\ UNCHANGED <<internal, reloading, hasStarted, used>>
  BY DEF IInv, Types, CallRecord, StartMarket, lockVars, lifeVars
<1>3. PICK d : d = [c EXCEPT !.pending = @ \ {m}]
  OBVIOUS
<1>4. d.kind = "start" /\ d.step = "markets" /\ d.config = c.config /\ d.pending = c.pending \ {m}
  BY <1>2, <1>3 DEF CallRecord
<1>5. calls' = (calls \ {c}) \cup {d}
  BY <1>1, <1>3 DEF Becomes
<1>6. /\ \A n \in c.pending : managers[n].cron \in {"none", "stopped"}
      /\ c.config = internal.config /\ leaked = [n \in Markets |-> 0]
      /\ \A n \in Known : /\ managers[n].cron = "none" => n \in c.pending
                          /\ managers[n].config = internal.config \/ n \in c.pending
  BY <1>2, OnlyStart DEF OneStart
<1>7. m \in Known
  BY <1>2, <1>6 DEF Known
<1>8. /\ managers'[m].cron = "live" /\ managers'[m].config = c.config /\ Known' = Known /\ leaked' = leaked
      /\ \A n \in Markets \ {m} : managers'[n] = managers[n]
  BY <1>1, <1>2, <1>6, <1>7, SchedulerStarted
<1>9. c.pending \subseteq Markets /\ Known \subseteq Markets
  BY <1>2 DEF CallRecord, Known
<1>10. \A n \in d.pending : managers'[n].cron \in {"none", "stopped"}
  BY <1>4, <1>6, <1>8, <1>9
<1>11. \A n \in Known' : managers'[n].cron = "none" => n \in d.pending
  BY <1>4, <1>6, <1>8, <1>9
<1>12. \A n \in Known' : managers'[n].config = internal'.config \/ n \in d.pending
  BY <1>2, <1>4, <1>6, <1>8, <1>9
<1> QED BY <1>2, <1>4, <1>5, <1>6, <1>8, <1>10, <1>11, <1>12, OneStartGoesOn

LEMMA OneStartEnds ==
  ASSUME IInv, OneStart, NEW c \in calls, StartEnds(c)
  PROVE  OneStart'
<1>1. /\ c.kind = "start" /\ c.step = "markets" /\ c.pending = {} /\ calls' = calls \ {c} /\ hasStarted'
      /\ UNCHANGED <<internal, managers, leaked, reloading, used>>
  BY DEF StartEnds, schedulerVars
<1>2. calls = {c} /\ Starts = {c} /\ used.starts # 0 /\ \A m : ~Restless(m)
  BY <1>1, OnlyStart
<1>3. calls' = {} /\ Starts' = {} /\ Reloads' = {} /\ Known' = Known /\ \A m : ~Restless(m)'
  BY <1>1, <1>2 DEF Starts, Reloads, Known, Restless
<1>4. InTurn'
  BY <1>1, <1>3 DEF InTurn, OneStart
<1>5. \A m \in Known : managers[m].cron # "none" /\ managers[m].config = internal.config
  BY <1>1, <1>2 DEF OneStart
<1> QED BY <1>1, <1>2, <1>3, <1>4, <1>5 DEF OneStart

\* After the start every scheduler has a cron task.
LEMMA AfterStart ==
  ASSUME OneStart, NEW c \in calls, c.kind # "start"
  PROVE  /\ hasStarted /\ Starts = {} /\ used.starts # 0
         /\ \A m \in Known : managers[m].cron # "none"
<1>1. hasStarted
  BY DEF OneStart, Starts
<1>2. Starts = {} /\ used.starts # 0
  BY <1>1 DEF OneStart
<1> QED BY <1>1, <1>2 DEF OneStart

LEMMA OneStartReload ==
  ASSUME IInv, OneStart, NEW c \in calls, ReloadBegins(c)
  PROVE  OneStart'
<1> DEFINE unborn == {m \in Known : managers[m].cron = "none"}
<1>1. /\ c.kind = "reload" /\ c.step = "wait" /\ MayReload(c)
      /\ internal' = [internal EXCEPT !.config = c.config] /\ managers' = [m \in Markets |-> Stopped(m)]
      /\ Becomes(c, [c EXCEPT !.step = IF unborn = {} THEN "markets" ELSE "failed", !.pending = Known \ unborn])
      /\ reloading' = (IF unborn = {} THEN reloading ELSE Tail(reloading))
      /\ UNCHANGED <<leaked, hasStarted, used>>
  BY DEF ReloadBegins
<1>2. c \in CallRecord /\ internal \in [size : Nat, config : Nat] /\ managers \in [Markets -> Manager]
  BY DEF IInv, Types
<1>3. unborn = {} /\ hasStarted /\ Starts = {} /\ used.starts # 0
  BY <1>1, AfterStart
<1>4. PICK d : d = [c EXCEPT !.step = IF unborn = {} THEN "markets" ELSE "failed", !.pending = Known \ unborn]
  OBVIOUS
<1>5. d.kind = "reload" /\ d.step = "markets" /\ d.pending = Known /\ d.id = c.id /\ d.config = c.config
  BY <1>1, <1>2, <1>3, <1>4 DEF CallRecord
<1>6. calls' = (calls \ {c}) \cup {d} /\ reloading' = reloading /\ internal'.config = c.config
  BY <1>1, <1>2, <1>3, <1>4 DEF Becomes
<1> HIDE DEF unborn
<1>7. c \in Reloads /\ reloading[1] = c.id /\ InTurn
  BY <1>1 DEF Reloads, MayReload, Holds, OneStart
<1>8. \A e \in calls \ {c} : e.step = "wait"
  <2> SUFFICES ASSUME NEW e \in calls \ {c}, e.step # "wait" PROVE FALSE
    OBVIOUS
  <2>1. e \in CallRecord /\ e.kind # "start"
    BY <1>3 DEF IInv, Types, Starts
  <2>2. e.kind = "reload" /\ e.step = "markets"
    BY <2>1 DEF IInv, Types, CallRecord, OneStart
  <2> QED BY <1>7, <2>2, OnlyReload DEF Reloads
<1>9. Starts' = {} /\ InTurn'
  BY <1>1, <1>3, <1>5, <1>6, <1>7, TurnGoesOn DEF Starts
<1>10. \A m \in Markets : managers'[m].cron = (IF managers[m].cron = "live" THEN "stopped" ELSE managers[m].cron)
  BY <1>1, <1>2 DEF Stopped, Manager
<1>11. Known' = Known /\ \A m \in Known : managers'[m].cron \in {"none", "stopped"} /\ managers'[m].cron # "none"
  <2>1. Known' = Known
    BY <1>10 DEF Known
  <2>2. \A m \in Known : managers[m].cron \in {"live", "stopped"}
    BY <1>1, <1>2, AfterStart DEF Known, Manager
  <2> QED BY <1>10, <2>1, <2>2 DEF Known
<1>12. \A m \in Known' : Restless(m)'
  BY <1>5, <1>6, <1>11 DEF Restless
<1>13. \A e \in calls' : /\ e.step # "failed" /\ (e.kind = "stop" => e.step = "wait")
                         /\ e.step # "wait" => e.config = internal'.config
                         /\ e.step = "markets" => \A m \in e.pending : managers'[m].cron \in {"none", "stopped"}
  BY <1>5, <1>6, <1>8, <1>11
<1>14. leaked' = [m \in Markets |-> 0] /\ hasStarted' /\ used'.starts # 0
  BY <1>1, <1>3 DEF OneStart
<1> QED BY <1>9, <1>11, <1>12, <1>13, <1>14 DEF OneStart

LEMMA OneStartReloadMarket ==
  ASSUME IInv, OneStart, NEW c \in calls, ReloadMarket(c)
  PROVE  OneStart'
<1>1. PICK m \in c.pending : SchedulerStarts(m, c.config) /\ Becomes(c, [c EXCEPT !.pending = @ \ {m}])
  BY DEF ReloadMarket
<1>2. /\ c \in CallRecord /\ m \in Markets /\ c.config \in Nat /\ Types /\ c.kind = "reload" /\ c.step = "markets"
      /\ UNCHANGED <<internal, reloading, hasStarted, used>>
  BY DEF IInv, Types, CallRecord, ReloadMarket, lockVars, lifeVars, OneStart
<1>3. PICK d : d = [c EXCEPT !.pending = @ \ {m}]
  OBVIOUS
<1>4. d.kind = "reload" /\ d.step = "markets" /\ d.config = c.config /\ d.pending = c.pending \ {m} /\ d.id = c.id
  BY <1>2, <1>3 DEF CallRecord
<1>5. calls' = (calls \ {c}) \cup {d}
  BY <1>1, <1>3 DEF Becomes
<1>6. hasStarted /\ Starts = {} /\ used.starts # 0 /\ \A n \in Known : managers[n].cron # "none"
  BY <1>2, AfterStart
<1>7. c \in Reloads /\ reloading[1] = c.id /\ InTurn
  BY <1>2 DEF Reloads, OneStart, InTurn
<1>8. \A e \in calls \ {c} : e.step = "wait"
  <2> SUFFICES ASSUME NEW e \in calls \ {c}, e.step # "wait" PROVE FALSE
    OBVIOUS
  <2>1. e \in CallRecord /\ e.kind # "start"
    BY <1>6 DEF IInv, Types, Starts
  <2>2. e.kind = "reload" /\ e.step = "markets"
    BY <2>1 DEF IInv, Types, CallRecord, OneStart
  <2> QED BY <1>7, <2>2, OnlyReload DEF Reloads
<1>9. Starts' = {} /\ InTurn'
  BY <1>2, <1>4, <1>5, <1>6, <1>7, TurnGoesOn DEF Starts
<1>10. /\ \A n \in c.pending : managers[n].cron \in {"none", "stopped"}
       /\ c.config = internal.config /\ leaked = [n \in Markets |-> 0]
  BY <1>2 DEF OneStart
<1>11. m \in Known
  BY <1>2, <1>10 DEF Known
<1>12. /\ managers'[m].cron = "live" /\ managers'[m].config = c.config /\ Known' = Known /\ leaked' = leaked
       /\ \A n \in Markets \ {m} : managers'[n] = managers[n]
  BY <1>1, <1>2, <1>10, <1>11, SchedulerStarted
<1>13. c.pending \subseteq Markets /\ Known \subseteq Markets
  BY <1>2 DEF CallRecord, Known
<1>14. \A n \in d.pending : managers'[n].cron \in {"none", "stopped"}
  BY <1>4, <1>10, <1>12, <1>13
<1>15. \A n \in Known' : managers'[n].cron # "none"
  BY <1>6, <1>12, <1>13
<1>16. \A n \in Known' : managers'[n].config = internal'.config \/ Restless(n)'
  <2> SUFFICES ASSUME NEW n \in Known, n # m PROVE managers'[n].config = internal'.config \/ Restless(n)'
    BY <1>2, <1>10, <1>12
  <2>1. managers[n].config = internal.config \/ Restless(n)
    BY DEF OneStart
  <2>2. Restless(n) => Restless(n)'
    BY <1>4, <1>5 DEF Restless
  <2> QED BY <1>2, <1>12, <1>13, <2>1, <2>2
<1>17. \A e \in calls' : /\ e.step # "failed" /\ (e.kind = "stop" => e.step = "wait")
                         /\ e.step # "wait" => e.config = internal'.config
                         /\ e.step = "markets" => \A n \in e.pending : managers'[n].cron \in {"none", "stopped"}
  BY <1>2, <1>4, <1>5, <1>8, <1>10, <1>14
<1>18. leaked' = [n \in Markets |-> 0] /\ hasStarted' /\ used'.starts # 0
  BY <1>2, <1>6, <1>10, <1>12
<1> QED BY <1>9, <1>15, <1>16, <1>17, <1>18 DEF OneStart

LEMMA OneStartReloadEnds ==
  ASSUME IInv, OneStart, NEW c \in calls, ReloadEnds(c)
  PROVE  OneStart'
<1>1. /\ c.kind = "reload" /\ c.step = "markets" /\ c.pending = {} /\ calls' = calls \ {c}
      /\ reloading' = Tail(reloading) /\ UNCHANGED <<internal, managers, leaked, hasStarted, used>>
  BY DEF ReloadEnds, OneStart, schedulerVars, lifeVars
<1>2. hasStarted /\ Starts = {} /\ used.starts # 0 /\ \A m \in Known : managers[m].cron # "none"
  BY <1>1, AfterStart
<1>3. c \in Reloads /\ reloading[1] = c.id /\ InTurn
  BY <1>1 DEF Reloads, OneStart, InTurn
<1>4. Starts' = {} /\ Reloads' = Reloads \ {c} /\ Known' = Known /\ \A m : Restless(m) => Restless(m)'
  BY <1>1, <1>2 DEF Starts, Reloads, Known, Restless
<1>5. InTurn'
  <2>1. reloading \in Seq(Nat) /\ reloading # <<>>
    BY <1>3 DEF InTurn
  <2>2. /\ reloading' \in Seq(Nat) /\ Len(reloading) \in Nat /\ Len(reloading') = Len(reloading) - 1
        /\ \A i \in 1..Len(reloading') : reloading'[i] = reloading[i + 1]
    BY <1>1, <2>1, HeadTailProperties, LenProperties
  <2>3. ASSUME NEW d \in Reloads \ {c}
        PROVE  /\ d.id \in 1..Total /\ d.step # "markets"
               /\ \E i \in 1..Len(reloading') : reloading'[i] = d.id
    <3>1. PICK i \in 1..Len(reloading) : reloading[i] = d.id
      BY <1>3 DEF InTurn
    <3>2. d.id # c.id
      BY <1>3 DEF InTurn
    <3>3. i # 1
      BY <1>3, <3>1, <3>2
    <3>4. i - 1 \in 1..Len(reloading') /\ reloading'[i - 1] = d.id
      BY <2>2, <3>1, <3>3
    <3>5. d.step # "markets"
      BY <1>3, OnlyReload
    <3> QED BY <1>3, <3>4, <3>5 DEF InTurn
  <2> QED BY <1>1, <1>3, <1>4, <2>2, <2>3 DEF InTurn, Total
<1> QED BY <1>1, <1>2, <1>4, <1>5 DEF OneStart

LEMMA OneStartStop ==
  ASSUME IInv, OneStart, NEW c \in calls, StopAll(c)
  PROVE  OneStart'
<1>1. /\ c.kind = "stop" /\ managers' = [m \in Markets |-> Stopped(m)] /\ calls' = calls \ {c}
      /\ UNCHANGED <<internal, leaked, reloading, hasStarted, used>>
  BY DEF StopAll
<1>2. managers \in [Markets -> Manager]
  BY DEF IInv, Types
<1>3. hasStarted /\ Starts = {} /\ used.starts # 0 /\ \A m \in Known : managers[m].cron # "none"
  BY <1>1, AfterStart
<1>4. c.step = "wait"
  BY <1>1 DEF OneStart
<1>5. /\ \A m \in Markets : managers'[m].config = managers[m].config
      /\ \A m \in Markets : managers'[m].cron = (IF managers[m].cron = "live" THEN "stopped" ELSE managers[m].cron)
  BY <1>1, <1>2 DEF Stopped, Manager
<1>6. Known' = Known /\ Known \subseteq Markets
  BY <1>5 DEF Known
<1>7. Starts' = {} /\ Reloads' = Reloads /\ \A m : Restless(m) => Restless(m)'
  BY <1>1, <1>3, <1>4 DEF Starts, Reloads, Restless
<1>8. InTurn'
  BY <1>1, <1>7, SameTurn DEF OneStart
<1>9. \A e \in calls : e.pending \subseteq Markets
  BY DEF IInv, Types, CallRecord
<1>10. \A e \in calls' : /\ e.step # "failed" /\ (e.kind = "stop" => e.step = "wait")
                         /\ e.step # "wait" => e.config = internal'.config
                         /\ e.step = "markets" => \A m \in e.pending : managers'[m].cron \in {"none", "stopped"}
  BY <1>1, <1>5, <1>9 DEF OneStart
<1>11. \A m \in Known' : managers'[m].cron # "none" /\ (managers'[m].config = internal'.config \/ Restless(m)')
  BY <1>1, <1>3, <1>5, <1>6, <1>7 DEF OneStart
<1>12. leaked' = [m \in Markets |-> 0] /\ hasStarted' /\ used'.starts # 0
  BY <1>1, <1>3 DEF OneStart
<1> QED BY <1>7, <1>8, <1>10, <1>11, <1>12 DEF OneStart

LEMMA NextOneStart ==
  ASSUME Reasonable, IInv, Begun, used.starts <= 1 => OneStart, [Next]_vars, used'.starts <= 1
  PROVE  OneStart'
<1>1. used \in [starts : Nat, reloads : Nat]
  BY DEF IInv, Types
<1>2. CASE TargetStart
  <2>1. used'.starts = used.starts + 1
    BY <1>1, <1>2 DEF TargetStart
  <2>2. used.starts = 0
    BY <1>1, <2>1
  <2> QED BY <1>2, <2>2, OneStartTarget
<1>3. CASE ~TargetStart
  <2>1. used'.starts = used.starts
    BY <1>1, <1>3 DEF Next, Progress, vars, Proceed, ResetMarketStatuses, SetupMarket, InitManagers, PoliciesStarted, Terminate,
              Exit, ForceTermination, AskReload, StopPolicies, StartBegins, CountMarkets, ListMarkets, StartMarket,
              StartEnds, ReloadBegins, ReloadMarket, ReloadEnds, StopAll
  <2>2. OneStart
    BY <2>1
  <2>3. CASE UNCHANGED vars \/ ResetMarketStatuses \/ SetupMarket \/ InitManagers \/ PoliciesStarted \/ Terminate
             \/ Exit \/ ForceTermination
    <3>1. UNCHANGED <<leaked, managers, calls, reloading, hasStarted, used>> /\ internal'.config = internal.config
      <4>1. CASE UNCHANGED vars
        BY <4>1 DEF vars
      <4>2. CASE ResetMarketStatuses \/ SetupMarket
        BY <4>2 DEF ResetMarketStatuses, SetupMarket, schedulerVars, lockVars, lifeVars
      <4>3. CASE InitManagers
        <5>1. internal \in [size : Nat, config : Nat]
          BY DEF IInv, Types
        <5> QED BY <4>3, <5>1 DEF InitManagers, lockVars
      <4>4. CASE PoliciesStarted \/ Terminate \/ Exit \/ ForceTermination
        BY <4>4 DEF PoliciesStarted, Terminate, Exit, ForceTermination, schedulerVars, lockVars
      <4> QED BY <2>3, <4>1, <4>2, <4>3, <4>4
    <3> QED BY <2>2, <3>1, OneStartAside
  <2>4. CASE AskReload
    BY <2>2, <2>4, OneStartAsk
  <2>5. CASE StopPolicies
    BY <2>2, <2>5, OneStartStopping
  <2>6. ASSUME NEW c \in calls, Proceed(c) PROVE OneStart'
    BY <2>2, <2>6, OneStartLoads, OneStartMarket, OneStartEnds, OneStartReload, OneStartReloadMarket,
       OneStartReloadEnds, OneStartStop DEF Proceed
  <2> QED BY <1>3, <2>3, <2>4, <2>5, <2>6 DEF Next, Progress
<1> QED BY <1>2, <1>3

\* For any markets, any seeder and any starts and reloads: a replica that runs and
\* has nothing under way runs all its schedulers; and with what it has announced
\* and each of them once, if it has been started once.
THEOREM RunAsAnnouncedHolds == ASSUME Reasonable PROVE Spec => []RunAsAnnounced
<1>1. Init => IInv /\ Steady
  BY InitIInv, InitSteady
<1>2. IInv /\ Steady /\ [Next]_vars => (IInv /\ Steady)'
  <2> SUFFICES ASSUME IInv, Steady, [Next]_vars PROVE (IInv /\ Steady)'
    OBVIOUS
  <2> QED BY NextIInv, NextStarting, NextBegun, NextOneStart DEF Steady
<1>3. IInv /\ Steady => RunAsAnnounced
  <2> SUFFICES ASSUME IInv, Steady PROVE RunAsAnnounced
    OBVIOUS
  <2>1. used.starts <= 1 => \A m \in Markets : leaked[m] = 0
    BY DEF Steady, OneStart
  <2>2. ASSUME life = "running", calls = {}, NEW m \in Known
        PROVE  managers[m].cron = "live" /\ (used.starts = 1 => managers[m].config = internal.config)
    <3>1. ~Restless(m) /\ ~Awaited(m)
      BY <2>2 DEF Restless, Awaited
    <3>2. used.starts = 1 => used.starts <= 1
      OBVIOUS
    <3> QED BY <2>2, <3>1, <3>2 DEF Steady, AllStarting, OneStart
  <2> QED BY <2>1, <2>2 DEF RunAsAnnounced
<1> QED BY <1>1, <1>2, <1>3, PTL DEF Spec

-----------------------------------------------------------------------------

(* The seeders. *)

CONSTANTS Seeders, Plans, Stored, Listed, MaxFaults, Null
VARIABLES plan, known, markets, seeder, reported, faults

Seed == INSTANCE Seeding

Flags == {"active", "historical"}
Row == [active : BOOLEAN, historical : BOOLEAN]
Entries(q) == {q[i] : i \in DOMAIN q}
IsList(q) == q \in Seq(Entries(q))
OnceEach(exchanges) == \A i, j \in DOMAIN exchanges : exchanges[i].id = exchanges[j].id => i = j

\* Every exchange is once in a configuration, and it is one of CCXT's to all the
\* seeders that have it, or to none.
Plausible(p) ==
  /\ \A s \in Seeders :
       /\ p[s].kind \in Seed!Kinds /\ IsList(p[s].exchanges) /\ OnceEach(p[s].exchanges)
       /\ \A c \in Entries(p[s].exchanges) : IsList(c.symbols)
  /\ \A s, t \in Seeders : \A c \in Entries(p[s].exchanges), d \in Entries(p[t].exchanges) :
       c.id = d.id => (p[s].kind = "config" <=> p[t].kind = "config")

Configuration ==
  /\ \A p \in Plans : Plausible(p)
  /\ \A m \in Stored : m \in [DOMAIN m -> Row]
  /\ Null \notin Row

\* What a seeder is at.
Before == {"find exchange", "write exchange", "reset", "load"}
Within == {"find", "write"}
Idling == {"idle", "ended", "crashed"}

\* x is the state of a seeder that is to seed these exchanges.
Sane(x, exchanges) ==
  /\ DOMAIN x = {"at", "exchanges", "symbols", "found"} /\ x.at \in Idling \cup Before \cup Within
  /\ IsList(x.exchanges) /\ Entries(x.exchanges) \subseteq Entries(exchanges) /\ OnceEach(x.exchanges)
  /\ x.at \notin Idling => x.exchanges # <<>>
  /\ x.at \in Within => x.symbols # <<>> /\ IsList(x.symbols)
                        /\ Entries(x.symbols) \subseteq Entries(Head(x.exchanges).symbols)

Wants(exchanges, e, y) == \E c \in Entries(exchanges) : c.id = e /\ y \in Entries(c.symbols)
Later(x, e, y) == Wants(Tail(x.exchanges), e, y)

\* The market is among those the seeder is still to select.
Left(x, flag, e, y) ==
  \/ x.at \notin Idling /\ Later(x, e, y)
  \/ /\ x.at \notin Idling /\ e = Head(x.exchanges).id
     /\ \/ x.at \in Before /\ y \in Entries(Head(x.exchanges).symbols)
        \/ x.at \in Within /\ y \in Entries(Tail(x.symbols))
        \/ x.at = "find" /\ y = Head(x.symbols)
        \/ x.at = "write" /\ y = Head(x.symbols) /\ (x.found = Null \/ ~x.found[flag])

SeedTypes ==
  /\ Null \notin Row /\ Plausible(plan) /\ markets \in [DOMAIN markets -> Row]
  /\ DOMAIN seeder = Seeders /\ DOMAIN reported = Seeders
  /\ \A s \in Seeders :
       /\ Sane(seeder[s], plan[s].exchanges)
       /\ seeder[s].at = "write" /\ seeder[s].found # Null =>
            seeder[s].found \in Row /\ Seed!Key(s) \in DOMAIN markets
       /\ seeder[s].at = "idle" => reported[s] = {}
       /\ \A r \in reported[s] : r[1] \in Seed!ExchangesOf(s)

IsSelected(flag, e, y) == <<e, y>> \in DOMAIN markets /\ markets[<<e, y>>][flag]

\* This seeder answers for a market that is not selected.
Answers(t, e, y) ==
  \/ {<<e, y>>, <<e, Null>>} \cap reported[t] # {}
  \/ seeder[t].at # "idle" /\ e \in Seed!ExchangesOf(t) /\ ~Wants(plan[t].exchanges, e, y)
  \/ seeder[t].at = "crashed" /\ e \in Seed!ExchangesOf(t)
  \/ Left(seeder[t], Seed!Flag(t), e, y)

Answered(s) ==
  seeder[s].at # "idle" =>
    \A e, y : Wants(plan[s].exchanges, e, y) =>
      \/ Seed!IsCCXT(s) /\ <<e, y>> \notin Listed
      \/ IsSelected(Seed!Flag(s), e, y)
      \/ \E t \in Seed!Alike(s) : Answers(t, e, y)

\* The rows of an exchange whose flag is set are those of seeders of the flag.
Clean(flag, e) ==
  \A key \in DOMAIN markets : key[1] = e /\ markets[key][flag] =>
    \E t \in Seeders : \E y : Seed!Flag(t) = flag /\ Wants(plan[t].exchanges, e, y) /\ key = <<e, y>>

\* The seeder is still to reset the exchange.
Coming(x, e) ==
  \/ x.at \notin Idling /\ \E c \in Entries(Tail(x.exchanges)) : c.id = e
  \/ x.at \in Before \ {"load"} /\ Head(x.exchanges).id = e

Cleaned(s) ==
  seeder[s].at \notin {"idle", "crashed"} =>
    \A e \in Seed!ExchangesOf(s) : <<e, Null>> \in reported[s] \/ Coming(seeder[s], e) \/ Clean(Seed!Flag(s), e)

SeedInv == SeedTypes /\ \A s \in Seeders : Answered(s) /\ Cleaned(s)

-----------------------------------------------------------------------------

LEMMA ListParts ==
  ASSUME NEW q, IsList(q), q # <<>>
  PROVE  /\ IsList(Tail(q)) /\ Head(q) \in Entries(q)
         /\ Entries(q) = {Head(q)} \cup Entries(Tail(q))
         /\ OnceEach(q) => OnceEach(Tail(q)) /\ \A c \in Entries(Tail(q)) : c.id # Head(q).id
<1> DEFINE S == Entries(q)
<1>1. q \in Seq(S) /\ q # <<>>
  BY DEF IsList
<1> HIDE DEF S
<1>2. /\ Head(q) = q[1] /\ Len(q) \in Nat \ {0} /\ DOMAIN q = 1..Len(q)
      /\ Tail(q) \in Seq(S) /\ Len(Tail(q)) = Len(q) - 1 /\ DOMAIN Tail(q) = 1..(Len(q) - 1)
      /\ \A i \in 1..(Len(q) - 1) : Tail(q)[i] = q[i + 1]
  BY <1>1, HeadTailProperties, LenProperties
<1>3. Entries(q) = {q[i] : i \in 1..Len(q)} /\ Entries(Tail(q)) = {Tail(q)[i] : i \in 1..(Len(q) - 1)}
  BY <1>2 DEF Entries
<1>4. \A i \in 1..(Len(q) - 1) : i + 1 \in 1..Len(q) /\ i + 1 # 1
  BY <1>2
<1>5. 1 \in 1..Len(q) /\ \A i \in 1..Len(q) : i = 1 \/ (i - 1 \in 1..(Len(q) - 1) /\ (i - 1) + 1 = i)
  BY <1>2
<1>6. Entries(q) = {Head(q)} \cup Entries(Tail(q))
  <2>1. ASSUME NEW c \in Entries(q) PROVE c = Head(q) \/ c \in Entries(Tail(q))
    <3>1. PICK i \in 1..Len(q) : c = q[i]
      BY <1>3
    <3>2. CASE i # 1
      <4>1. c = Tail(q)[i - 1] /\ i - 1 \in 1..(Len(q) - 1)
        BY <1>2, <1>5, <3>1, <3>2
      <4> QED BY <1>3, <4>1
    <3> QED BY <1>2, <3>1, <3>2
  <2>2. Head(q) \in Entries(q)
    BY <1>2, <1>3, <1>5
  <2>3. Entries(Tail(q)) \subseteq Entries(q)
    BY <1>2, <1>3, <1>4
  <2> QED BY <2>1, <2>2, <2>3
<1>7. IsList(Tail(q))
  <2> DEFINE r == Tail(q)
             T == {r[i] : i \in DOMAIN r}
  <2>1. DOMAIN r = 1..Len(r) /\ Len(r) \in Nat /\ r \in Seq(S)
    BY <1>2
  <2> HIDE DEF r
  <2>2. \A i \in 1..Len(r) : r[i] \in T
    BY <2>1
  <2> HIDE DEF T
  <2>3. r \in Seq(T)
    BY <2>1, <2>2
  <2> QED BY <2>3 DEF IsList, Entries, r, T
<1>8. ASSUME OnceEach(q) PROVE OnceEach(Tail(q)) /\ \A c \in Entries(Tail(q)) : c.id # Head(q).id
  <2>1. \A i, j \in 1..Len(q) : q[i].id = q[j].id => i = j
    BY <1>2, <1>8 DEF OnceEach
  <2>2. ASSUME NEW i \in 1..(Len(q) - 1), NEW j \in 1..(Len(q) - 1), Tail(q)[i].id = Tail(q)[j].id
        PROVE  i = j
    <3>1. i + 1 = j + 1
      BY <1>2, <1>4, <2>1, <2>2
    <3> QED BY <3>1
  <2>3. \A i \in 1..(Len(q) - 1) : Tail(q)[i].id # Head(q).id
    BY <1>2, <1>4, <1>5, <2>1
  <2> QED BY <1>2, <1>3, <2>2, <2>3 DEF OnceEach
<1> QED BY <1>6, <1>7, <1>8

LEMMA WantsParts ==
  ASSUME NEW q, IsList(q), q # <<>>, NEW e, NEW y
  PROVE  Wants(q, e, y) <=> Wants(Tail(q), e, y) \/ (Head(q).id = e /\ y \in Entries(Head(q).symbols))
BY ListParts DEF Wants

\* The loop over exchanges goes on.
LEMMA ToExchange ==
  ASSUME NEW q, NEW exchanges, IsList(q), OnceEach(q), Entries(q) \subseteq Entries(exchanges)
  PROVE  /\ Sane(Seed!AtExchange(q), exchanges)
         /\ Seed!AtExchange(q).at \in {"ended", "find exchange"}
         /\ \A flag, e, y : Left(Seed!AtExchange(q), flag, e, y) <=> Wants(q, e, y)
         /\ \A e : Coming(Seed!AtExchange(q), e) <=> \E c \in Entries(q) : c.id = e
<1> DEFINE x == Seed!AtExchange(q)
<1>1. /\ x.at = IF q = <<>> THEN "ended" ELSE "find exchange"
      /\ x.exchanges = q /\ DOMAIN x = {"at", "exchanges", "symbols", "found"}
  BY DEF Seed!AtExchange, Seed!Idle
<1> HIDE DEF x
<1>2. Sane(x, exchanges)
  BY <1>1 DEF Sane, Idling, Before, Within
<1>3. ASSUME NEW flag, NEW e, NEW y PROVE Left(x, flag, e, y) <=> Wants(q, e, y)
  <2>1. CASE q = <<>>
    BY <1>1, <2>1 DEF Left, Wants, Entries, Idling, Before, Within
  <2>2. CASE q # <<>>
    BY <1>1, <2>2, WantsParts DEF Left, Later, Idling, Before, Within
  <2> QED BY <2>1, <2>2
<1>4. ASSUME NEW e PROVE Coming(x, e) <=> \E c \in Entries(q) : c.id = e
  <2>1. CASE q = <<>>
    BY <1>1, <2>1 DEF Coming, Entries, Idling, Before
  <2>2. CASE q # <<>>
    <3>1. Entries(q) = {Head(q)} \cup Entries(Tail(q))
      BY <2>2, ListParts
    <3> QED BY <1>1, <2>2, <3>1 DEF Coming, Idling, Before
  <2> QED BY <2>1, <2>2
<1> QED BY <1>1, <1>2, <1>3, <1>4 DEF x

\* The loop over symbols goes on, or that over exchanges.
LEMMA ToSymbol ==
  ASSUME SeedTypes, NEW s \in Seeders, seeder[s].at \notin Idling,
         NEW r, IsList(r), Entries(r) \subseteq Entries(Head(seeder[s].exchanges).symbols)
  PROVE  /\ Sane(Seed!AtSymbol(s, r), plan[s].exchanges)
         /\ Seed!AtSymbol(s, r).at \in {"ended", "find exchange", "find"}
         /\ \A flag, e, y : Left(Seed!AtSymbol(s, r), flag, e, y) <=>
              Later(seeder[s], e, y) \/ (e = Head(seeder[s].exchanges).id /\ y \in Entries(r))
         /\ \A e : Coming(Seed!AtSymbol(s, r), e) <=> \E c \in Entries(Tail(seeder[s].exchanges)) : c.id = e
<1> DEFINE x == seeder[s]  q == seeder[s].exchanges  x2 == Seed!AtSymbol(s, r)
<1>1. Sane(x, plan[s].exchanges)
  BY DEF SeedTypes
<1>2. IsList(q) /\ q # <<>> /\ OnceEach(q) /\ Entries(q) \subseteq Entries(plan[s].exchanges)
  BY <1>1 DEF Sane
<1>3. IsList(Tail(q)) /\ OnceEach(Tail(q)) /\ Entries(Tail(q)) \subseteq Entries(plan[s].exchanges)
  BY <1>2, ListParts
<1>4. CASE r = <<>>
  <2>1. x2 = Seed!AtExchange(Tail(q)) /\ Entries(r) = {}
    BY <1>4 DEF Seed!AtSymbol, Entries
  <2> HIDE DEF x2, q
  <2>2. /\ Sane(x2, plan[s].exchanges) /\ x2.at \in {"ended", "find exchange"}
        /\ \A flag, e, y : Left(x2, flag, e, y) <=> Wants(Tail(q), e, y)
        /\ \A e : Coming(x2, e) <=> \E c \in Entries(Tail(q)) : c.id = e
    BY ONLY <1>3, <2>1, ToExchange
  <2> QED BY <2>1, <2>2 DEF Later, x2, q
<1>5. CASE r # <<>>
  <2>1. DOMAIN x = {"at", "exchanges", "symbols", "found"}
    BY <1>1 DEF Sane
  <2>2. /\ x2.at = "find" /\ x2.exchanges = q /\ x2.symbols = r /\ x2.found = Null
        /\ DOMAIN x2 = {"at", "exchanges", "symbols", "found"}
    BY <1>5, <2>1 DEF Seed!AtSymbol
  <2>3. Entries(r) = {Head(r)} \cup Entries(Tail(r))
    BY <1>5, ListParts
  <2> HIDE DEF x2
  <2>4. Sane(x2, plan[s].exchanges)
    BY <1>2, <1>5, <2>2 DEF Sane, Idling, Before, Within
  <2>5. ASSUME NEW flag, NEW e, NEW y
        PROVE  Left(x2, flag, e, y) <=> Later(x, e, y) \/ (e = Head(q).id /\ y \in Entries(r))
    BY <2>2, <2>3 DEF Left, Later, Idling, Before, Within
  <2>6. ASSUME NEW e PROVE Coming(x2, e) <=> \E c \in Entries(Tail(q)) : c.id = e
    BY <2>2 DEF Coming, Idling, Before
  <2> QED BY <2>2, <2>4, <2>5, <2>6 DEF x2
<1> QED BY <1>4, <1>5

\* What a step of t must not touch.
Alone(t) ==
  /\ UNCHANGED plan /\ DOMAIN seeder' = Seeders /\ DOMAIN reported' = Seeders
  /\ \A u \in Seeders \ {t} : seeder'[u] = seeder[u] /\ reported'[u] = reported[u]

LEMMA TypesStep ==
  ASSUME SeedTypes, NEW t \in Seeders, Alone(t),
         markets' \in [DOMAIN markets' -> Row], DOMAIN markets \subseteq DOMAIN markets',
         Sane(seeder'[t], plan[t].exchanges), seeder'[t].at # "idle",
         seeder'[t].at = "write" /\ seeder'[t].found # Null =>
           /\ seeder'[t].found \in Row
           /\ <<Head(seeder'[t].exchanges).id, Head(seeder'[t].symbols)>> \in DOMAIN markets',
         \A r \in reported'[t] : r[1] \in Seed!ExchangesOf(t)
  PROVE  SeedTypes'
<1>1. \A u \in Seeders : Seed!ExchangesOf(u)' = Seed!ExchangesOf(u)
  BY DEF Seed!ExchangesOf, Alone
<1>2. ASSUME NEW u \in Seeders
      PROVE  /\ Sane(seeder'[u], plan'[u].exchanges)
             /\ seeder'[u].at = "write" /\ seeder'[u].found # Null =>
                  seeder'[u].found \in Row /\ Seed!Key(u)' \in DOMAIN markets'
             /\ seeder'[u].at = "idle" => reported'[u] = {}
             /\ \A r \in reported'[u] : r[1] \in Seed!ExchangesOf(u)'
  <2>1. CASE u = t
    BY <1>1, <2>1 DEF Alone, Seed!Key, Seed!Exchange, Seed!Symbol
  <2>2. CASE u # t
    <3>1. seeder'[u] = seeder[u] /\ reported'[u] = reported[u] /\ plan' = plan
      BY <2>2 DEF Alone
    <3>2. Seed!Key(u)' = Seed!Key(u)
      BY <3>1 DEF Seed!Key, Seed!Exchange, Seed!Symbol
    <3> QED BY <1>1, <3>1, <3>2 DEF SeedTypes
  <2> QED BY <2>1, <2>2
<1>3. Plausible(plan)'
  BY DEF Plausible, Alone, SeedTypes
<1> QED BY <1>2, <1>3 DEF SeedTypes, Alone

\* Whatever t answered for is selected, passed over, or still answered for.
Excused(t, e, y) == Seed!IsCCXT(t) /\ <<e, y>> \notin Listed /\ e \in Seed!ExchangesOf(t)
Kept(t) ==
  \A e, y : Answers(t, e, y) => Answers(t, e, y)' \/ IsSelected(Seed!Flag(t), e, y)' \/ Excused(t, e, y)

\* What t takes back, it answers for.
RowsKept(t) ==
  \A flag \in Flags : \A e, y : IsSelected(flag, e, y) =>
    IsSelected(flag, e, y)' \/ (flag = Seed!Flag(t) /\ Answers(t, e, y)')

\* Whoever begins answers for all it is to select.
BeginsWhole(t) ==
  seeder[t].at = "idle" => \A e, y : Wants(plan[t].exchanges, e, y) => Answers(t, e, y)'

LEMMA KeptStep ==
  ASSUME SeedTypes, NEW t \in Seeders, Alone(t), reported[t] \subseteq reported'[t],
         seeder'[t].at # "idle", seeder[t].at # "crashed",
         \A e, y : Left(seeder[t], Seed!Flag(t), e, y) =>
           Answers(t, e, y)' \/ IsSelected(Seed!Flag(t), e, y)' \/ Excused(t, e, y)
  PROVE  Kept(t)
<1>1. plan' = plan /\ Seed!ExchangesOf(t)' = Seed!ExchangesOf(t)
  BY DEF Alone, Seed!ExchangesOf
<1> QED BY <1>1 DEF Kept, Answers

LEMMA CombineAnswered ==
  ASSUME SeedTypes, NEW t \in Seeders, Alone(t), Kept(t), RowsKept(t), BeginsWhole(t),
         \A s \in Seeders : Answered(s)
  PROVE  \A s \in Seeders : Answered(s)'
<1> SUFFICES ASSUME NEW s \in Seeders, seeder'[s].at # "idle", NEW e, NEW y, Wants(plan'[s].exchanges, e, y)
             PROVE  \/ Seed!IsCCXT(s)' /\ <<e, y>> \notin Listed
                    \/ IsSelected(Seed!Flag(s), e, y)'
                    \/ \E u \in Seed!Alike(s)' : Answers(u, e, y)'
  BY DEF Answered
<1>1. plan' = plan
  BY DEF Alone
<1>2. \A u \in Seeders : Seed!Flag(u)' = Seed!Flag(u) /\ (Seed!IsCCXT(u)' <=> Seed!IsCCXT(u)) /\ Seed!Alike(u)' = Seed!Alike(u)
  BY <1>1 DEF Seed!Flag, Seed!IsCCXT, Seed!Alike
<1>3. \A u \in Seeders \ {t} : Answers(u, e, y)' <=> Answers(u, e, y)
  BY <1>1, <1>2 DEF Answers, Alone, Seed!ExchangesOf
<1>4. Excused(t, e, y) => Seed!IsCCXT(s) /\ <<e, y>> \notin Listed
  <2> SUFFICES ASSUME Seed!IsCCXT(t), e \in Seed!ExchangesOf(t) PROVE Seed!IsCCXT(s)
    BY DEF Excused
  <2>1. PICK d \in Entries(plan[t].exchanges) : d.id = e
    BY DEF Seed!ExchangesOf, Entries
  <2>2. PICK c \in Entries(plan[s].exchanges) : c.id = e
    BY <1>1 DEF Wants
  <2>3. Plausible(plan)
    BY DEF SeedTypes
  <2>4. plan[s].kind = "config" <=> plan[t].kind = "config"
    BY <2>1, <2>2, <2>3 DEF Plausible
  <2> QED BY <2>4 DEF Seed!IsCCXT
<1>5. CASE seeder[s].at = "idle"
  <2>1. s = t
    BY <1>5 DEF Alone
  <2>2. Answers(t, e, y)'
    BY <1>1, <1>5, <2>1 DEF BeginsWhole
  <2>3. s \in Seed!Alike(s)
    BY DEF Seed!Alike
  <2> QED BY <1>2, <2>1, <2>2, <2>3
<1>6. CASE seeder[s].at # "idle"
  <2>1. \/ Seed!IsCCXT(s) /\ <<e, y>> \notin Listed
        \/ IsSelected(Seed!Flag(s), e, y)
        \/ \E u \in Seed!Alike(s) : Answers(u, e, y)
    BY <1>1, <1>6 DEF Answered
  <2>2. CASE IsSelected(Seed!Flag(s), e, y)
    <3>1. Seed!Flag(t) = Seed!Flag(s) => t \in Seed!Alike(s)
      BY DEF Seed!Alike
    <3>2. Seed!Flag(s) \in Flags
      BY DEF Seed!Flag, Flags
    <3> QED BY <1>2, <2>2, <3>1, <3>2 DEF RowsKept, IsSelected
  <2>3. ASSUME NEW u \in Seed!Alike(s), Answers(u, e, y)
        PROVE  \/ Seed!IsCCXT(s)' /\ <<e, y>> \notin Listed
               \/ IsSelected(Seed!Flag(s), e, y)'
               \/ Answers(u, e, y)'
    <3>1. u \in Seeders /\ Seed!Flag(u) = Seed!Flag(s)
      BY DEF Seed!Alike
    <3>2. CASE u = t
      <4>1. Answers(t, e, y)' \/ IsSelected(Seed!Flag(t), e, y)' \/ Excused(t, e, y)
        BY <2>3, <3>2 DEF Kept
      <4> QED BY <1>2, <1>4, <3>1, <3>2, <4>1 DEF IsSelected
    <3> QED BY <1>3, <2>3, <3>1, <3>2
  <2> QED BY <1>2, <2>1, <2>2, <2>3
<1> QED BY <1>5, <1>6

LEMMA Untouched ==
  ASSUME NEW t \in Seeders, Alone(t), UNCHANGED markets
  PROVE  RowsKept(t) /\ \A flag \in Flags : \A e : Clean(flag, e) => Clean(flag, e)'
<1>1. plan' = plan /\ \A u \in Seeders : Seed!Flag(u)' = Seed!Flag(u)
  BY DEF Alone, Seed!Flag
<1> QED BY <1>1 DEF RowsKept, IsSelected, Clean

LEMMA CleanedStep ==
  ASSUME NEW t \in Seeders, Alone(t), seeder[t].at \notin {"idle", "crashed"}, reported[t] \subseteq reported'[t],
         \A flag \in Flags : \A e : Clean(flag, e) => Clean(flag, e)',
         \A e : Coming(seeder[t], e) =>
           Coming(seeder'[t], e) \/ <<e, Null>> \in reported'[t] \/ Clean(Seed!Flag(t), e)'
  PROVE  Cleaned(t) => Cleaned(t)'
<1>1. Seed!ExchangesOf(t)' = Seed!ExchangesOf(t) /\ Seed!Flag(t)' = Seed!Flag(t)
  BY DEF Seed!ExchangesOf, Alone, Seed!Flag
<1> SUFFICES ASSUME Cleaned(t), NEW e \in Seed!ExchangesOf(t)
             PROVE  <<e, Null>> \in reported'[t] \/ Coming(seeder'[t], e) \/ Clean(Seed!Flag(t), e)'
  BY <1>1 DEF Cleaned, Coming, Clean
<1>2. <<e, Null>> \in reported[t] \/ Coming(seeder[t], e) \/ Clean(Seed!Flag(t), e)
  BY DEF Cleaned
<1>3. Clean(Seed!Flag(t), e) => Clean(Seed!Flag(t), e)'
  <2>1. PICK f \in Flags : f = Seed!Flag(t)
    BY DEF Seed!Flag, Flags
  <2> QED BY <1>1, <2>1 DEF Clean
<1> QED BY <1>2, <1>3

\* What there is to show of a step of t.
Proper(t) == SeedTypes' /\ Alone(t) /\ Kept(t) /\ RowsKept(t) /\ BeginsWhole(t)
             /\ (\A flag \in Flags : \A e : Clean(flag, e) => Clean(flag, e)') /\ (Cleaned(t) => Cleaned(t)')

LEMMA PlanParts ==
  ASSUME SeedTypes, NEW t \in Seeders
  PROVE  /\ IsList(plan[t].exchanges) /\ OnceEach(plan[t].exchanges)
         /\ \A c \in Entries(plan[t].exchanges) : IsList(c.symbols)
         /\ Seed!ExchangesOf(t) = {c.id : c \in Entries(plan[t].exchanges)}
BY DEF SeedTypes, Plausible, Seed!ExchangesOf, Entries

\* What a seeder that is at work is about.
LEMMA AtWork ==
  ASSUME SeedTypes, NEW t \in Seeders, seeder[t].at \notin Idling
  PROVE  LET x == seeder[t]  head == Head(seeder[t].exchanges)
         IN  /\ DOMAIN x = {"at", "exchanges", "symbols", "found"}
             /\ x.exchanges # <<>> /\ IsList(x.exchanges) /\ OnceEach(x.exchanges)
             /\ IsList(Tail(x.exchanges)) /\ OnceEach(Tail(x.exchanges))
             /\ Entries(x.exchanges) \subseteq Entries(plan[t].exchanges)
             /\ Entries(Tail(x.exchanges)) \subseteq Entries(plan[t].exchanges)
             /\ head \in Entries(plan[t].exchanges) /\ IsList(head.symbols)
             /\ head.id \in Seed!ExchangesOf(t) /\ Seed!Exchange(t) = head.id
             /\ x.at \in Within => /\ x.symbols # <<>> /\ IsList(x.symbols) /\ IsList(Tail(x.symbols))
                                   /\ Entries(x.symbols) = {Head(x.symbols)} \cup Entries(Tail(x.symbols))
                                   /\ Entries(x.symbols) \subseteq Entries(head.symbols)
                                   /\ Seed!Symbol(t) = Head(x.symbols) /\ Seed!Key(t) = <<head.id, Head(x.symbols)>>
<1> DEFINE x == seeder[t]  head == Head(seeder[t].exchanges)
<1>1. Sane(x, plan[t].exchanges)
  BY DEF SeedTypes
<1>2. /\ DOMAIN x = {"at", "exchanges", "symbols", "found"} /\ x.exchanges # <<>> /\ IsList(x.exchanges)
      /\ OnceEach(x.exchanges) /\ Entries(x.exchanges) \subseteq Entries(plan[t].exchanges)
  BY <1>1 DEF Sane
<1>3. /\ IsList(Tail(x.exchanges)) /\ OnceEach(Tail(x.exchanges)) /\ head \in Entries(x.exchanges)
      /\ Entries(Tail(x.exchanges)) \subseteq Entries(x.exchanges)
  BY <1>2, ListParts
<1>4. head \in Entries(plan[t].exchanges) /\ IsList(head.symbols) /\ head.id \in Seed!ExchangesOf(t)
  BY <1>2, <1>3, PlanParts
<1>5. ASSUME x.at \in Within
      PROVE  /\ x.symbols # <<>> /\ IsList(x.symbols) /\ IsList(Tail(x.symbols))
             /\ Entries(x.symbols) = {Head(x.symbols)} \cup Entries(Tail(x.symbols))
             /\ Entries(x.symbols) \subseteq Entries(head.symbols)
  <2>1. x.symbols # <<>> /\ IsList(x.symbols) /\ Entries(x.symbols) \subseteq Entries(head.symbols)
    BY <1>1, <1>5 DEF Sane
  <2> QED BY <2>1, ListParts
<1> QED BY <1>2, <1>3, <1>4, <1>5 DEF Seed!Exchange, Seed!Symbol, Seed!Key

LEMMA ExecuteProper ==
  ASSUME SeedTypes, NEW t \in Seeders, Seed!Execute(t)
  PROVE  Proper(t)
<1> DEFINE p == plan[t].exchanges
<1>1. /\ seeder' = [seeder EXCEPT ![t] = Seed!AtExchange(p)] /\ reported' = [reported EXCEPT ![t] = {}]
      /\ plan' = plan /\ markets' = markets
  BY DEF Seed!Execute
<1>2. Alone(t) /\ seeder'[t] = Seed!AtExchange(p) /\ reported'[t] = {}
  BY <1>1 DEF Alone, SeedTypes
<1>3. IsList(p) /\ OnceEach(p)
  BY PlanParts
<1> HIDE DEF p
<1>4. /\ Sane(seeder'[t], p) /\ seeder'[t].at \in {"ended", "find exchange"}
      /\ \A flag, e, y : Left(seeder'[t], flag, e, y) <=> Wants(p, e, y)
      /\ \A e : Coming(seeder'[t], e) <=> \E c \in Entries(p) : c.id = e
  <2>1. Entries(p) \subseteq Entries(p)
    OBVIOUS
  <2>2. /\ Sane(Seed!AtExchange(p), p) /\ Seed!AtExchange(p).at \in {"ended", "find exchange"}
        /\ \A flag, e, y : Left(Seed!AtExchange(p), flag, e, y) <=> Wants(p, e, y)
        /\ \A e : Coming(Seed!AtExchange(p), e) <=> \E c \in Entries(p) : c.id = e
    BY ONLY <1>3, <2>1, ToExchange
  <2>3. seeder'[t] = Seed!AtExchange(p)
    BY <1>2
  <2> QED BY ONLY <2>2, <2>3
<1> USE DEF p
<1>5. SeedTypes'
  <2>1. markets' \in [DOMAIN markets' -> Row] /\ DOMAIN markets \subseteq DOMAIN markets'
    BY <1>1 DEF SeedTypes
  <2> QED BY <1>2, <1>4, <2>1, TypesStep
<1>6. Seed!ExchangesOf(t)' = Seed!ExchangesOf(t) /\ Seed!Flag(t)' = Seed!Flag(t)
  BY <1>1 DEF Seed!ExchangesOf, Seed!Flag
<1>7. ASSUME NEW e, NEW y, e \in Seed!ExchangesOf(t) PROVE Answers(t, e, y)'
  <2>1. CASE Wants(p, e, y)
    BY <1>4, <2>1 DEF Answers
  <2>2. CASE ~Wants(p, e, y)
    BY <1>1, <1>4, <1>6, <1>7, <2>2 DEF Answers
  <2> QED BY <2>1, <2>2
<1>8. Kept(t)
  <2> SUFFICES ASSUME NEW e, NEW y, Answers(t, e, y) PROVE e \in Seed!ExchangesOf(t)
    BY <1>7 DEF Kept
  <2>1. seeder[t].at \in {"idle", "crashed"}
    BY DEF Seed!Execute
  <2>2. ~Left(seeder[t], Seed!Flag(t), e, y)
    BY <2>1 DEF Left, Idling, Before, Within
  <2>3. {<<e, y>>, <<e, Null>>} \cap reported[t] # {} => e \in Seed!ExchangesOf(t)
    BY DEF SeedTypes
  <2> QED BY <2>2, <2>3 DEF Answers
<1>9. BeginsWhole(t)
  <2> SUFFICES ASSUME NEW e, NEW y, Wants(p, e, y) PROVE e \in Seed!ExchangesOf(t)
    BY <1>7 DEF BeginsWhole
  <2> QED BY PlanParts DEF Wants
<1>10. Cleaned(t)'
  <2> SUFFICES ASSUME NEW e \in Seed!ExchangesOf(t) PROVE Coming(seeder'[t], e)
    BY <1>6 DEF Cleaned
  <2> QED BY <1>4, PlanParts
<1> QED BY <1>1, <1>2, <1>5, <1>8, <1>9, <1>10, Untouched DEF Proper

\* The command is at the symbols of an exchange, and goes on with some of them.
LEMMA SymbolStep ==
  ASSUME SeedTypes, NEW t \in Seeders, seeder[t].at \notin Idling, Alone(t),
         NEW at, at = Seed!Exchange(t), NEW r, IsList(r), Entries(r) \subseteq Entries(Head(seeder[t].exchanges).symbols),
         seeder'[t] = Seed!AtSymbol(t, r), reported[t] \subseteq reported'[t],
         \A p \in reported'[t] : p[1] \in Seed!ExchangesOf(t),
         markets' \in [DOMAIN markets' -> Row], DOMAIN markets \subseteq DOMAIN markets',
         \A flag \in Flags : \A e : Clean(flag, e) => Clean(flag, e)',
         seeder[t].at \in Before \ {"load"} => Clean(Seed!Flag(t), at)',
         \A y : Left(seeder[t], Seed!Flag(t), at, y) /\ ~Later(seeder[t], at, y) /\ y \notin Entries(r) =>
           Answers(t, at, y)' \/ IsSelected(Seed!Flag(t), at, y)' \/ Excused(t, at, y)
  PROVE  SeedTypes' /\ Kept(t) /\ BeginsWhole(t) /\ (Cleaned(t) => Cleaned(t)')
         /\ \A y : y \in Entries(r) => Answers(t, at, y)'
<1> DEFINE x == seeder[t]
<1>1. /\ Sane(seeder'[t], plan[t].exchanges) /\ seeder'[t].at \in {"ended", "find exchange", "find"}
      /\ \A flag, e, y : Left(seeder'[t], flag, e, y) <=>
           Later(x, e, y) \/ (e = Head(x.exchanges).id /\ y \in Entries(r))
      /\ \A e : Coming(seeder'[t], e) <=> \E c \in Entries(Tail(x.exchanges)) : c.id = e
  <2>1. /\ Sane(Seed!AtSymbol(t, r), plan[t].exchanges) /\ Seed!AtSymbol(t, r).at \in {"ended", "find exchange", "find"}
        /\ \A flag, e, y : Left(Seed!AtSymbol(t, r), flag, e, y) <=>
             Later(x, e, y) \/ (e = Head(x.exchanges).id /\ y \in Entries(r))
        /\ \A e : Coming(Seed!AtSymbol(t, r), e) <=> \E c \in Entries(Tail(x.exchanges)) : c.id = e
    BY ToSymbol
  <2>2. seeder'[t] = Seed!AtSymbol(t, r)
    OBVIOUS
  <2> QED BY ONLY <2>1, <2>2
<1>2. at = Head(x.exchanges).id
  BY DEF Seed!Exchange
<1>3. SeedTypes'
  BY <1>1, TypesStep
<1>4. Kept(t)
  <2>1. seeder'[t].at # "idle" /\ seeder[t].at # "crashed"
    BY <1>1 DEF Idling
  <2>2. ASSUME NEW e, NEW y, Left(x, Seed!Flag(t), e, y)
        PROVE  Answers(t, e, y)' \/ IsSelected(Seed!Flag(t), e, y)' \/ Excused(t, e, y)
    <3>1. CASE Left(seeder'[t], Seed!Flag(t)', e, y)
      BY <3>1 DEF Answers
    <3>2. CASE ~Left(seeder'[t], Seed!Flag(t)', e, y)
      <4>1. e = at /\ ~Later(x, e, y) /\ y \notin Entries(r)
        <5>1. ~Later(x, e, y) /\ ~(e = Head(x.exchanges).id /\ y \in Entries(r))
          BY <1>1, <3>2
        <5>2. e = Head(x.exchanges).id
          BY <2>2, <5>1 DEF Left
        <5> QED BY <1>2, <5>1, <5>2
      <4> QED BY <2>2, <4>1
    <3> QED BY <3>1, <3>2
  <2> QED BY <2>1, <2>2, KeptStep
<1>5. BeginsWhole(t)
  BY DEF BeginsWhole, Idling
<1>6. Cleaned(t) => Cleaned(t)'
  <2>1. ASSUME NEW e, Coming(x, e)
        PROVE  Coming(seeder'[t], e) \/ <<e, Null>> \in reported'[t] \/ Clean(Seed!Flag(t), e)'
    <3>1. CASE x.at \in Before \ {"load"} /\ Head(x.exchanges).id = e
      BY <1>2, <3>1
    <3>2. CASE \E c \in Entries(Tail(x.exchanges)) : c.id = e
      BY <1>1, <3>2
    <3> QED BY <2>1, <3>1, <3>2 DEF Coming
  <2>2. seeder[t].at \notin {"idle", "crashed"}
    BY DEF Idling
  <2> QED BY <2>1, <2>2, CleanedStep
<1>7. ASSUME NEW y \in Entries(r) PROVE Answers(t, at, y)'
  <2>1. Left(seeder'[t], Seed!Flag(t)', at, y)
    BY <1>1, <1>2
  <2> QED BY <2>1 DEF Answers
<1> QED BY <1>3, <1>4, <1>5, <1>6, <1>7

LEMMA CatchProper ==
  ASSUME SeedTypes, NEW t \in Seeders, seeder[t].at \notin Idling, Seed!Catch(t), UNCHANGED <<plan, markets>>
  PROVE  Proper(t)
<1> DEFINE x == seeder[t]  head == Head(seeder[t].exchanges)
<1>1. PICK at : at = Seed!Exchange(t)
  OBVIOUS
<1>2. DOMAIN seeder = Seeders /\ DOMAIN reported = Seeders
  BY DEF SeedTypes
<1>3. Alone(t)
  BY <1>2 DEF Seed!Catch, Seed!NextSymbol, Seed!NextExchange, Alone
<1>4. RowsKept(t) /\ \A flag \in Flags : \A e : Clean(flag, e) => Clean(flag, e)'
  BY <1>3, Untouched
<1>5. markets' \in [DOMAIN markets' -> Row] /\ DOMAIN markets \subseteq DOMAIN markets'
  BY DEF SeedTypes
<1>6. at = head.id /\ at \in Seed!ExchangesOf(t)
  BY <1>1, AtWork
<1>7. CASE x.at \in Within
  <2> DEFINE r == Tail(x.symbols)
  <2>1. /\ x.symbols # <<>> /\ IsList(r) /\ Entries(x.symbols) = {Head(x.symbols)} \cup Entries(r)
        /\ Entries(x.symbols) \subseteq Entries(head.symbols) /\ Seed!Key(t) = <<at, Head(x.symbols)>>
    BY <1>6, <1>7, AtWork
  <2>2. seeder'[t] = Seed!AtSymbol(t, r) /\ reported'[t] = reported[t] \cup {Seed!Key(t)}
    BY <1>2, <1>7 DEF Seed!Catch, Seed!NextSymbol, Within
  <2>3. \A p \in reported'[t] : p[1] \in Seed!ExchangesOf(t)
    BY <1>6, <2>1, <2>2 DEF SeedTypes
  <2>4. ASSUME NEW y, Left(x, Seed!Flag(t), at, y) /\ ~Later(x, at, y) /\ y \notin Entries(r)
        PROVE  Answers(t, at, y)'
    <3>1. y = Head(x.symbols)
      BY <1>7, <2>4 DEF Left, Before, Within
    <3>2. <<at, y>> \in reported'[t]
      BY <2>1, <2>2, <3>1
    <3> QED BY <3>2 DEF Answers
  <2>5. x.at \notin Before
    BY <1>7 DEF Before, Within
  <2>6. /\ IsList(r) /\ Entries(r) \subseteq Entries(head.symbols)
        /\ seeder'[t] = Seed!AtSymbol(t, r) /\ reported[t] \subseteq reported'[t]
    BY <2>1, <2>2
  <2> HIDE DEF r
  <2>7. SeedTypes' /\ Kept(t) /\ BeginsWhole(t) /\ (Cleaned(t) => Cleaned(t)')
    BY <1>1, <1>3, <1>4, <1>5, <2>3, <2>4, <2>5, <2>6, SymbolStep
  <2> QED BY <1>3, <1>4, <2>7 DEF Proper
<1>8. CASE x.at \notin Within
  <2> DEFINE q == Tail(x.exchanges)
  <2>1. /\ seeder'[t] = Seed!AtExchange(q) /\ reported'[t] = reported[t] \cup {<<at, Null>>}
    BY <1>1, <1>2, <1>8 DEF Seed!Catch, Seed!NextExchange, Within
  <2>2. IsList(q) /\ OnceEach(q) /\ Entries(q) \subseteq Entries(plan[t].exchanges)
    BY AtWork
  <2> HIDE DEF q
  <2>3. /\ Sane(Seed!AtExchange(q), plan[t].exchanges) /\ Seed!AtExchange(q).at \in {"ended", "find exchange"}
        /\ \A flag, e, y : Left(Seed!AtExchange(q), flag, e, y) <=> Wants(q, e, y)
        /\ \A e : Coming(Seed!AtExchange(q), e) <=> \E c \in Entries(q) : c.id = e
    BY ONLY <2>2, ToExchange
  <2>4. seeder'[t] = Seed!AtExchange(q)
    BY <2>1
  <2>5. /\ Sane(seeder'[t], plan[t].exchanges) /\ seeder'[t].at \in {"ended", "find exchange"}
        /\ \A flag, e, y : Left(seeder'[t], flag, e, y) <=> Wants(q, e, y)
        /\ \A e : Coming(seeder'[t], e) <=> \E c \in Entries(q) : c.id = e
    BY ONLY <2>3, <2>4
  <2>6. \A p \in reported'[t] : p[1] \in Seed!ExchangesOf(t)
    BY <1>6, <2>1 DEF SeedTypes
  <2>7. SeedTypes'
    BY <1>3, <1>5, <2>5, <2>6, TypesStep
  <2>8. reported[t] \subseteq reported'[t] /\ <<at, Null>> \in reported'[t]
    BY <2>1
  <2>9. Kept(t)
    <3>1. ASSUME NEW e, NEW y, Left(x, Seed!Flag(t), e, y) PROVE Answers(t, e, y)'
      <4>1. CASE e = at
        BY <2>8, <4>1 DEF Answers
      <4>2. CASE e # at
        <5>1. Wants(q, e, y)
          BY <1>6, <3>1, <4>2 DEF Left, Later, q
        <5>2. Left(seeder'[t], Seed!Flag(t)', e, y)
          BY <2>5, <5>1
        <5> QED BY <5>2 DEF Answers
      <4> QED BY <4>1, <4>2
    <3>2. seeder'[t].at # "idle" /\ seeder[t].at # "crashed"
      BY <2>5 DEF Idling
    <3> QED BY <1>3, <2>8, <3>1, <3>2, KeptStep
  <2>10. BeginsWhole(t)
    BY DEF BeginsWhole, Idling
  <2>11. Cleaned(t) => Cleaned(t)'
    <3>1. ASSUME NEW e, Coming(x, e) PROVE Coming(seeder'[t], e) \/ <<e, Null>> \in reported'[t]
      <4>1. CASE e = at
        BY <2>8, <4>1
      <4>2. CASE e # at
        <5>1. \E c \in Entries(q) : c.id = e
          BY <1>6, <3>1, <4>2 DEF Coming, q
        <5> QED BY <2>5, <5>1
      <4> QED BY <4>1, <4>2
    <3>2. seeder[t].at \notin {"idle", "crashed"}
      BY DEF Idling
    <3> QED BY <1>3, <1>4, <2>8, <3>1, <3>2, CleanedStep
  <2> QED BY <1>3, <1>4, <2>7, <2>9, <2>10, <2>11 DEF Proper
<1> QED BY <1>7, <1>8

\* Steps that leave everything to do as it is: the seeder's next query or a crash.
LEMMA StandStill ==
  ASSUME SeedTypes, NEW t \in Seeders, seeder[t].at \notin Idling, Alone(t), UNCHANGED <<markets, reported>>,
         Sane(seeder'[t], plan[t].exchanges), seeder'[t].at # "idle",
         seeder'[t].at = "write" /\ seeder'[t].found # Null =>
           /\ seeder'[t].found \in Row
           /\ <<Head(seeder'[t].exchanges).id, Head(seeder'[t].symbols)>> \in DOMAIN markets',
         \A e, y : Left(seeder[t], Seed!Flag(t), e, y) =>
           Answers(t, e, y)' \/ IsSelected(Seed!Flag(t), e, y)' \/ Excused(t, e, y),
         \A e : Coming(seeder[t], e) => Coming(seeder'[t], e) \/ seeder'[t].at = "crashed"
  PROVE  Proper(t)
<1>1. RowsKept(t) /\ \A flag \in Flags : \A e : Clean(flag, e) => Clean(flag, e)'
  BY Untouched
<1>2. SeedTypes'
  <2>1. /\ markets' \in [DOMAIN markets' -> Row] /\ DOMAIN markets \subseteq DOMAIN markets'
        /\ \A r \in reported'[t] : r[1] \in Seed!ExchangesOf(t)
    BY DEF SeedTypes
  <2> QED BY <2>1, TypesStep
<1>3. Kept(t)
  <2>1. reported[t] \subseteq reported'[t] /\ seeder[t].at # "crashed"
    BY DEF Idling
  <2> QED BY <2>1, KeptStep
<1>4. BeginsWhole(t)
  BY DEF BeginsWhole, Idling
<1>5. Cleaned(t) => Cleaned(t)'
  <2>1. CASE seeder'[t].at = "crashed"
    BY <2>1 DEF Cleaned
  <2>2. CASE seeder'[t].at # "crashed"
    <3>1. seeder[t].at \notin {"idle", "crashed"} /\ reported[t] \subseteq reported'[t]
      BY DEF Idling
    <3> QED BY <1>1, <2>2, <3>1, CleanedStep
  <2> QED BY <2>1, <2>2
<1> QED BY <1>1, <1>2, <1>3, <1>4, <1>5 DEF Proper

LEMMA QueryProper ==
  ASSUME SeedTypes, NEW t \in Seeders, Seed!FindExchange(t) \/ Seed!SetupExchange(t) \/ Seed!Crash(t)
  PROVE  Proper(t)
<1> DEFINE x == seeder[t]
<1>1. DOMAIN seeder = Seeders /\ DOMAIN reported = Seeders /\ Sane(x, plan[t].exchanges)
  BY DEF SeedTypes
<1>2. x.at \notin Idling /\ x.at \in Idling \cup Before \cup Within
  BY <1>1 DEF Sane, Seed!FindExchange, Seed!SetupExchange, Seed!Crash, Seed!Running, Idling
<1>3. /\ x.exchanges # <<>> /\ Head(x.exchanges).id \in Seed!ExchangesOf(t)
      /\ Entries(Tail(x.exchanges)) \subseteq Entries(plan[t].exchanges)
  BY <1>2, AtWork
<1>4. Alone(t) => Seed!Flag(t)' = Seed!Flag(t) /\ Seed!ExchangesOf(t)' = Seed!ExchangesOf(t)
  BY DEF Alone, Seed!Flag, Seed!ExchangesOf
<1>5. ASSUME Alone(t), UNCHANGED <<markets, reported>>, x.at \in Before \ {"load"},
             seeder'[t].at \in {"reset", "write exchange"}, seeder'[t].exchanges = x.exchanges,
             seeder'[t].symbols = x.symbols, DOMAIN seeder'[t] = DOMAIN x
      PROVE  Proper(t)
  <2>1. /\ seeder'[t].at \in {"reset", "write exchange"} /\ seeder'[t].exchanges = x.exchanges
        /\ seeder'[t].symbols = x.symbols /\ DOMAIN seeder'[t] = DOMAIN x
    BY <1>5
  <2>2. Sane(seeder'[t], plan[t].exchanges)
    BY <1>1, <1>2, <2>1 DEF Sane, Idling, Before, Within
  <2>3. ASSUME NEW e, NEW y, Left(x, Seed!Flag(t), e, y) PROVE Answers(t, e, y)'
    <3>1. Left(seeder'[t], Seed!Flag(t)', e, y)
      BY <1>5, <2>1, <2>3 DEF Left, Later, Idling, Before, Within
    <3> QED BY <3>1 DEF Answers
  <2>4. ASSUME NEW e, Coming(x, e) PROVE Coming(seeder'[t], e)
    BY <2>1, <2>4 DEF Coming, Idling, Before
  <2>5. seeder'[t].at # "idle" /\ seeder'[t].at # "write"
    BY <2>1
  <2> QED BY <1>2, <1>5, <2>2, <2>3, <2>4, <2>5, StandStill
<1>6. CASE Seed!FindExchange(t)
  <2>1. seeder' = [seeder EXCEPT ![t].at = "write exchange", ![t].found = Seed!Exchange(t) \in known]
    BY <1>6 DEF Seed!FindExchange
  <2>2. Alone(t) /\ UNCHANGED <<markets, reported>> /\ x.at \in Before \ {"load"}
    BY <1>1, <1>6, <2>1 DEF Seed!FindExchange, Alone, Before
  <2>3. DOMAIN x = {"at", "exchanges", "symbols", "found"}
    BY <1>1 DEF Sane
  <2>4. /\ seeder'[t].at = "write exchange" /\ seeder'[t].exchanges = x.exchanges
        /\ seeder'[t].symbols = x.symbols /\ DOMAIN seeder'[t] = DOMAIN x
    BY <1>1, <2>1, <2>3
  <2> QED BY <1>5, <2>2, <2>4
<1>7. CASE Seed!SetupExchange(t)
  <2>1. CASE Seed!Catch(t)
    BY <1>2, <1>7, <2>1, CatchProper DEF Seed!SetupExchange
  <2>2. CASE ~Seed!Catch(t)
    <3>1. seeder' = [seeder EXCEPT ![t] = [x EXCEPT !.at = "reset"]]
      BY <1>7, <2>2 DEF Seed!SetupExchange, Seed!To
    <3>2. Alone(t) /\ UNCHANGED <<markets, reported>> /\ x.at \in Before \ {"load"}
      BY <1>1, <1>7, <2>2, <3>1 DEF Seed!SetupExchange, Alone, Before
    <3>3. DOMAIN x = {"at", "exchanges", "symbols", "found"}
      BY <1>1 DEF Sane
    <3>4. /\ seeder'[t].at = "reset" /\ seeder'[t].exchanges = x.exchanges
          /\ seeder'[t].symbols = x.symbols /\ DOMAIN seeder'[t] = DOMAIN x
      BY <1>1, <3>1, <3>3
    <3> QED BY <1>5, <3>2, <3>4
  <2> QED BY <2>1, <2>2
<1>8. CASE Seed!Crash(t)
  <2>1. seeder' = [seeder EXCEPT ![t] = [Seed!Idle EXCEPT !.at = "crashed"]] /\ UNCHANGED <<plan, markets, reported>>
    BY <1>8 DEF Seed!Crash
  <2>2. Alone(t) /\ seeder'[t] = [at |-> "crashed", exchanges |-> <<>>, symbols |-> <<>>, found |-> Null]
    BY <1>1, <2>1 DEF Alone, Seed!Idle
  <2>3. Sane(seeder'[t], plan[t].exchanges)
    BY <2>2 DEF Sane, IsList, Entries, OnceEach, Idling, Before, Within
  <2>4. ASSUME NEW e, NEW y, Left(x, Seed!Flag(t), e, y) PROVE Answers(t, e, y)'
    <3>1. e \in Seed!ExchangesOf(t)
      <4>1. CASE e = Head(x.exchanges).id
        BY <1>3, <4>1
      <4>2. CASE Later(x, e, y)
        <5>1. PICK c \in Entries(plan[t].exchanges) : c.id = e
          BY <1>3, <4>2 DEF Later, Wants
        <5> QED BY <5>1, PlanParts
      <4> QED BY <2>4, <4>1, <4>2 DEF Left
    <3> QED BY <1>4, <2>2, <3>1 DEF Answers
  <2>5. seeder'[t].at = "crashed" /\ UNCHANGED <<markets, reported>>
    BY <2>1, <2>2
  <2>6. seeder'[t].at # "idle" /\ seeder'[t].at # "write"
    BY <2>5
  <2> QED BY <1>2, <2>2, <2>3, <2>4, <2>5, <2>6, StandStill
<1> QED BY <1>6, <1>7, <1>8

LEMMA LoadProper ==
  ASSUME SeedTypes, NEW t \in Seeders, Seed!LoadMarkets(t)
  PROVE  Proper(t)
<1> DEFINE x == seeder[t]  r == Head(seeder[t].exchanges).symbols
<1>1. PICK at : at = Seed!Exchange(t)
  OBVIOUS
<1>2. x.at = "load" /\ x.at \notin Idling /\ seeder' = [seeder EXCEPT ![t] = Seed!AtSymbol(t, r)]
  BY DEF Seed!LoadMarkets, Idling
<1>3. Alone(t) /\ seeder'[t] = Seed!AtSymbol(t, r) /\ UNCHANGED <<markets, reported>>
  BY <1>2 DEF Alone, Seed!LoadMarkets, SeedTypes
<1>4. RowsKept(t) /\ \A flag \in Flags : \A e : Clean(flag, e) => Clean(flag, e)'
  BY <1>3, Untouched
<1>5. IsList(r) /\ at = Head(x.exchanges).id
  BY <1>1, <1>2, AtWork
<1>6. \A p \in reported'[t] : p[1] \in Seed!ExchangesOf(t)
  BY <1>3 DEF SeedTypes
<1>7. markets' \in [DOMAIN markets' -> Row] /\ DOMAIN markets \subseteq DOMAIN markets'
  BY <1>3 DEF SeedTypes
<1>8. \A y : ~(Left(x, Seed!Flag(t), at, y) /\ ~Later(x, at, y) /\ y \notin Entries(r))
  BY <1>2 DEF Left, Before, Within
<1>9. x.at \notin Before \ {"load"} /\ Entries(r) \subseteq Entries(r) /\ reported[t] \subseteq reported'[t]
  BY <1>2, <1>3
<1> HIDE DEF r
<1>10. SeedTypes' /\ Kept(t) /\ BeginsWhole(t) /\ (Cleaned(t) => Cleaned(t)')
  BY <1>1, <1>2, <1>3, <1>4, <1>5, <1>6, <1>7, <1>8, <1>9, SymbolStep DEF r
<1> QED BY <1>3, <1>4, <1>10 DEF Proper

LEMMA ResetProper ==
  ASSUME SeedTypes, NEW t \in Seeders, Seed!ResetMarketStatuses(t)
  PROVE  Proper(t)
<1> DEFINE x == seeder[t]  r == Head(seeder[t].exchanges).symbols  p == plan[t].exchanges
<1>1. PICK at : at = Seed!Exchange(t)
  OBVIOUS
<1>2. /\ x.at = "reset" /\ x.at \notin Idling
      /\ markets' = [key \in DOMAIN markets |->
           IF key[1] = at THEN [markets[key] EXCEPT ![Seed!Flag(t)] = FALSE] ELSE markets[key]]
      /\ UNCHANGED <<plan, reported>>
  BY <1>1 DEF Seed!ResetMarketStatuses, Idling
<1>3. /\ IsList(r) /\ at = Head(x.exchanges).id /\ at \in Seed!ExchangesOf(t)
      /\ Head(x.exchanges) \in Entries(p) /\ DOMAIN x = {"at", "exchanges", "symbols", "found"}
  BY <1>1, <1>2, AtWork
<1>4. Seed!Flag(t) \in Flags /\ Seed!Flag(t)' = Seed!Flag(t) /\ Seed!ExchangesOf(t)' = Seed!ExchangesOf(t)
      /\ \A u \in Seeders : Seed!Flag(u)' = Seed!Flag(u)
  BY <1>2 DEF Seed!Flag, Flags, Seed!ExchangesOf
<1>5. /\ DOMAIN markets' = DOMAIN markets
      /\ \A key \in DOMAIN markets, f \in Flags :
           markets'[key][f] = IF key[1] = at /\ f = Seed!Flag(t) THEN FALSE ELSE markets[key][f]
      /\ markets' \in [DOMAIN markets' -> Row]
  <2>1. markets \in [DOMAIN markets -> Row]
    BY DEF SeedTypes
  <2>2. \A key \in DOMAIN markets : markets[key] \in Row /\ DOMAIN markets[key] = Flags
    BY <2>1 DEF Row, Flags
  <2>3. DOMAIN markets' = DOMAIN markets
    BY <1>2
  <2>4. ASSUME NEW key \in DOMAIN markets
        PROVE  /\ markets'[key] \in Row
               /\ \A f \in Flags : markets'[key][f] = IF key[1] = at /\ f = Seed!Flag(t) THEN FALSE ELSE markets[key][f]
    <3>1. CASE key[1] = at
      <4>1. markets'[key] = [markets[key] EXCEPT ![Seed!Flag(t)] = FALSE]
        BY <1>2, <3>1
      <4> QED BY <1>4, <2>2, <3>1, <4>1 DEF Row, Flags
    <3>2. CASE key[1] # at
      BY <1>2, <2>2, <3>2
    <3> QED BY <3>1, <3>2
  <2>5. markets' = [key \in DOMAIN markets' |-> markets'[key]]
    BY <1>2
  <2> QED BY <2>3, <2>4, <2>5
<1>6. Clean(Seed!Flag(t), at)'
  <2>1. PICK f : f = Seed!Flag(t)
    OBVIOUS
  <2> QED BY <1>4, <1>5 DEF Clean
<1>7. ASSUME NEW f \in Flags, NEW e, Clean(f, e) PROVE Clean(f, e)'
  <2> SUFFICES ASSUME NEW key \in DOMAIN markets', key[1] = e, markets'[key][f]
               PROVE  \E u \in Seeders : \E y : Seed!Flag(u) = f /\ Wants(plan[u].exchanges, e, y) /\ key = <<e, y>>
    BY <1>2, <1>4 DEF Clean
  <2>1. key \in DOMAIN markets /\ markets[key][f]
    BY <1>5
  <2> QED BY <1>7, <2>1 DEF Clean
<1>8. \A y : Wants(p, at, y) => y \in Entries(r)
  <2> SUFFICES ASSUME NEW c \in Entries(p), c.id = at PROVE c = Head(x.exchanges)
    BY DEF Wants
  <2>1. PICK i \in DOMAIN p : c = p[i]
    BY DEF Entries
  <2>2. PICK j \in DOMAIN p : Head(x.exchanges) = p[j]
    BY <1>3 DEF Entries
  <2>3. OnceEach(p)
    BY PlanParts
  <2>4. i = j
    BY <1>3, <2>1, <2>2, <2>3 DEF OnceEach
  <2> QED BY <2>1, <2>2, <2>4
<1>9. ASSUME Alone(t), seeder'[t].at # "idle", \A y \in Entries(r) : Answers(t, at, y)'
      PROVE  RowsKept(t)
  <2> SUFFICES ASSUME NEW f \in Flags, NEW e, NEW y, IsSelected(f, e, y), ~IsSelected(f, e, y)'
               PROVE  f = Seed!Flag(t) /\ Answers(t, e, y)'
    BY DEF RowsKept
  <2>1. f = Seed!Flag(t) /\ e = at
    BY <1>5 DEF IsSelected
  <2>2. Answers(t, at, y)'
    BY <1>2, <1>3, <1>4, <1>8, <1>9 DEF Answers
  <2> QED BY <2>1, <2>2
<1>10. BeginsWhole(t)
  BY <1>2 DEF BeginsWhole
<1>11. reported'[t] = reported[t] /\ \A q \in reported'[t] : q[1] \in Seed!ExchangesOf(t)
  BY <1>2 DEF SeedTypes
<1>12. CASE Seed!IsCCXT(t)
  <2>1. seeder' = [seeder EXCEPT ![t] = [x EXCEPT !.at = "load"]]
    BY <1>12 DEF Seed!ResetMarketStatuses, Seed!To
  <2>2. Alone(t) /\ seeder'[t] = [x EXCEPT !.at = "load"]
    BY <1>2, <2>1 DEF Alone, SeedTypes
  <2>3. /\ seeder'[t].at = "load" /\ seeder'[t].exchanges = x.exchanges
        /\ seeder'[t].symbols = x.symbols /\ DOMAIN seeder'[t] = DOMAIN x
    BY <1>3, <2>2
  <2>4. Sane(seeder'[t], p)
    <3>1. Sane(x, p)
      BY DEF SeedTypes
    <3> QED BY <1>2, <2>3, <3>1 DEF Sane, Idling, Before, Within
  <2>5. SeedTypes'
    BY <1>5, <1>11, <2>2, <2>3, <2>4, TypesStep
  <2>6. ASSUME NEW e, NEW y, Left(x, Seed!Flag(t), e, y) \/ (e = at /\ y \in Entries(r)) PROVE Answers(t, e, y)'
    <3>1. Left(seeder'[t], Seed!Flag(t)', e, y)
      BY <1>2, <1>3, <2>3, <2>6 DEF Left, Later, Idling, Before, Within
    <3> QED BY <3>1 DEF Answers
  <2>7. Kept(t)
    BY <1>2, <1>11, <2>2, <2>3, <2>6, KeptStep DEF Idling
  <2>8. RowsKept(t)
    BY <1>9, <2>2, <2>3, <2>6
  <2>9. Cleaned(t) => Cleaned(t)'
    <3>1. ASSUME NEW e, Coming(x, e) PROVE Coming(seeder'[t], e) \/ Clean(Seed!Flag(t), e)'
      <4>1. CASE e = at
        BY <1>6, <4>1
      <4>2. CASE e # at
        BY <1>3, <2>3, <3>1, <4>2 DEF Coming, Idling, Before
      <4> QED BY <4>1, <4>2
    <3> QED BY <1>2, <1>7, <1>11, <2>2, <3>1, CleanedStep
  <2> QED BY <1>7, <1>10, <2>2, <2>5, <2>7, <2>8, <2>9 DEF Proper
<1>13. CASE ~Seed!IsCCXT(t)
  <2>1. seeder' = [seeder EXCEPT ![t] = Seed!AtSymbol(t, r)]
    BY <1>13 DEF Seed!ResetMarketStatuses
  <2>2. Alone(t) /\ seeder'[t] = Seed!AtSymbol(t, r)
    BY <1>2, <2>1 DEF Alone, SeedTypes
  <2>3. \A y : ~(Left(x, Seed!Flag(t), at, y) /\ ~Later(x, at, y) /\ y \notin Entries(r))
    BY <1>2 DEF Left, Before, Within
  <2>4. Entries(r) \subseteq Entries(Head(x.exchanges).symbols) /\ reported[t] \subseteq reported'[t]
        /\ DOMAIN markets \subseteq DOMAIN markets'
    BY <1>5, <1>11
  <2> HIDE DEF r
  <2>5. /\ SeedTypes' /\ Kept(t) /\ BeginsWhole(t) /\ (Cleaned(t) => Cleaned(t)')
        /\ \A y : y \in Entries(r) => Answers(t, at, y)'
    BY <1>1, <1>2, <1>3, <1>5, <1>6, <1>7, <1>11, <2>2, <2>3, <2>4, SymbolStep
  <2>6. seeder'[t].at # "idle"
    <3>1. Seed!AtSymbol(t, r).at \in {"ended", "find exchange", "find"}
      BY <1>2, <1>3, <2>4, ToSymbol
    <3> QED BY <2>2, <3>1
  <2> QED BY <1>7, <1>9, <2>2, <2>5, <2>6 DEF Proper
<1> QED BY <1>12, <1>13

LEMMA FindProper ==
  ASSUME SeedTypes, NEW t \in Seeders, Seed!FindMarket(t)
  PROVE  Proper(t)
<1> DEFINE x == seeder[t]  r == Tail(seeder[t].symbols)
<1>1. PICK at : at = Seed!Exchange(t)
  OBVIOUS
<1>2. x.at = "find" /\ x.at \in Within /\ x.at \notin Idling /\ x.at \notin Before /\ UNCHANGED <<plan, markets, reported>>
  BY DEF Seed!FindMarket, Idling, Within, Before
<1>3. /\ IsList(r) /\ Entries(x.symbols) = {Head(x.symbols)} \cup Entries(r)
      /\ Entries(x.symbols) \subseteq Entries(Head(x.exchanges).symbols) /\ Seed!Key(t) = <<at, Head(x.symbols)>>
      /\ at = Head(x.exchanges).id /\ at \in Seed!ExchangesOf(t) /\ DOMAIN x = {"at", "exchanges", "symbols", "found"}
  BY <1>1, <1>2, AtWork
<1>4. /\ reported'[t] = reported[t] /\ \A q \in reported'[t] : q[1] \in Seed!ExchangesOf(t)
      /\ markets' \in [DOMAIN markets' -> Row] /\ DOMAIN markets \subseteq DOMAIN markets'
  BY <1>2 DEF SeedTypes
<1>5. CASE Seed!IsCCXT(t) /\ Seed!Key(t) \notin Listed
  <2>1. seeder' = [seeder EXCEPT ![t] = Seed!AtSymbol(t, r)]
    BY <1>5 DEF Seed!FindMarket, Seed!NextSymbol
  <2>2. Alone(t) /\ seeder'[t] = Seed!AtSymbol(t, r)
    BY <1>2, <2>1 DEF Alone, SeedTypes
  <2>3. RowsKept(t) /\ \A flag \in Flags : \A e : Clean(flag, e) => Clean(flag, e)'
    BY <1>2, <2>2, Untouched
  <2>4. ASSUME NEW y, Left(x, Seed!Flag(t), at, y) /\ ~Later(x, at, y) /\ y \notin Entries(r) PROVE Excused(t, at, y)
    <3>1. y = Head(x.symbols)
      BY <1>2, <2>4 DEF Left, Before, Within
    <3> QED BY <1>3, <1>5, <3>1 DEF Excused
  <2>5. Entries(r) \subseteq Entries(Head(x.exchanges).symbols) /\ reported[t] \subseteq reported'[t]
    BY <1>3, <1>4
  <2> HIDE DEF r
  <2>6. SeedTypes' /\ Kept(t) /\ BeginsWhole(t) /\ (Cleaned(t) => Cleaned(t)')
    BY <1>1, <1>2, <1>3, <1>4, <2>2, <2>3, <2>4, <2>5, SymbolStep
  <2> QED BY <2>2, <2>3, <2>6 DEF Proper
<1>6. CASE ~(Seed!IsCCXT(t) /\ Seed!Key(t) \notin Listed)
  <2> DEFINE found == IF Seed!Key(t) \in DOMAIN markets THEN markets[Seed!Key(t)] ELSE Null
  <2>1. seeder' = [seeder EXCEPT ![t].at = "write", ![t].found = found]
    BY <1>6 DEF Seed!FindMarket
  <2> HIDE DEF found
  <2>2. Alone(t)
    BY <1>2, <2>1 DEF Alone, SeedTypes
  <2>3. /\ seeder'[t].at = "write" /\ seeder'[t].exchanges = x.exchanges /\ seeder'[t].found = found
        /\ seeder'[t].symbols = x.symbols /\ DOMAIN seeder'[t] = DOMAIN x
    BY <1>3, <2>1 DEF SeedTypes
  <2>4. Sane(seeder'[t], plan[t].exchanges)
    <3>1. Sane(x, plan[t].exchanges)
      BY DEF SeedTypes
    <3> QED BY <1>2, <2>3, <3>1 DEF Sane, Idling, Before, Within
  <2>5. found # Null => found \in Row /\ Seed!Key(t) \in DOMAIN markets /\ found = markets[Seed!Key(t)]
    BY DEF found, SeedTypes
  <2>6. <<Head(seeder'[t].exchanges).id, Head(seeder'[t].symbols)>> = Seed!Key(t)
    BY <1>3, <2>3
  <2>7. ASSUME NEW e, NEW y, Left(x, Seed!Flag(t), e, y)
        PROVE  Answers(t, e, y)' \/ IsSelected(Seed!Flag(t), e, y)'
    <3>1. Seed!Flag(t)' = Seed!Flag(t)
      BY <1>2 DEF Seed!Flag
    <3>2. CASE e = at /\ y = Head(x.symbols) /\ found # Null /\ found[Seed!Flag(t)]
      BY <1>2, <1>3, <2>5, <3>1, <3>2 DEF IsSelected
    <3>3. CASE ~(e = at /\ y = Head(x.symbols) /\ found # Null /\ found[Seed!Flag(t)])
      <4>1. Left(seeder'[t], Seed!Flag(t)', e, y)
        BY <1>2, <1>3, <2>3, <2>7, <3>1, <3>3 DEF Left, Later, Idling, Before, Within
      <4> QED BY <4>1 DEF Answers
    <3> QED BY <3>2, <3>3
  <2>8. ASSUME NEW e, Coming(x, e) PROVE Coming(seeder'[t], e)
    BY <1>2, <2>3, <2>8 DEF Coming, Idling
  <2>9. UNCHANGED <<markets, reported>> /\ seeder'[t].at # "idle"
    BY <1>2, <2>3
  <2>10. seeder'[t].at = "write" /\ seeder'[t].found # Null =>
           /\ seeder'[t].found \in Row
           /\ <<Head(seeder'[t].exchanges).id, Head(seeder'[t].symbols)>> \in DOMAIN markets'
    BY <1>2, <2>3, <2>5, <2>6
  <2> QED BY <1>2, <2>2, <2>4, <2>7, <2>8, <2>9, <2>10, StandStill
<1> QED BY <1>5, <1>6

LEMMA CreatedRow ==
  ASSUME NEW flag \in Flags
  PROVE  Seed!Created(flag) \in Row /\ \A f \in Flags : Seed!Created(flag)[f] <=> f = flag
<1> DEFINE none == [active |-> FALSE, historical |-> FALSE]
<1>1. none \in Row /\ \A f \in Flags : none[f] = FALSE
  BY DEF Row, Flags
<1>2. none = [f \in Flags |-> none[f]] /\ Row = [Flags -> BOOLEAN]
  BY DEF Row, Flags
<1>3. Seed!Created(flag) = [none EXCEPT ![flag] = TRUE]
  BY DEF Seed!Created
<1> HIDE DEF none
<1> QED BY <1>1, <1>2, <1>3

LEMMA WriteProper ==
  ASSUME SeedTypes, NEW t \in Seeders, Seed!UpdateOrCreateMarket(t)
  PROVE  Proper(t)
<1> DEFINE x == seeder[t]  r == Tail(seeder[t].symbols)
<1>1. PICK at : at = Seed!Exchange(t)
  OBVIOUS
<1>2. x.at = "write" /\ x.at \in Within /\ x.at \notin Idling /\ x.at \notin Before /\ UNCHANGED plan
  BY DEF Seed!UpdateOrCreateMarket, Idling, Within, Before
<1>3. /\ IsList(r) /\ Entries(x.symbols) = {Head(x.symbols)} \cup Entries(r)
      /\ Entries(x.symbols) \subseteq Entries(Head(x.exchanges).symbols) /\ Seed!Key(t) = <<at, Head(x.symbols)>>
      /\ at = Head(x.exchanges).id /\ at \in Seed!ExchangesOf(t)
      /\ Head(x.exchanges) \in Entries(plan[t].exchanges)
  BY <1>1, <1>2, AtWork
<1>4. Wants(plan[t].exchanges, at, Head(x.symbols))
  BY <1>3 DEF Wants
<1>5. Seed!Flag(t) \in Flags /\ \A u \in Seeders : Seed!Flag(u)' = Seed!Flag(u)
  BY <1>2 DEF Seed!Flag, Flags
<1>6. /\ markets \in [DOMAIN markets -> Row]
      /\ x.found # Null => x.found \in Row /\ Seed!Key(t) \in DOMAIN markets
  BY <1>2 DEF SeedTypes
<1>7. CASE x.found = Null /\ Seed!Key(t) \in DOMAIN markets
  <2>1. Seed!Catch(t) /\ UNCHANGED <<plan, markets>>
    BY <1>2, <1>7 DEF Seed!UpdateOrCreateMarket
  <2> QED BY <1>2, <2>1, CatchProper
<1>8. CASE ~(x.found = Null /\ Seed!Key(t) \in DOMAIN markets)
  <2>1. /\ Seed!NextSymbol(t) /\ UNCHANGED reported
        /\ x.found = Null => markets' = [key \in DOMAIN markets \cup {Seed!Key(t)} |->
                                           IF key = Seed!Key(t) THEN Seed!Created(Seed!Flag(t)) ELSE markets[key]]
        /\ x.found # Null => markets' = [markets EXCEPT ![Seed!Key(t)] = Seed!Written(markets[Seed!Key(t)], x.found, Seed!Flag(t))]
    BY <1>8 DEF Seed!UpdateOrCreateMarket
  <2>2. DOMAIN markets' = DOMAIN markets \cup {Seed!Key(t)}
    BY <1>6, <2>1
  <2>3. \A key \in DOMAIN markets \ {Seed!Key(t)} : markets'[key] = markets[key]
    BY <1>6, <2>1
  <2>4. /\ markets'[Seed!Key(t)] \in Row
        /\ x.found = Null \/ ~x.found[Seed!Flag(t)] => markets'[Seed!Key(t)][Seed!Flag(t)]
        /\ Seed!Key(t) \in DOMAIN markets => \A f \in Flags : markets[Seed!Key(t)][f] => markets'[Seed!Key(t)][f]
        /\ \A f \in Flags : markets'[Seed!Key(t)][f] => f = Seed!Flag(t) \/ (Seed!Key(t) \in DOMAIN markets /\ markets[Seed!Key(t)][f])
    <3>1. CASE x.found = Null
      <4>1. markets'[Seed!Key(t)] = Seed!Created(Seed!Flag(t)) /\ Seed!Key(t) \notin DOMAIN markets
        BY <1>8, <2>1, <3>1
      <4>2. Seed!Created(Seed!Flag(t)) \in Row /\ \A f \in Flags : Seed!Created(Seed!Flag(t))[f] <=> f = Seed!Flag(t)
        BY <1>5, CreatedRow
      <4> QED BY <1>5, <4>1, <4>2
    <3>2. CASE x.found # Null
      <4>1. markets'[Seed!Key(t)] = Seed!Written(markets[Seed!Key(t)], x.found, Seed!Flag(t)) /\ markets[Seed!Key(t)] \in Row
            /\ Seed!Key(t) \in DOMAIN markets
        BY <1>6, <2>1, <3>2
      <4>2. CASE x.found[Seed!Flag(t)]
        <5>1. markets'[Seed!Key(t)] = markets[Seed!Key(t)]
          BY <4>1, <4>2 DEF Seed!Written
        <5> QED BY <3>2, <4>1, <4>2, <5>1
      <4>3. CASE ~x.found[Seed!Flag(t)]
        <5>1. markets'[Seed!Key(t)] = [markets[Seed!Key(t)] EXCEPT ![Seed!Flag(t)] = TRUE]
          BY <4>1, <4>3 DEF Seed!Written
        <5>2. /\ [markets[Seed!Key(t)] EXCEPT ![Seed!Flag(t)] = TRUE] \in Row
              /\ \A f \in Flags : [markets[Seed!Key(t)] EXCEPT ![Seed!Flag(t)] = TRUE][f] <=> f = Seed!Flag(t) \/ markets[Seed!Key(t)][f]
          BY <1>5, <4>1 DEF Row, Flags
        <5> QED BY <1>5, <4>1, <5>1, <5>2
      <4> QED BY <4>2, <4>3
    <3> QED BY <3>1, <3>2
  <2>5. markets' \in [DOMAIN markets' -> Row]
    <3>1. \A key \in DOMAIN markets' : markets'[key] \in Row
      BY <1>6, <2>2, <2>3, <2>4
    <3>2. markets' = [key \in DOMAIN markets' |-> markets'[key]]
      BY <1>6, <2>1
    <3> QED BY <3>1, <3>2
  <2>6. RowsKept(t)
    BY <2>2, <2>3, <2>4 DEF RowsKept, IsSelected
  <2>7. ASSUME NEW f \in Flags, NEW e, Clean(f, e) PROVE Clean(f, e)'
    <3> SUFFICES ASSUME NEW key \in DOMAIN markets', key[1] = e, markets'[key][f]
                 PROVE  \E u \in Seeders : \E y : Seed!Flag(u) = f /\ Wants(plan[u].exchanges, e, y) /\ key = <<e, y>>
      BY <1>2, <1>5 DEF Clean
    <3>1. CASE key \in DOMAIN markets /\ markets[key][f]
      BY <2>7, <3>1 DEF Clean
    <3>2. CASE ~(key \in DOMAIN markets /\ markets[key][f])
      <4>1. key = Seed!Key(t) /\ f = Seed!Flag(t)
        BY <2>2, <2>3, <2>4, <3>2
      <4>2. key = <<e, Head(x.symbols)>> /\ e = at
        BY <1>3, <4>1
      <4> QED BY <1>4, <4>1, <4>2
    <3> QED BY <3>1, <3>2
  <2>8. Alone(t) /\ seeder'[t] = Seed!AtSymbol(t, r) /\ reported'[t] = reported[t]
    BY <1>2, <2>1 DEF Seed!NextSymbol, Alone, SeedTypes
  <2>9. ASSUME NEW y, Left(x, Seed!Flag(t), at, y) /\ ~Later(x, at, y) /\ y \notin Entries(r)
        PROVE  IsSelected(Seed!Flag(t), at, y)'
    <3>1. y = Head(x.symbols) /\ (x.found = Null \/ ~x.found[Seed!Flag(t)])
      BY <1>2, <2>9 DEF Left, Before, Within
    <3> QED BY <1>3, <1>5, <2>2, <2>4, <3>1 DEF IsSelected
  <2>10. /\ Entries(r) \subseteq Entries(Head(x.exchanges).symbols) /\ reported[t] \subseteq reported'[t]
         /\ DOMAIN markets \subseteq DOMAIN markets' /\ \A q \in reported'[t] : q[1] \in Seed!ExchangesOf(t)
    BY <1>3, <2>2, <2>8 DEF SeedTypes
  <2> HIDE DEF r
  <2>11. SeedTypes' /\ Kept(t) /\ BeginsWhole(t) /\ (Cleaned(t) => Cleaned(t)')
    BY <1>1, <1>2, <1>3, <2>5, <2>7, <2>8, <2>9, <2>10, SymbolStep
  <2> QED BY <2>6, <2>7, <2>8, <2>11 DEF Proper
<1> QED BY <1>7, <1>8

LEMMA InitSeedInv == Configuration /\ Seed!Init => SeedInv
<1> SUFFICES ASSUME Configuration, Seed!Init PROVE SeedInv
  OBVIOUS
<1>1. \A s \in Seeders : seeder[s] = Seed!Idle /\ reported[s] = {}
  BY DEF Seed!Init
<1>2. \A s \in Seeders : Sane(seeder[s], plan[s].exchanges) /\ seeder[s].at = "idle"
  <2>1. Entries(<<>>) = {} /\ <<>> \in Seq(Entries(<<>>))
    BY DEF Entries
  <2> SUFFICES ASSUME NEW s \in Seeders PROVE Sane(seeder[s], plan[s].exchanges) /\ seeder[s].at = "idle"
    OBVIOUS
  <2>2. /\ seeder[s].at = "idle" /\ seeder[s].exchanges = <<>>
        /\ DOMAIN seeder[s] = {"at", "exchanges", "symbols", "found"}
    BY <1>1 DEF Seed!Idle
  <2> QED BY <2>1, <2>2 DEF Sane, IsList, OnceEach, Idling, Before, Within
<1>3. SeedTypes
  BY <1>1, <1>2 DEF SeedTypes, Seed!Init, Configuration
<1> QED BY <1>2, <1>3 DEF SeedInv, Answered, Cleaned

LEMMA NextSeedInv == SeedInv /\ [Seed!Next]_Seed!vars => SeedInv'
<1> SUFFICES ASSUME SeedInv, [Seed!Next]_Seed!vars PROVE SeedInv'
  OBVIOUS
<1>1. ASSUME NEW t \in Seeders, Proper(t) PROVE SeedInv'
  <2>1. SeedTypes /\ \A s \in Seeders : Answered(s) /\ Cleaned(s)
    BY DEF SeedInv
  <2>2. SeedTypes' /\ Alone(t) /\ \A s \in Seeders : Answered(s)'
    BY <1>1, <2>1, CombineAnswered DEF Proper
  <2>3. ASSUME NEW s \in Seeders PROVE Cleaned(s)'
    <3>1. CASE s = t
      BY <1>1, <2>1, <3>1 DEF Proper
    <3>2. CASE s # t
      <4>1. /\ seeder'[s] = seeder[s] /\ reported'[s] = reported[s]
            /\ Seed!ExchangesOf(s)' = Seed!ExchangesOf(s) /\ Seed!Flag(s)' = Seed!Flag(s)
        BY <2>2, <3>2 DEF Alone, Seed!ExchangesOf, Seed!Flag
      <4>2. PICK f \in Flags : f = Seed!Flag(s)
        BY DEF Seed!Flag, Flags
      <4>3. \A e : Clean(f, e) => Clean(f, e)'
        BY <1>1 DEF Proper
      <4> SUFFICES ASSUME seeder[s].at \notin {"idle", "crashed"}, NEW e \in Seed!ExchangesOf(s), Clean(Seed!Flag(s), e)
                   PROVE  Clean(Seed!Flag(s), e)'
        BY <2>1, <4>1 DEF Cleaned
      <4> QED BY <4>1, <4>2, <4>3 DEF Clean
    <3> QED BY <3>1, <3>2
  <2> QED BY <2>2, <2>3 DEF SeedInv
<1>2. CASE UNCHANGED Seed!vars
  BY <1>2 DEF Seed!vars, SeedInv, SeedTypes, Answered, Cleaned, Answers, IsSelected, Clean, Seed!Flag, Seed!IsCCXT, Seed!Alike,
              Seed!ExchangesOf, Seed!Key, Seed!Exchange, Seed!Symbol
<1>3. ASSUME NEW t \in Seeders, Seed!Execute(t) \/ Seed!Step(t) \/ Seed!Fails(t) \/ Seed!Crash(t) PROVE Proper(t)
  <2>1. SeedTypes
    BY DEF SeedInv
  <2>2. CASE Seed!Fails(t)
    <3>1. seeder[t].at \notin Idling /\ Seed!Catch(t) /\ UNCHANGED <<plan, markets>>
      BY <2>2 DEF Seed!Fails, Seed!Running, Idling
    <3> QED BY <2>1, <3>1, CatchProper
  <2> QED BY <1>3, <2>1, <2>2, ExecuteProper, QueryProper, LoadProper, ResetProper, FindProper, WriteProper DEF Seed!Step
<1> QED BY <1>1, <1>2, <1>3 DEF Seed!Next

\* Whatever seeders run at the same time, fail or are started again: a configured
\* market is selected or somebody answers for it, and nothing else is selected.
THEOREM SelectedAsConfiguredHolds == ASSUME Configuration PROVE Seed!Spec => []Seed!SelectedAsConfigured
<1>1. Seed!Init => SeedInv
  BY InitSeedInv
<1>2. SeedInv /\ [Seed!Next]_Seed!vars => SeedInv'
  BY NextSeedInv
<1>3. SeedInv => Seed!NoneLeftOut
  <2> SUFFICES ASSUME SeedInv, Seed!Quiet, NEW s \in Seeders, seeder[s].at = "ended",
                      NEW e \in Seed!ExchangesOf(s), NEW key \in Seed!Configured(s, e)
               PROVE  \/ Seed!IsCCXT(s) /\ key \notin Listed
                      \/ key \in Seed!Selected(Seed!Flag(s), e)
                      \/ \E t \in Seed!Alike(s) : {key, <<e, Null>>} \cap reported[t] # {}
                      \/ \E t \in Seed!Alike(s) : e \in Seed!ExchangesOf(t) /\ key \notin Seed!Configured(t, e) /\ seeder[t].at = "ended"
    BY DEF Seed!NoneLeftOut
  <2>1. PICK y : key = <<e, y>> /\ Wants(plan[s].exchanges, e, y)
    BY DEF Seed!Configured, Wants, Entries
  <2>2. \/ Seed!IsCCXT(s) /\ <<e, y>> \notin Listed
        \/ IsSelected(Seed!Flag(s), e, y)
        \/ \E t \in Seed!Alike(s) : Answers(t, e, y)
    BY <2>1 DEF SeedInv, Answered
  <2>3. CASE IsSelected(Seed!Flag(s), e, y)
    BY <2>1, <2>3 DEF IsSelected, Seed!Selected
  <2>4. ASSUME NEW t \in Seed!Alike(s), Answers(t, e, y)
        PROVE  \/ {key, <<e, Null>>} \cap reported[t] # {}
               \/ e \in Seed!ExchangesOf(t) /\ key \notin Seed!Configured(t, e) /\ seeder[t].at = "ended"
    <3>1. seeder[t].at \in {"idle", "ended"}
      BY DEF Seed!Quiet, Seed!Alike
    <3>2. ~Left(seeder[t], Seed!Flag(t), e, y)
      BY <3>1 DEF Left, Idling, Before, Within
    <3>3. key \in Seed!Configured(t, e) => Wants(plan[t].exchanges, e, y)
      BY <2>1 DEF Seed!Configured, Wants, Entries
    <3> QED BY <2>1, <2>4, <3>1, <3>2, <3>3 DEF Answers
  <2> QED BY <2>1, <2>2, <2>3, <2>4
<1>4. SeedInv => Seed!NoneStale
  <2> SUFFICES ASSUME SeedInv, NEW s \in Seeders, seeder[s].at = "ended", NEW e \in Seed!ExchangesOf(s),
                      <<e, Null>> \notin reported[s], NEW key \in Seed!Selected(Seed!Flag(s), e)
               PROVE  key \in UNION {Seed!Configured(t, e) : t \in Seed!Alike(s)}
    BY DEF Seed!NoneStale
  <2>1. Clean(Seed!Flag(s), e)
    BY DEF SeedInv, Cleaned, Coming, Idling, Before
  <2>2. PICK t \in Seeders : \E y : Seed!Flag(t) = Seed!Flag(s) /\ Wants(plan[t].exchanges, e, y) /\ key = <<e, y>>
    BY <2>1 DEF Clean, Seed!Selected
  <2>3. t \in Seed!Alike(s) /\ key \in Seed!Configured(t, e)
    BY <2>2 DEF Seed!Alike, Seed!Configured, Wants, Entries
  <2> QED BY <2>3
<1> QED BY <1>1, <1>2, <1>3, <1>4, PTL DEF Seed!Spec, Seed!SelectedAsConfigured

=============================================================================
