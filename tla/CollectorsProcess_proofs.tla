---------------------- MODULE CollectorsProcess_proofs ----------------------
(***************************************************************************)
(* What runs the exchanges of a bin: what an exit of CollectorsProcess in  *)
(* good order means, for any bin of exchanges; the bins that               *)
(* ProcessAllocator makes, on any machine; and the network of a policy,    *)
(* PolicyNetwork, for any messages, lost connections and failures.         *)
(***************************************************************************)
EXTENDS CollectorsProcess, SequenceTheorems, FiniteSetTheorems, WellFoundedInduction, TLAPS

\* What the sets contain.
Types ==
  /\ shutdowns \in [Callers -> SUBSET SUBSET Exchanges]
  /\ listed \subseteq Exchanges /\ resolved \subseteq Exchanges

\* stop() found managers that were listed and still are; one of the calls
\* found no more than any other.
FoundListed ==
  /\ \A c \in Callers : Found(c) \subseteq listed
  /\ (\E c \in Callers : Called(c)) => \E first \in Callers : First(first)

\* A manager that has stopped for anybody has said goodbye.
StoppedSaidGoodbye == \A c \in Callers, e \in Exchanges : <<c, e>> \in stops => e \in goodbyes

\* The process of its own accord: with all its schedules started, then over.
WorkDone ==
  /\ main \in {"working", "shutting down"} => finite /\ listed = Exchanges
  /\ Called("main") => main = "shutting down" /\ resolved = Exchanges

\* The exit is that of a call whose stop() was waited for.
ExitAwaited == exit = "success" => \E c \in Callers : StopsAwaited(c)

\* The inductive invariant.
IInv == Types /\ FoundListed /\ StoppedSaidGoodbye /\ WorkDone /\ ExitAwaited

-----------------------------------------------------------------------------

\* It holds at the start.
LEMMA InitIInv == Init => IInv
  BY DEF Init, IInv, Types, FoundListed, StoppedSaidGoodbye, WorkDone, ExitAwaited, Called, Found, Callers

\* A call of shutdown() that finds what is listed keeps the order of the calls.
LEMMA ShutdownKeepsFirst ==
  ASSUME Types, FoundListed, NEW c \in Callers, ~Called(c), Shutdown(c),
         UNCHANGED <<listed, resolved>>
  PROVE  Types' /\ FoundListed'
<1>1. shutdowns' \in [Callers -> SUBSET SUBSET Exchanges] /\ shutdowns'[c] = {listed}
      /\ \A d \in Callers \ {c} : shutdowns'[d] = shutdowns[d]
  BY DEF Types, Shutdown
<1>2. Found(c)' = listed /\ Called(c)'
  BY <1>1 DEF Found, Called
<1>3. \A d \in Callers \ {c} : Found(d)' = Found(d) /\ (Called(d)' <=> Called(d))
  BY <1>1 DEF Found, Called
<1>4. \A d \in Callers : Found(d)' \subseteq listed'
  BY <1>2, <1>3 DEF FoundListed
<1>5. \E first \in Callers : First(first)'
  <2>1. CASE \E d \in Callers : Called(d)
    <3>1. PICK first \in Callers : First(first)
      BY <2>1 DEF FoundListed
    <3>2. first # c
      BY <3>1 DEF First
    <3>3. First(first)'
      BY <1>2, <1>3, <3>1, <3>2 DEF First, FoundListed
    <3> QED BY <3>3
  <2>2. CASE \A d \in Callers : ~Called(d)
    BY <1>2, <1>3, <2>2 DEF First
  <2> QED BY <2>1, <2>2
<1>6. Types'
  BY <1>1 DEF Types
<1>7. FoundListed'
  BY <1>4, <1>5, Zenon DEF FoundListed
<1> QED BY <1>6, <1>7

\* It is kept by every step.
LEMMA NextIInv == IInv /\ [Next]_vars => IInv'
<1> SUFFICES ASSUME IInv, [Next]_vars PROVE IInv'
  OBVIOUS
<1> USE DEF IInv
<1>1. CASE UNCHANGED vars
  BY <1>1 DEF vars, Types, FoundListed, StoppedSaidGoodbye, WorkDone, ExitAwaited, First, Called, Found, StopsAwaited
<1>2. ASSUME UNCHANGED <<shutdowns, stops, goodbyes>>, listed \subseteq listed', listed' \subseteq Exchanges,
             resolved \subseteq resolved', resolved' \subseteq Exchanges,
             WorkDone', exit' = "success" => exit = "success"
      PROVE  IInv'
  BY <1>2 DEF Types, FoundListed, StoppedSaidGoodbye, ExitAwaited, First, Called, Found, StopsAwaited
<1>3. CASE Connect
  BY <1>3, <1>2 DEF Connect, Types, WorkDone, Called
<1>4. CASE StartFails
  BY <1>4, <1>2 DEF StartFails, Types, WorkDone, Called
<1>5. CASE Process
  BY <1>5, <1>2 DEF Process, Types, WorkDone, Called
<1>6. CASE FiniteStart
  <2>1. listed = Exchanges /\ resolved = Exchanges /\ finite /\ exit # "success"
    BY <1>6 DEF FiniteStart, WorkDone, Types, Alive
  <2>2. ~Called("main")
    BY <1>6 DEF FiniteStart, WorkDone
  <2>3. Types' /\ FoundListed'
    BY <1>6, <2>2, ShutdownKeepsFirst DEF FiniteStart, Callers, Types
  <2>4. StoppedSaidGoodbye' /\ ExitAwaited'
    BY <1>6, <2>1 DEF FiniteStart, StoppedSaidGoodbye, ExitAwaited
  <2>5. WorkDone'
    BY <1>6, <2>1 DEF FiniteStart, WorkDone
  <2> QED BY <2>3, <2>4, <2>5
<1>7. CASE ForceTerminationHandler
  BY <1>7, <1>2 DEF ForceTerminationHandler, Types, WorkDone, Called
<1>8. ASSUME NEW e \in Exchanges, InitExchangeAPI(e) PROVE IInv'
  BY <1>8, <1>2 DEF InitExchangeAPI, Types, WorkDone, Called
<1>9. ASSUME NEW e \in Exchanges, InitMarketsAMQPManager(e) PROVE IInv'
  BY <1>9, <1>2 DEF InitMarketsAMQPManager, Types, WorkDone, Called
<1>10. ASSUME NEW e \in Exchanges, ScheduleEnds(e) PROVE IInv'
  BY <1>10, <1>2 DEF ScheduleEnds, Types, WorkDone, Called
<1>11. ASSUME NEW c \in Callers, TerminationHandler(c) PROVE IInv'
  <2>1. Types' /\ FoundListed'
    BY <1>11, ShutdownKeepsFirst DEF TerminationHandler, Types
  <2>2. StoppedSaidGoodbye' /\ ExitAwaited'
    BY <1>11 DEF TerminationHandler, Alive, StoppedSaidGoodbye, ExitAwaited
  <2>3. WorkDone'
    BY <1>11 DEF TerminationHandler, Shutdown, WorkDone, Called, Types, Callers
  <2> QED BY <2>1, <2>2, <2>3
<1>12. ASSUME NEW c \in Callers, CloseAndExit(c) PROVE IInv'
  BY <1>12 DEF CloseAndExit, Types, FoundListed, StoppedSaidGoodbye, WorkDone, ExitAwaited, First, Called, Found, StopsAwaited
<1>13. ASSUME NEW c \in Callers, NEW e \in Exchanges, StopManager(c, e) PROVE IInv'
  <2>1. Types' /\ FoundListed' /\ WorkDone'
    BY <1>13 DEF StopManager, Types, FoundListed, WorkDone, First, Called, Found
  <2>2. StoppedSaidGoodbye' /\ ExitAwaited'
    BY <1>13 DEF StopManager, Alive, StoppedSaidGoodbye, ExitAwaited
  <2> QED BY <2>1, <2>2
<1> QED
  BY <1>1, <1>3, <1>4, <1>5, <1>6, <1>7, <1>8, <1>9, <1>10, <1>11, <1>12, <1>13 DEF Next

-----------------------------------------------------------------------------

\* The inductive invariant holds in every reachable state of a process.
THEOREM Invariant == Spec => []IInv
  BY InitIInv, NextIInv, PTL DEF Spec

\* A process that exits in good order without having been told to go has
\* seen the schedules of all its exchanges to their ends, whatever the bin.
THEOREM ExitsWithWorkDoneHolds == Spec => []ExitsWithWorkDone
<1>1. IInv => ExitsWithWorkDone
  <2> SUFFICES ASSUME IInv, exit = "success", ~Called("signal"), ~Called("rejection")
               PROVE  finite /\ resolved = Exchanges
    BY DEF ExitsWithWorkDone
  <2>1. PICK c \in Callers : Called(c)
    BY DEF IInv, ExitAwaited, StopsAwaited
  <2>2. c = "main"
    BY <2>1 DEF Callers
  <2> QED BY <2>1, <2>2 DEF IInv, WorkDone
<1> QED BY <1>1, Invariant, PTL

\* A process that exits in good order has said goodbye for every replica that
\* had started before it was first told to go, whatever the bin and however
\* many shutdowns overlap.
THEOREM GoodbyeBeforeExitHolds == Spec => []GoodbyeBeforeExit
<1>1. IInv => GoodbyeBeforeExit
  <2> SUFFICES ASSUME IInv, exit = "success"
               PROVE  \E first \in Callers : First(first) /\ Found(first) \subseteq goodbyes
    BY DEF GoodbyeBeforeExit
  <2>1. PICK c \in Callers : Called(c) /\ \A e \in Found(c) : <<c, e>> \in stops
    BY DEF IInv, ExitAwaited, StopsAwaited
  <2>2. PICK first \in Callers : First(first)
    BY <2>1 DEF IInv, FoundListed
  <2>3. Found(first) \subseteq Found(c) /\ Found(c) \subseteq Exchanges
    BY <2>1, <2>2 DEF First, IInv, FoundListed, Types
  <2>4. Found(c) \subseteq goodbyes
    BY <2>1, <2>3 DEF IInv, StoppedSaidGoodbye
  <2> QED BY <2>2, <2>3, <2>4
<1> QED BY <1>1, Invariant, PTL

-----------------------------------------------------------------------------
(* ProcessAllocator: the bins, on any machine.  It always leaves a process *)
(* with room for another exchange.                                         *)

CONSTANT Machines
VARIABLES machine, bins, best, dealt

Allocating == INSTANCE ProcessAllocator

Machine == [cpus : Nat \ {0}, perProcess : Nat, exchanges : Nat]

\* The most that a process gets, unless an exchange alone is more.
Tolerated == IF machine.perProcess = 0 THEN 1 ELSE machine.perProcess

HasRoom(b) == \E i \in DOMAIN b : Len(b[i]) < Tolerated

AllocInv ==
  /\ machine \in Machine /\ bins \in Seq(Seq(Nat)) /\ dealt \in Nat /\ best \in DOMAIN bins
  /\ Len(bins) >= machine.cpus /\ HasRoom(bins) /\ \A i \in DOMAIN bins : Len(bins[i]) <= Tolerated
  /\ Len(bins) > machine.cpus => \A i \in 1..(Len(bins) - 1) : Len(bins[i]) >= machine.perProcess
  /\ \A e \in 1..dealt : \E i \in DOMAIN bins : \E j \in 1..Len(bins[i]) : bins[i][j] = e
  /\ \A i \in DOMAIN bins : \A j \in 1..Len(bins[i]) : bins[i][j] \in 1..dealt
  /\ \A i, h \in DOMAIN bins : \A j \in 1..Len(bins[i]), k \in 1..Len(bins[h]) :
       bins[i][j] = bins[h][k] => i = h /\ j = k

LEMMA LeastNatural ==
  ASSUME NEW S \in SUBSET Nat, S # {}
  PROVE  \E n \in S : \A m \in S : n <= m
<1>1. PICK n \in S : \A m \in S : <<m, n>> \notin OpToRel(<, Nat)
  BY NatLessThanWellFounded, WFMin
<1>2. \A m \in S : ~(m < n)
  BY <1>1 DEF OpToRel
<1> QED BY <1>2

\* The first bin with less than the last one used has room, or that one has.
LEMMA BestHasRoom ==
  ASSUME AllocInv
  PROVE  /\ Allocating!NextBestBin \in DOMAIN bins
         /\ Len(bins[Allocating!NextBestBin]) < Tolerated
<1> DEFINE less == {i \in DOMAIN bins : Len(bins[i]) < Len(bins[best])}
<1>1. /\ DOMAIN bins = 1..Len(bins) /\ Len(bins) \in Nat /\ best \in DOMAIN bins
      /\ \A i \in DOMAIN bins : Len(bins[i]) \in Nat /\ Len(bins[i]) <= Tolerated
      /\ Tolerated \in Nat
  BY DEF AllocInv, Tolerated, Machine
<1>2. CASE less = {}
  <2>1. Allocating!NextBestBin = best
    BY <1>2 DEF Allocating!NextBestBin
  <2>2. PICK i \in DOMAIN bins : Len(bins[i]) < Tolerated
    BY DEF AllocInv, HasRoom
  <2>3. ~(Len(bins[i]) < Len(bins[best]))
    BY <1>2
  <2> QED BY <1>1, <2>1, <2>2, <2>3
<1>3. CASE less # {}
  <2>1. less \in SUBSET Nat
    BY <1>1
  <2>2. PICK n \in less : \A m \in less : n <= m
    BY <1>3, <2>1, LeastNatural
  <2>3. Allocating!Min(less) \in less
    BY <2>1, <2>2 DEF Allocating!Min
  <2>4. Allocating!NextBestBin \in less
    BY <1>3, <2>3 DEF Allocating!NextBestBin
  <2> QED BY <1>1, <2>4
<1> QED BY <1>2, <1>3

LEMMA AllocateInv ==
  ASSUME AllocInv, Allocating!Allocate
  PROVE  AllocInv'
<1> DEFINE n == Allocating!NextBestBin
           one == [bins EXCEPT ![n] = Append(bins[n], dealt + 1)]
           full == \A i \in DOMAIN one : Len(one[i]) >= machine.perProcess
<1>1. n \in DOMAIN bins /\ Len(bins[n]) < Tolerated
  BY BestHasRoom
<1>2. /\ bins' = IF full THEN Append(one, <<>>) ELSE one
      /\ dealt' = dealt + 1 /\ best' = n /\ UNCHANGED machine
  BY DEF Allocating!Allocate, Allocating!Expanded
<1> HIDE DEF n
<1>3. /\ machine \in Machine /\ Tolerated \in Nat \ {0} /\ dealt \in Nat
      /\ bins \in Seq(Seq(Nat)) /\ DOMAIN bins = 1..Len(bins) /\ Len(bins) \in Nat
      /\ \A i \in DOMAIN bins : bins[i] \in Seq(Nat) /\ Len(bins[i]) \in Nat
  BY DEF AllocInv, Tolerated, Machine
<1>4. /\ one \in Seq(Seq(Nat)) /\ Len(one) = Len(bins) /\ DOMAIN one = DOMAIN bins
      /\ one[n] = Append(bins[n], dealt + 1)
      /\ \A i \in DOMAIN bins \ {n} : one[i] = bins[i]
  BY <1>1, <1>3
<1>5. /\ Len(one[n]) = Len(bins[n]) + 1 /\ one[n][Len(bins[n]) + 1] = dealt + 1
      /\ \A j \in 1..Len(bins[n]) : one[n][j] = bins[n][j]
  BY <1>1, <1>3, <1>4
<1>6. \A i \in DOMAIN one : Len(bins[i]) <= Len(one[i]) /\ Len(one[i]) <= Tolerated /\ Len(one[i]) \in Nat
  BY <1>1, <1>3, <1>4, <1>5 DEF AllocInv
<1> HIDE DEF one, full
<1>7. /\ bins' \in Seq(Seq(Nat)) /\ DOMAIN one \subseteq DOMAIN bins'
      /\ \A i \in DOMAIN one : bins'[i] = one[i]
      /\ full => Len(bins') = Len(bins) + 1 /\ bins'[Len(bins) + 1] = <<>>
                 /\ DOMAIN bins' = DOMAIN bins \cup {Len(bins) + 1}
      /\ ~full => bins' = one
  <2>1. CASE full
    <3>1. <<>> \in Seq(Nat) /\ bins' = Append(one, <<>>)
      BY <1>2, <2>1
    <3>2. /\ bins' \in Seq(Seq(Nat)) /\ Len(bins') = Len(one) + 1 /\ bins'[Len(one) + 1] = <<>>
          /\ \A i \in 1..Len(one) : bins'[i] = one[i]
      BY <1>4, <3>1, AppendProperties
    <3>3. DOMAIN bins' = 1..(Len(bins) + 1)
      BY <1>4, <3>2
    <3> QED BY <1>3, <1>4, <2>1, <3>2, <3>3
  <2>2. CASE ~full
    BY <1>2, <1>4, <2>2
  <2> QED BY <2>1, <2>2
<1>8. Tolerated' = Tolerated
  BY <1>2 DEF Tolerated
<1>9. /\ machine' \in Machine /\ dealt' \in Nat /\ best' \in DOMAIN bins' /\ Len(bins') >= machine'.cpus
  <2>1. Len(bins) >= machine.cpus
    BY DEF AllocInv
  <2>2. Len(bins') = Len(bins) \/ Len(bins') = Len(bins) + 1
    BY <1>4, <1>7
  <2>3. machine.cpus \in Nat
    BY <1>3 DEF Machine
  <2>4. n \in DOMAIN bins'
    BY <1>1, <1>4, <1>7
  <2>5. Len(bins') >= machine.cpus
    BY <1>3, <2>1, <2>2, <2>3
  <2> QED BY <1>2, <1>3, <2>4, <2>5
<1>10. HasRoom(bins)'
  <2>1. CASE full
    <3>1. Len(bins) + 1 \in DOMAIN bins' /\ bins'[Len(bins) + 1] = <<>>
      BY <1>7, <2>1
    <3>2. Len(bins'[Len(bins) + 1]) < Tolerated'
      BY <1>3, <1>8, <3>1
    <3> QED BY <3>1, <3>2 DEF HasRoom
  <2>2. CASE ~full
    <3>1. PICK i \in DOMAIN one : Len(one[i]) < machine.perProcess
      BY <1>3, <1>6, <2>2 DEF Machine, full
    <3>2. machine.perProcess <= Tolerated
      BY <1>3 DEF Machine, Tolerated
    <3> QED BY <1>3, <1>6, <1>7, <1>8, <2>2, <3>1, <3>2 DEF HasRoom, Machine
  <2> QED BY <2>1, <2>2
<1>11. \A i \in DOMAIN bins' : Len(bins'[i]) <= Tolerated'
  <2> SUFFICES ASSUME NEW i \in DOMAIN bins' PROVE Len(bins'[i]) <= Tolerated
    BY <1>8
  <2>1. CASE i \in DOMAIN one
    BY <1>6, <1>7, <2>1
  <2>2. CASE i \notin DOMAIN one
    <3>1. bins'[i] = <<>>
      BY <1>3, <1>4, <1>7, <2>2
    <3> QED BY <1>3, <3>1
  <2> QED BY <2>1, <2>2
<1>12. Len(bins') > machine'.cpus => \A i \in 1..(Len(bins') - 1) : Len(bins'[i]) >= machine'.perProcess
  <2>1. CASE full
    <3>1. 1..(Len(bins') - 1) = DOMAIN one
      BY <1>3, <1>4, <1>7, <2>1
    <3> QED BY <1>2, <1>7, <2>1, <3>1 DEF full
  <2>2. CASE ~full
    <3> SUFFICES ASSUME Len(bins) > machine.cpus, NEW i \in 1..(Len(bins) - 1)
                 PROVE  Len(one[i]) >= machine.perProcess
      BY <1>2, <1>4, <1>7, <2>2
    <3>1. Len(bins[i]) >= machine.perProcess /\ i \in DOMAIN one
      BY <1>3, <1>4 DEF AllocInv
    <3> QED BY <1>3, <1>4, <1>6, <3>1 DEF Machine
  <2> QED BY <2>1, <2>2
<1> DEFINE Holds(i, j) == i \in DOMAIN bins /\ j \in 1..Len(bins[i])
<1>13. \A i \in DOMAIN bins' : \A j \in 1..Len(bins'[i]) :
         \/ Holds(i, j) /\ bins'[i][j] = bins[i][j]
         \/ i = n /\ j = Len(bins[n]) + 1 /\ bins'[i][j] = dealt + 1
  <2> SUFFICES ASSUME NEW i \in DOMAIN bins', NEW j \in 1..Len(bins'[i])
               PROVE  \/ Holds(i, j) /\ bins'[i][j] = bins[i][j]
                      \/ i = n /\ j = Len(bins[n]) + 1 /\ bins'[i][j] = dealt + 1
    OBVIOUS
  <2>1. i \in DOMAIN one
    <3> SUFFICES ASSUME i \notin DOMAIN one PROVE FALSE
      OBVIOUS
    <3>1. bins'[i] = <<>>
      BY <1>4, <1>7
    <3>2. 1..Len(bins'[i]) = {}
      BY <3>1
    <3> QED BY <3>2
  <2>2. CASE i = n
    <3>1. bins'[i] = one[n] /\ j \in 1..(Len(bins[n]) + 1)
      BY <1>5, <1>7, <2>1, <2>2
    <3>2. Len(bins[n]) \in Nat /\ n \in DOMAIN bins
      BY <1>1, <1>3
    <3>3. j \in 1..Len(bins[n]) \/ j = Len(bins[n]) + 1
      BY <3>1, <3>2
    <3> QED BY <1>5, <2>2, <3>1, <3>2, <3>3
  <2>3. CASE i # n
    BY <1>4, <1>7, <2>1, <2>3
  <2> QED BY <2>2, <2>3
<1>14. ASSUME NEW i, NEW j, Holds(i, j)
       PROVE  i \in DOMAIN bins' /\ j \in 1..Len(bins'[i]) /\ bins'[i][j] = bins[i][j]
  <2>1. i \in DOMAIN one /\ bins'[i] = one[i] /\ j \in 1..Len(bins[i])
    BY <1>4, <1>7, <1>14
  <2>2. j \in 1..Len(one[i])
    BY <1>3, <1>4, <1>6, <2>1
  <2>3. one[i][j] = bins[i][j]
    BY <1>4, <1>5, <2>1
  <2> QED BY <1>7, <2>1, <2>2, <2>3
<1>15. \A i, j : Holds(i, j) => bins[i][j] \in 1..dealt
  BY DEF AllocInv
<1>16. \A e \in 1..dealt' : \E i \in DOMAIN bins' : \E j \in 1..Len(bins'[i]) : bins'[i][j] = e
  <2> SUFFICES ASSUME NEW e \in 1..(dealt + 1)
               PROVE  \E i \in DOMAIN bins' : \E j \in 1..Len(bins'[i]) : bins'[i][j] = e
    BY <1>2
  <2>1. CASE e = dealt + 1
    <3>1. n \in DOMAIN bins' /\ Len(bins[n]) + 1 \in 1..Len(bins'[n]) /\ bins'[n][Len(bins[n]) + 1] = e
      <4>1. n \in DOMAIN bins' /\ bins'[n] = one[n] /\ Len(bins[n]) \in Nat
        BY <1>1, <1>3, <1>4, <1>7
      <4> QED BY <1>5, <2>1, <4>1
    <3> QED BY <3>1
  <2>2. CASE e # dealt + 1
    <3>1. e \in 1..dealt
      BY <1>3, <2>2
    <3>2. \A v \in 1..dealt : \E i \in DOMAIN bins : \E j \in 1..Len(bins[i]) : bins[i][j] = v
      BY DEF AllocInv
    <3>3. PICK i \in DOMAIN bins : \E j \in 1..Len(bins[i]) : bins[i][j] = e
      BY <3>1, <3>2
    <3>4. PICK j \in 1..Len(bins[i]) : bins[i][j] = e
      BY <3>3
    <3> QED BY <1>14, <3>4
  <2> QED BY <2>1, <2>2
<1>17. \A i \in DOMAIN bins' : \A j \in 1..Len(bins'[i]) : bins'[i][j] \in 1..dealt'
  <2> SUFFICES ASSUME NEW i \in DOMAIN bins', NEW j \in 1..Len(bins'[i])
               PROVE  bins'[i][j] \in 1..(dealt + 1)
    BY <1>2
  <2>1. bins'[i][j] \in 1..dealt \/ bins'[i][j] = dealt + 1
    BY <1>13, <1>15
  <2> QED BY <1>3, <2>1
<1>18. ASSUME NEW i \in DOMAIN bins', NEW h \in DOMAIN bins',
              NEW j \in 1..Len(bins'[i]), NEW k \in 1..Len(bins'[h]), bins'[i][j] = bins'[h][k]
       PROVE  i = h /\ j = k
  <2>1. CASE Holds(i, j) /\ bins'[i][j] = bins[i][j] /\ Holds(h, k) /\ bins'[h][k] = bins[h][k]
    <3>1. \A x, y \in DOMAIN bins : \A v \in 1..Len(bins[x]), w \in 1..Len(bins[y]) :
            bins[x][v] = bins[y][w] => x = y /\ v = w
      BY DEF AllocInv
    <3>2. /\ i \in DOMAIN bins /\ j \in 1..Len(bins[i]) /\ h \in DOMAIN bins /\ k \in 1..Len(bins[h])
          /\ bins[i][j] = bins[h][k]
      BY <1>18, <2>1
    <3> QED BY ONLY <3>1, <3>2
  <2>2. dealt + 1 \notin 1..dealt
    BY <1>3
  <2> QED BY <1>13, <1>15, <1>18, <2>1, <2>2
<1> QED BY <1>7, <1>9, <1>10, <1>11, <1>12, <1>16, <1>17, <1>18 DEF AllocInv

LEMMA AllocInit ==
  ASSUME Machines \subseteq Machine, Allocating!Init
  PROVE  AllocInv
<1>1. /\ machine \in Machine /\ machine.cpus \in Nat \ {0} /\ machine.perProcess \in Nat
      /\ bins = [i \in 1..machine.cpus |-> <<>>] /\ best = 1 /\ dealt = 0
  BY DEF Allocating!Init, Machine
<1>2. bins \in Seq(Seq(Nat)) /\ Len(bins) = machine.cpus /\ DOMAIN bins = 1..machine.cpus
  <2>1. <<>> \in Seq(Nat)
    OBVIOUS
  <2>2. bins \in [1..machine.cpus -> Seq(Nat)]
    BY <1>1, <2>1
  <2>3. bins \in Seq(Seq(Nat))
    <3> DEFINE S == Seq(Nat)
    <3>1. bins \in UNION {[1..n -> S] : n \in Nat}
      BY <1>1, <2>2
    <3> HIDE DEF S
    <3>2. bins \in Seq(S)
      BY ONLY <3>1, SeqDef
    <3> QED BY <3>2 DEF S
  <2>4. Len(bins) \in Nat /\ DOMAIN bins = 1..Len(bins) /\ DOMAIN bins = 1..machine.cpus
    BY <1>1, <2>3
  <2> QED BY <1>1, <2>3, <2>4
<1>3. \A i \in DOMAIN bins : bins[i] = <<>> /\ Len(bins[i]) = 0
  BY <1>1
<1>4. Tolerated \in Nat \ {0}
  BY <1>1 DEF Tolerated
<1>5. 1 \in DOMAIN bins /\ HasRoom(bins)
  BY <1>1, <1>2, <1>3, <1>4 DEF HasRoom
<1>6. ~(Len(bins) > machine.cpus) /\ Len(bins) >= machine.cpus /\ 1..0 = {}
  BY <1>1, <1>2
<1>7. bins \in Seq(Seq(Nat)) /\ \A i \in DOMAIN bins : Len(bins[i]) <= Tolerated /\ 1..Len(bins[i]) = {}
  BY <1>2, <1>3, <1>4
<1> QED BY <1>1, <1>5, <1>6, <1>7 DEF AllocInv

\* On any machine with a processor at least, whatever number of exchanges a process
\* tolerates and however many there are, each gets into one process, none of which
\* has more than it tolerates nor was opened in vain.
THEOREM FairHolds == ASSUME Machines \subseteq Machine PROVE Allocating!Spec => []Allocating!Fair
<1>1. Allocating!Init => AllocInv
  BY AllocInit
<1>2. AllocInv /\ [Allocating!Next]_Allocating!vars => AllocInv'
  <2>1. AllocInv /\ UNCHANGED Allocating!vars => AllocInv'
    BY DEF AllocInv, HasRoom, Tolerated, Allocating!vars
  <2> QED BY <2>1, AllocateInv DEF Allocating!Next
<1>3. AllocInv => Allocating!Fair
  <2> SUFFICES ASSUME AllocInv PROVE Allocating!Fair
    OBVIOUS
  <2>1. Tolerated = Allocating!Max({1, machine.perProcess})
    <3>1. machine.perProcess \in Nat
      BY DEF AllocInv, Machine
    <3> QED BY <3>1 DEF Tolerated, Allocating!Max
  <2>2. /\ \A i \in DOMAIN bins : Allocating!Load(i) = Len(bins[i])
        /\ \A i, e : Allocating!Contains(bins[i], e) <=> \E j \in 1..Len(bins[i]) : bins[i][j] = e
    BY DEF Allocating!Load, Allocating!Contains
  <2>3. Len(bins) > machine.cpus => \A i \in 1..(Len(bins) - 1) : i \in DOMAIN bins
    BY DEF AllocInv
  <2>4. \A i \in DOMAIN bins : Allocating!Load(i) <= Allocating!Max({1, machine.perProcess})
    <3>1. \A i \in DOMAIN bins : Len(bins[i]) <= Tolerated
      BY DEF AllocInv
    <3> QED BY ONLY <2>1, <2>2, <3>1
  <2>5. Len(bins) > machine.cpus => \A i \in 1..(Len(bins) - 1) : Allocating!Load(i) >= machine.perProcess
    <3>1. Len(bins) > machine.cpus => \A i \in 1..(Len(bins) - 1) : Len(bins[i]) >= machine.perProcess
      BY DEF AllocInv
    <3> QED BY ONLY <2>2, <2>3, <3>1
  <2>6. \A e \in 1..dealt : \E i \in DOMAIN bins : Allocating!Contains(bins[i], e)
    BY <2>2 DEF AllocInv
  <2>7. \A i, h \in DOMAIN bins : \A j \in 1..Allocating!Load(i), k \in 1..Allocating!Load(h) :
          bins[i][j] \in 1..dealt /\ (bins[i][j] = bins[h][k] => i = h /\ j = k)
    BY <2>2 DEF AllocInv
  <2> QED BY <2>4, <2>5, <2>6, <2>7 DEF Allocating!Fair
<1> QED BY <1>1, <1>2, <1>3, PTL DEF Allocating!Spec

-----------------------------------------------------------------------------
(* PolicyNetwork, for any number of messages, lost connections and handlers *)
(* that fail and any retry limit: no message vanishes, no policy is deaf    *)
(* unnoticed, and the goodbye is the last word.                             *)

CONSTANTS Messages, Policies, RetryLimit, MaxLosses, MaxFailures
VARIABLES policy, life, link, channel, pending, rabbitQueueId, broker, deaf, place, closes, losses, failures

Net == INSTANCE PolicyNetwork

Steps == {"queue", "bind", "retry queue", "consume", "cancel", "goodbye"}

\* What is left of the set-up, with what has been set up.
SetUpLeft(p) ==
  \/ p = Net!Configure /\ ~broker.consumed
  \/ p = <<"bind", "retry queue", "consume">> /\ broker.queue = rabbitQueueId /\ ~broker.consumed
  \/ p = <<"retry queue", "consume">> /\ broker.queue = rabbitQueueId /\ ~broker.consumed
  \/ p = <<"consume">> /\ broker.queue = rabbitQueueId /\ broker.retry = rabbitQueueId /\ ~broker.consumed
  \/ p = <<>> /\ broker.queue = rabbitQueueId /\ broker.retry = rabbitQueueId /\ broker.consumed

\* A teardown comes after the set-up.
ThenTeardown == IF life = "stopping" THEN Net!Teardown ELSE <<>>

LinkTypes ==
  /\ life \in {"new", "starting", "started", "running", "stopping", "stopped"}
  /\ link \in {"none", "up", "down"} /\ deaf \in BOOLEAN
  /\ channel \in Nat /\ rabbitQueueId \in Nat /\ losses \in Nat /\ closes \in {0, 1}
  /\ broker \in [queue : Nat, bound : BOOLEAN, retry : Nat, consumed : BOOLEAN]
  /\ link = "none" <=> life \in {"new", "stopped"}
  /\ deaf => link = "up" \/ life = "stopped"

\* What is to be done on a channel fits what the broker has of it.
Planned ==
  IF link = "up" /\ ~deaf
  THEN \/ \E p \in Seq(Steps) : SetUpLeft(p) /\ pending = p \o ThenTeardown
       \/ life = "stopping" /\ broker = Net!Nothing /\ pending \in {<<>>, <<"goodbye">>}
  ELSE pending = <<>> /\ broker = Net!Nothing

\* After the goodbye nothing is consumed.
Gone == closes = 1 => life \in {"stopping", "stopped"} /\ pending = <<>> /\ broker = Net!Nothing

Places == {"nowhere", "missed", "queue", "handling", "retry queue", "outbox", "handled", "discarded", "dropped"}

Placing == [at : Places, count : 0..(RetryLimit + 1), of : Nat, address : Nat]

\* Every message has been tried as often as it has been counted.
Counted ==
  /\ place \in [Messages -> Placing]
  /\ \A m \in Messages : place[m].at = "discarded" => place[m].count = RetryLimit + 1

\* As long as no connection has been lost, the deliveries are those of the
\* only channel, and what failed finds the retry queue.
Undisturbed ==
  losses = 0 =>
    /\ ~deaf
    /\ link = "down" => life = "starting"
    /\ \A m \in Net!Handling : place[m].of = channel
    /\ policy.prefetch = 1 => \A m, n \in Net!Handling : m = n
    /\ life \notin {"stopping", "stopped"} =>
         /\ \A m \in Net!Handling : broker.consumed
         /\ \A m \in Messages : place[m].at \notin {"dropped", "outbox"}

\* The inductive invariant.
NetInv == LinkTypes /\ Planned /\ Gone /\ Counted /\ Undisturbed

\* The instance counts like everybody.
LEMMA NetCounts == \A S : Net!Cardinality(S) = Cardinality(S)
BY DEF Net!Cardinality, Cardinality

-----------------------------------------------------------------------------
(* Sequences of steps. *)

\* Heads and tails of short sequences.
LEMMA ShortSeqs ==
  ASSUME NEW x, NEW y, NEW z, NEW w
  PROVE  /\ Head(<<x>>) = x /\ Tail(<<x>>) = <<>> /\ <<x>> # <<>>
         /\ Head(<<x, y>>) = x /\ Tail(<<x, y>>) = <<y>> /\ <<x, y>> # <<>>
         /\ Head(<<x, y, z>>) = x /\ Tail(<<x, y, z>>) = <<y, z>> /\ <<x, y, z>> # <<>>
         /\ Head(<<x, y, z, w>>) = x /\ Tail(<<x, y, z, w>>) = <<y, z, w>> /\ <<x, y, z, w>> # <<>>
<1>1. Tail(<<x>>) = <<>> /\ Head(<<x>>) = x /\ <<x>> # <<>>
  OBVIOUS
<1>2. Tail(<<x, y>>) = <<y>> /\ Head(<<x, y>>) = x /\ <<x, y>> # <<>>
  OBVIOUS
<1>3. Tail(<<x, y, z>>) = <<y, z>>
  OBVIOUS
<1>4. Tail(<<x, y, z, w>>) = <<y, z, w>>
  OBVIOUS
<1>5. Head(<<x, y, z>>) = x /\ Head(<<x, y, z, w>>) = x /\ <<x, y, z>> # <<>> /\ <<x, y, z, w>> # <<>>
  OBVIOUS
<1> QED BY <1>1, <1>2, <1>3, <1>4, <1>5

\* The set-up goes step by step.
LEMMA StepsOfSetUp ==
  /\ Head(Net!Configure) = "queue" /\ Tail(Net!Configure) = <<"bind", "retry queue", "consume">> /\ Net!Configure # <<>>
  /\ Head(<<"bind", "retry queue", "consume">>) = "bind"
  /\ Tail(<<"bind", "retry queue", "consume">>) = <<"retry queue", "consume">>
  /\ <<"bind", "retry queue", "consume">> # <<>>
  /\ Head(<<"retry queue", "consume">>) = "retry queue" /\ Tail(<<"retry queue", "consume">>) = <<"consume">>
  /\ <<"retry queue", "consume">> # <<>>
  /\ Head(<<"consume">>) = "consume" /\ Tail(<<"consume">>) = <<>> /\ <<"consume">> # <<>>
<1>1. PICK q, b, r, c : q = "queue" /\ b = "bind" /\ r = "retry queue" /\ c = "consume"
  OBVIOUS
<1>2. Head(<<q, b, r, c>>) = q /\ Tail(<<q, b, r, c>>) = <<b, r, c>> /\ <<q, b, r, c>> # <<>>
  BY ShortSeqs
<1>3. Head(<<b, r, c>>) = b /\ Tail(<<b, r, c>>) = <<r, c>> /\ <<b, r, c>> # <<>>
  BY ShortSeqs
<1>4. Head(<<r, c>>) = r /\ Tail(<<r, c>>) = <<c>> /\ <<r, c>> # <<>>
  BY ShortSeqs
<1>5. Head(<<c>>) = c /\ Tail(<<c>>) = <<>> /\ <<c>> # <<>>
  BY ShortSeqs
<1> QED BY <1>1, <1>2, <1>3, <1>4, <1>5 DEF Net!Configure

\* The teardown begins with the consumer.
LEMMA StepsOfTeardown ==
  /\ Net!Teardown \in Seq(Steps) /\ Net!Teardown # <<>> /\ Head(Net!Teardown) = "cancel"
  /\ Tail(Net!Teardown) \in {<<>>, <<"goodbye">>}
  /\ Head(<<"goodbye">>) = "goodbye" /\ Tail(<<"goodbye">>) = <<>> /\ <<"goodbye">> # <<>>
<1>1. CASE policy.prepares
  <2>1. Net!Teardown = <<"cancel", "goodbye">>
    BY <1>1 DEF Net!Teardown
  <2>2. <<"cancel", "goodbye">> \in Seq(Steps)
    BY DEF Steps
  <2> QED BY <2>1, <2>2, ShortSeqs
<1>2. CASE ~policy.prepares
  <2>1. Net!Teardown = <<"cancel">>
    BY <1>2 DEF Net!Teardown
  <2>2. <<"cancel">> \in Seq(Steps)
    BY DEF Steps
  <2> QED BY <2>1, <2>2, ShortSeqs
<1> QED BY <1>1, <1>2

\* What is left of it is a sequence of steps.
LEMMA SetUpSeq ==
  ASSUME NEW p, SetUpLeft(p)
  PROVE  p \in Seq(Steps)
<1>1. PICK q, b, r, c \in Steps : q = "queue" /\ b = "bind" /\ r = "retry queue" /\ c = "consume"
  BY DEF Steps
<1>2. /\ <<q, b, r, c>> \in Seq(Steps) /\ <<b, r, c>> \in Seq(Steps)
      /\ <<r, c>> \in Seq(Steps) /\ <<c>> \in Seq(Steps) /\ <<>> \in Seq(Steps)
  OBVIOUS
<1> QED BY <1>1, <1>2 DEF SetUpLeft, Net!Configure

\* The first part of a sequence is done first.
LEMMA HeadTailConcat ==
  ASSUME NEW s \in Seq(Steps), NEW t \in Seq(Steps), s # <<>>
  PROVE  s \o t # <<>> /\ Head(s \o t) = Head(s) /\ Tail(s \o t) = Tail(s) \o t
<1>1. Len(s) \in Nat \ {0} /\ Len(t) \in Nat
  BY EmptySeq, LenProperties
<1>2. /\ s \o t \in Seq(Steps) /\ Len(s \o t) = Len(s) + Len(t)
      /\ \A i \in 1 .. Len(s) + Len(t) : (s \o t)[i] = IF i <= Len(s) THEN s[i] ELSE t[i - Len(s)]
  BY ConcatProperties
<1>3. s \o t # <<>>
  BY <1>1, <1>2, EmptySeq
<1>4. Tail(s \o t) \in Seq(Steps) /\ Len(Tail(s \o t)) = Len(s) + Len(t) - 1
      /\ \A i \in 1 .. Len(s) + Len(t) - 1 : Tail(s \o t)[i] = (s \o t)[i + 1]
  BY <1>2, <1>3, HeadTailProperties
<1>5. Tail(s) \in Seq(Steps) /\ Len(Tail(s)) = Len(s) - 1 /\ \A i \in 1 .. Len(s) - 1 : Tail(s)[i] = s[i + 1]
  BY HeadTailProperties
<1>6. /\ Tail(s) \o t \in Seq(Steps) /\ Len(Tail(s) \o t) = Len(s) - 1 + Len(t)
      /\ \A i \in 1 .. Len(s) - 1 + Len(t) :
           (Tail(s) \o t)[i] = IF i <= Len(s) - 1 THEN Tail(s)[i] ELSE t[i - (Len(s) - 1)]
  BY <1>5, ConcatProperties
<1>7. Tail(s \o t) = Tail(s) \o t
  <2>1. \A i \in 1 .. Len(s) + Len(t) - 1 : Tail(s \o t)[i] = (Tail(s) \o t)[i]
    BY <1>1, <1>2, <1>4, <1>5, <1>6
  <2> QED BY <1>1, <1>4, <1>6, <2>1, SeqEqual
<1>8. Head(s \o t) = Head(s)
  BY <1>1, <1>2, <1>3
<1> QED BY <1>3, <1>7, <1>8

\* The next step of a channel that stands.
LEMMA NextStep ==
  ASSUME NetInv, NEW step, Net!Doing(step)
  PROVE  \/ \E p \in Seq(Steps) :
              SetUpLeft(p) /\ p # <<>> /\ Head(p) = step /\ pending = p \o ThenTeardown /\ pending' = Tail(p) \o ThenTeardown
         \/ /\ life = "stopping" /\ pending' \in {<<>>, <<"goodbye">>}
            /\ broker.consumed /\ step = "cancel" /\ SetUpLeft(<<>>)
         \/ /\ life = "stopping" /\ pending' = <<>> /\ broker = Net!Nothing /\ step = "goodbye"
<1>1. link = "up" /\ ~deaf /\ pending # <<>> /\ Head(pending) = step /\ pending' = Tail(pending)
  BY DEF Net!Doing
<1>2. ThenTeardown \in Seq(Steps)
  BY StepsOfTeardown, EmptySeq DEF ThenTeardown
<1>3. CASE life = "stopping" /\ broker = Net!Nothing /\ pending \in {<<>>, <<"goodbye">>}
  BY <1>1, <1>3, StepsOfTeardown
<1>4. ASSUME NEW p \in Seq(Steps), SetUpLeft(p), pending = p \o ThenTeardown, p # <<>>
      PROVE  Head(p) = step /\ pending' = Tail(p) \o ThenTeardown
  BY <1>1, <1>2, <1>4, HeadTailConcat
<1>5. ASSUME SetUpLeft(<<>>), pending = <<>> \o ThenTeardown
      PROVE  /\ life = "stopping" /\ pending' \in {<<>>, <<"goodbye">>}
             /\ broker.consumed /\ step = "cancel"
  <2>1. pending = ThenTeardown
    BY <1>2, <1>5, ConcatEmptySeq
  <2>2. life = "stopping" /\ pending = Net!Teardown
    BY <1>1, <2>1 DEF ThenTeardown
  <2>3. broker.consumed
    BY <1>5 DEF SetUpLeft, Net!Configure
  <2> QED BY <1>1, <2>2, <2>3, StepsOfTeardown
<1> QED BY <1>1, <1>3, <1>4, <1>5 DEF NetInv, Planned

-----------------------------------------------------------------------------
(* The invariant. *)

\* It holds at the start.
LEMMA InitNet == RetryLimit \in Nat /\ Net!Init => NetInv
<1> SUFFICES ASSUME RetryLimit \in Nat, Net!Init PROVE NetInv
  OBVIOUS
<1>1. LinkTypes
  BY DEF Net!Init, LinkTypes, Net!Nothing, Net!NoQueue
<1>2. Planned /\ Gone
  BY DEF Net!Init, Planned, Gone
<1>3. Counted
  <2>1. [at |-> "nowhere", count |-> 0, of |-> 0, address |-> 0]
          \in Placing
    BY DEF Placing, Places
  <2>2. \A m \in Messages : place[m].at = "nowhere"
    BY DEF Net!Init
  <2> QED BY <2>1, <2>2 DEF Net!Init, Counted, Net!NoQueue
<1>4. Undisturbed
  BY DEF Net!Init, Undisturbed, Net!Handling
<1> QED BY <1>1, <1>2, <1>3, <1>4 DEF NetInv

\* Steps that leave the messages alone, and the losses.
LEMMA PlaceUnchanged ==
  ASSUME NetInv, UNCHANGED <<policy, channel, deaf, place, losses>>,
         link' = "down" => life' = "starting" \/ (link = "down" /\ life' = life),
         life' \notin {"stopping", "stopped"} =>
           life \notin {"stopping", "stopped"} /\ (broker.consumed => broker'.consumed)
  PROVE  Counted' /\ Undisturbed'
<1>1. Counted'
  BY DEF NetInv, Counted
<1>2. Net!Handling' = Net!Handling
  BY DEF Net!Handling
<1>3. Undisturbed'
  <2> SUFFICES ASSUME losses = 0 PROVE Undisturbed'
    BY DEF Undisturbed
  <2>1. ~deaf' /\ (link' = "down" => life' = "starting")
    BY DEF NetInv, Undisturbed
  <2>2. /\ \A m \in Net!Handling' : place'[m].of = channel'
        /\ policy'.prefetch = 1 => \A m, n \in Net!Handling' : m = n
    BY <1>2 DEF NetInv, Undisturbed
  <2>3. life' \notin {"stopping", "stopped"} =>
          /\ \A m \in Net!Handling' : broker'.consumed
          /\ \A m \in Messages : place'[m].at \notin {"dropped", "outbox"}
    BY <1>2 DEF NetInv, Undisturbed
  <2> QED BY <2>1, <2>2, <2>3 DEF Undisturbed
<1> QED BY <1>1, <1>3

\* When queues are deleted, only what is in them is dropped.
LEMMA DroppedKeeps ==
  ASSUME Counted
  PROVE  /\ Net!Dropped \in [Messages -> Placing]
         /\ \A m \in Messages :
              /\ Net!Dropped[m].count = place[m].count /\ Net!Dropped[m].of = place[m].of
              /\ Net!Dropped[m].at = place[m].at \/ (Net!Dropped[m].at = "dropped" /\ place[m].at \in {"queue", "retry queue"})
  BY DEF Counted, Net!Dropped, Placing, Places

\* The set-up goes on.
LEMMA SetUpKeeps ==
  ASSUME NetInv, Net!AssertQueue \/ Net!BindQueue \/ Net!AssertAndBindRetryQueue \/ Net!SetupConsumer
  PROVE  NetInv'
<1>1. PICK step \in {"queue", "bind", "retry queue", "consume"} :
        /\ Net!Doing(step)
        /\ step = "queue" => Net!AssertQueue
        /\ step = "bind" => Net!BindQueue
        /\ step = "retry queue" => Net!AssertAndBindRetryQueue
        /\ step = "consume" => Net!SetupConsumer
  BY DEF Net!AssertQueue, Net!BindQueue, Net!AssertAndBindRetryQueue, Net!SetupConsumer
<1>2. PICK p \in Seq(Steps) :
        SetUpLeft(p) /\ p # <<>> /\ Head(p) = step /\ pending = p \o ThenTeardown /\ pending' = Tail(p) \o ThenTeardown
  BY <1>1, NextStep
<1>3. UNCHANGED <<policy, link, channel, deaf, place, closes, losses>> /\ link = "up" /\ ~deaf /\ pending # <<>>
  BY DEF Net!AssertQueue, Net!BindQueue, Net!AssertAndBindRetryQueue, Net!SetupConsumer, Net!Doing
<1>4. life' = life \/ (life = "starting" /\ life' = "started")
  BY DEF Net!AssertQueue, Net!BindQueue, Net!AssertAndBindRetryQueue, Net!SetupConsumer
<1>5. ThenTeardown' = ThenTeardown
  BY <1>3, <1>4 DEF ThenTeardown, Net!Teardown
<1>6. broker \in [queue : Nat, bound : BOOLEAN, retry : Nat, consumed : BOOLEAN] /\ channel \in Nat
  BY DEF NetInv, LinkTypes
<1>7. /\ SetUpLeft(Tail(p))' /\ (broker.consumed => broker'.consumed)
      /\ broker' \in [queue : Nat, bound : BOOLEAN, retry : Nat, consumed : BOOLEAN]
  <2>1. CASE step = "queue"
    <3>1. Tail(p) = <<"bind", "retry queue", "consume">> /\ ~broker.consumed
      BY <1>2, <2>1, StepsOfSetUp DEF SetUpLeft
    <3>2. rabbitQueueId' = channel /\ broker' = [broker EXCEPT !.queue = channel]
      BY <1>1, <2>1 DEF Net!AssertQueue
    <3> QED BY <1>6, <3>1, <3>2 DEF SetUpLeft
  <2>2. CASE step = "bind"
    <3>1. Tail(p) = <<"retry queue", "consume">> /\ ~broker.consumed /\ broker.queue = rabbitQueueId
      BY <1>2, <2>2, StepsOfSetUp DEF SetUpLeft
    <3>2. rabbitQueueId' = rabbitQueueId /\ broker' = [broker EXCEPT !.bound = TRUE]
      BY <1>1, <2>2 DEF Net!BindQueue
    <3> QED BY <1>6, <3>1, <3>2 DEF SetUpLeft
  <2>3. CASE step = "retry queue"
    <3>1. Tail(p) = <<"consume">> /\ ~broker.consumed /\ broker.queue = rabbitQueueId
      BY <1>2, <2>3, StepsOfSetUp DEF SetUpLeft
    <3>2. rabbitQueueId' = rabbitQueueId /\ broker' = [broker EXCEPT !.retry = rabbitQueueId]
      BY <1>1, <2>3 DEF Net!AssertAndBindRetryQueue
    <3> QED BY <1>6, <3>1, <3>2 DEF SetUpLeft
  <2>4. CASE step = "consume"
    <3>1. Tail(p) = <<>> /\ broker.queue = rabbitQueueId /\ broker.retry = rabbitQueueId
      BY <1>2, <2>4, StepsOfSetUp DEF SetUpLeft
    <3>2. rabbitQueueId' = rabbitQueueId /\ broker' = [broker EXCEPT !.consumed = TRUE]
      BY <1>1, <2>4 DEF Net!SetupConsumer
    <3> QED BY <1>6, <3>1, <3>2 DEF SetUpLeft
  <2> QED BY <2>1, <2>2, <2>3, <2>4
<1>8. LinkTypes'
  <2>1. rabbitQueueId' \in {rabbitQueueId, channel}
    BY DEF Net!AssertQueue, Net!BindQueue, Net!AssertAndBindRetryQueue, Net!SetupConsumer
  <2> QED BY <1>3, <1>4, <1>7, <2>1 DEF NetInv, LinkTypes
<1>9. Tail(p) \in Seq(Steps)
  BY <1>2, HeadTailProperties
<1>10. Planned'
  BY <1>2, <1>3, <1>5, <1>7, <1>9 DEF Planned
<1>11. Gone'
  BY <1>3 DEF NetInv, Gone
<1>12. Counted' /\ Undisturbed'
  BY <1>3, <1>4, <1>7, PlaceUnchanged
<1> QED BY <1>8, <1>10, <1>11, <1>12 DEF NetInv

\* A channel is made: it has nothing yet, and no handler is under way.
LEMMA ConnectKeeps ==
  ASSUME NetInv, Net!Connect
  PROVE  NetInv'
<1>1. /\ link = "down" /\ life # "stopping" /\ link' = "up" /\ channel' = channel + 1 /\ pending' = Net!Configure
      /\ UNCHANGED <<policy, life, broker, deaf, place, closes, losses, rabbitQueueId>>
  BY DEF Net!Connect
<1>2. broker = Net!Nothing /\ ~broker.consumed
  BY <1>1 DEF NetInv, Planned, Net!Nothing
<1>3. LinkTypes'
  BY <1>1 DEF NetInv, LinkTypes
<1>4. Planned'
  <2>1. SetUpLeft(Net!Configure)'
    BY <1>1, <1>2 DEF SetUpLeft
  <2>2. ThenTeardown' = <<>>
    BY <1>1 DEF ThenTeardown
  <2>3. Net!Configure \in Seq(Steps) /\ Net!Configure = Net!Configure \o <<>>
    BY <1>2, SetUpSeq, ConcatEmptySeq DEF SetUpLeft
  <2>4. ~deaf'
    BY <1>1 DEF NetInv, LinkTypes
  <2> QED BY <1>1, <2>1, <2>2, <2>3, <2>4 DEF Planned
<1>5. Gone'
  BY <1>1 DEF NetInv, Gone, LinkTypes
<1>6. Counted'
  BY <1>1 DEF NetInv, Counted
<1>7. Undisturbed'
  <2>1. losses = 0 => Net!Handling' = {}
    BY <1>1, <1>2 DEF NetInv, Undisturbed, Net!Handling, LinkTypes
  <2> QED BY <1>1, <2>1 DEF NetInv, Undisturbed
<1> QED BY <1>3, <1>4, <1>5, <1>6, <1>7 DEF NetInv

\* The connection is lost: with it goes what the broker had of the channel.
LEMMA DisconnectKeeps ==
  ASSUME NetInv, Net!Disconnect
  PROVE  NetInv'
<1>1. /\ losses' = losses + 1 /\ pending' = <<>> /\ broker' = Net!Nothing /\ deaf' = FALSE /\ place' = Net!Dropped
      /\ UNCHANGED <<policy, channel, rabbitQueueId, closes>>
      /\ \/ life = "stopping" /\ life' = "stopped" /\ link' = "none"
         \/ link = "up" /\ link' = "down" /\ life' = life
  BY DEF Net!Disconnect
<1>2. LinkTypes'
  <2>1. broker' \in [queue : Nat, bound : BOOLEAN, retry : Nat, consumed : BOOLEAN]
    BY <1>1 DEF Net!Nothing, Net!NoQueue
  <2>2. losses' \in Nat /\ channel' \in Nat /\ rabbitQueueId' \in Nat /\ closes' \in {0, 1}
    BY <1>1 DEF NetInv, LinkTypes
  <2>4. deaf' \in BOOLEAN /\ ~deaf'
    BY <1>1
  <2>3. /\ life' \in {"new", "starting", "started", "running", "stopping", "stopped"}
        /\ link' \in {"none", "up", "down"} /\ (link' = "none" <=> life' \in {"new", "stopped"})
    BY <1>1 DEF NetInv, LinkTypes
  <2> QED BY <2>1, <2>2, <2>3, <2>4 DEF LinkTypes
<1>3. Planned' /\ Gone'
  BY <1>1 DEF NetInv, Planned, Gone
<1>4. Counted'
  BY <1>1, DroppedKeeps DEF NetInv, Counted
<1>5. Undisturbed'
  BY <1>1 DEF NetInv, LinkTypes, Undisturbed
<1> QED BY <1>2, <1>3, <1>4, <1>5 DEF NetInv

\* The client begins, and start() goes on.
LEMMA StartKeeps ==
  ASSUME NetInv, Net!Start \/ Net!InitPolicy
  PROVE  NetInv'
<1>1. /\ UNCHANGED <<policy, channel, pending, rabbitQueueId, broker, deaf, place, closes, losses>>
      /\ \/ life = "new" /\ life' = "starting" /\ link' = "down"
         \/ life = "started" /\ life' = "running" /\ link' = link
  BY DEF Net!Start, Net!InitPolicy
<1>2. LinkTypes'
  <2>1. CASE life = "new" /\ life' = "starting" /\ link' = "down"
    BY <1>1, <2>1 DEF NetInv, LinkTypes, Undisturbed
  <2>2. CASE life = "started" /\ life' = "running" /\ link' = link
    BY <1>1, <2>2 DEF NetInv, LinkTypes
  <2> QED BY <1>1, <2>1, <2>2
<1>3. ThenTeardown' = ThenTeardown
  BY <1>1 DEF ThenTeardown
<1>4. \A p : SetUpLeft(p)' <=> SetUpLeft(p)
  BY <1>1 DEF SetUpLeft
<1>5. Planned'
  <2>1. CASE link' = link
    BY <1>1, <1>3, <1>4, <2>1 DEF NetInv, Planned
  <2>2. CASE link = "none" /\ link' = "down"
    BY <1>1, <2>2 DEF NetInv, Planned
  <2> QED BY <1>1, <2>1, <2>2 DEF NetInv, LinkTypes
<1>6. Gone'
  BY <1>1 DEF NetInv, Gone
<1>7. Counted' /\ Undisturbed'
  <2>1. link' = "down" => life' = "starting" \/ (link = "down" /\ life' = life) \/ losses # 0
    BY <1>1 DEF NetInv, Undisturbed
  <2>2. losses # 0 => Counted' /\ Undisturbed'
    BY <1>1 DEF NetInv, Counted, Undisturbed
  <2> QED BY <1>1, <2>1, <2>2, PlaceUnchanged
<1> QED BY <1>2, <1>5, <1>6, <1>7 DEF NetInv

\* stop() hands the teardown to a channel that stands.
LEMMA StopKeeps ==
  ASSUME NetInv, Net!Stop
  PROVE  NetInv'
<1>1. /\ life = "running" /\ life' = "stopping"
      /\ UNCHANGED <<policy, link, channel, rabbitQueueId, broker, deaf, place, closes, losses>>
  BY DEF Net!Stop
<1>2. LinkTypes'
  BY <1>1 DEF NetInv, LinkTypes
<1>3. Planned'
  <2>1. CASE link = "up" /\ ~deaf
    <3>1. PICK p \in Seq(Steps) : SetUpLeft(p) /\ pending = p \o <<>>
      BY <1>1, <2>1 DEF NetInv, Planned, ThenTeardown
    <3>2. pending = p
      BY <3>1, ConcatEmptySeq
    <3>3. pending' = p \o Net!Teardown /\ ThenTeardown' = Net!Teardown
      BY <1>1, <2>1, <3>2 DEF Net!Stop, ThenTeardown, Net!Teardown
    <3>4. SetUpLeft(p)'
      BY <1>1, <3>1 DEF SetUpLeft
    <3> QED BY <1>1, <2>1, <3>3, <3>4 DEF Planned
  <2>2. CASE ~(link = "up" /\ ~deaf)
    BY <1>1, <2>2 DEF NetInv, Planned, Net!Stop
  <2> QED BY <2>1, <2>2
<1>4. Gone'
  BY <1>1 DEF NetInv, Gone
<1>5. Counted' /\ Undisturbed'
  <2>1. Counted'
    BY <1>1 DEF NetInv, Counted
  <2>2. Net!Handling' = Net!Handling
    BY <1>1 DEF Net!Handling
  <2>3. Undisturbed'
    BY <1>1, <2>2 DEF NetInv, Undisturbed
  <2> QED BY <2>1, <2>3
<1> QED BY <1>2, <1>3, <1>4, <1>5 DEF NetInv

\* The consumer is cancelled, or the connection closed: the queues go.
LEMMA QueuesGo ==
  ASSUME NetInv, Net!CancelConsumer \/ Net!CloseConnection
  PROVE  NetInv'
<1>1. /\ life = "stopping" /\ broker' = Net!Nothing /\ place' = Net!Dropped
      /\ UNCHANGED <<policy, channel, rabbitQueueId, deaf, closes, losses>>
      /\ \/ life' = "stopped" /\ link' = "none" /\ pending' = <<>>
         \/ life' = life /\ link' = link /\ link = "up" /\ ~deaf /\ pending # <<>> /\ pending' \in {<<>>, <<"goodbye">>}
  <2>1. CASE Net!CloseConnection
    BY <2>1 DEF Net!CloseConnection
  <2>2. CASE Net!CancelConsumer
    <3>1. Net!Doing("cancel")
      BY <2>2 DEF Net!CancelConsumer
    <3>2. \A p : SetUpLeft(p) /\ p # <<>> => Head(p) # "cancel"
      BY StepsOfSetUp DEF SetUpLeft
    <3>3. life = "stopping" /\ pending' \in {<<>>, <<"goodbye">>}
      BY <3>1, <3>2, NextStep
    <3>4. link = "up" /\ ~deaf /\ pending # <<>>
      BY <3>1 DEF Net!Doing
    <3> QED BY <2>2, <3>3, <3>4 DEF Net!CancelConsumer
  <2> QED BY <2>1, <2>2
<1>2. LinkTypes'
  BY <1>1 DEF NetInv, LinkTypes, Net!Nothing, Net!NoQueue
<1>3. Planned'
  BY <1>1 DEF Planned
<1>4. Gone'
  BY <1>1 DEF NetInv, Gone
<1>5. Counted'
  BY <1>1, DroppedKeeps DEF NetInv, Counted
<1>6. Undisturbed'
  <2>1. Net!Handling' = Net!Handling /\ \A m \in Net!Handling : place'[m].of = place[m].of
    BY <1>1, DroppedKeeps DEF NetInv, Net!Handling
  <2> QED BY <1>1, <2>1 DEF NetInv, Undisturbed
<1> QED BY <1>2, <1>3, <1>4, <1>5, <1>6 DEF NetInv

\* The goodbye is said when nothing is consumed any more.
LEMMA GoodbyeKeeps ==
  ASSUME NetInv, Net!BroadcastClose
  PROVE  NetInv'
<1>1. Net!Doing("goodbye") /\ closes' = closes + 1
      /\ UNCHANGED <<policy, life, link, channel, rabbitQueueId, broker, deaf, place, losses>>
  BY DEF Net!BroadcastClose
<1>2. \A p : SetUpLeft(p) /\ p # <<>> => Head(p) # "goodbye"
  BY StepsOfSetUp DEF SetUpLeft
<1>3. life = "stopping" /\ pending' = <<>> /\ broker = Net!Nothing /\ pending # <<>> /\ link = "up" /\ ~deaf
  BY <1>1, <1>2, NextStep DEF Net!Doing
<1>4. closes = 0
  BY <1>3 DEF NetInv, Gone, LinkTypes
<1>5. LinkTypes'
  BY <1>1, <1>4 DEF NetInv, LinkTypes
<1>6. Planned' /\ Gone'
  BY <1>1, <1>3 DEF Planned, Gone
<1>7. Counted' /\ Undisturbed'
  BY <1>1, PlaceUnchanged
<1> QED BY <1>5, <1>6, <1>7 DEF NetInv

\* Steps that only messages see.
LEMMA ChannelUnchanged ==
  ASSUME NetInv, UNCHANGED <<policy, life, link, channel, pending, rabbitQueueId, broker, deaf, closes, losses>>
  PROVE  LinkTypes' /\ Planned' /\ Gone'
<1>1. LinkTypes' /\ Gone'
  BY DEF NetInv, LinkTypes, Gone
<1>2. ThenTeardown' = ThenTeardown /\ \A p : SetUpLeft(p)' <=> SetUpLeft(p)
  BY DEF ThenTeardown, Net!Teardown, SetUpLeft
<1>3. Planned'
  BY <1>2 DEF NetInv, Planned
<1> QED BY <1>1, <1>3

\* One message goes to where it is not handled.
LEMMA OnePlaced ==
  ASSUME NetInv, UNCHANGED <<policy, life, link, channel, pending, rabbitQueueId, broker, deaf, closes, losses>>,
         NEW m \in Messages, NEW r \in Placing, place' = [place EXCEPT ![m] = r], r.at # "handling",
         r.at = "discarded" => r.count = RetryLimit + 1,
         losses = 0 /\ life \notin {"stopping", "stopped"} => r.at \notin {"dropped", "outbox"}
  PROVE  NetInv'
<1>1. Counted'
  BY DEF NetInv, Counted, Placing
<1>2. \A n \in Messages : place'[n] = IF n = m THEN r ELSE place[n]
  BY DEF NetInv, Counted
<1>3. Net!Handling' \subseteq Net!Handling /\ \A n \in Net!Handling' : place'[n] = place[n]
  BY <1>2 DEF Net!Handling
<1>4. Undisturbed'
  <2> SUFFICES ASSUME losses = 0 PROVE Undisturbed'
    BY DEF Undisturbed
  <2>1. /\ \A n \in Net!Handling' : place'[n].of = channel'
        /\ policy'.prefetch = 1 => \A n, o \in Net!Handling' : n = o
    BY <1>3 DEF NetInv, Undisturbed
  <2>2. life' \notin {"stopping", "stopped"} =>
          /\ \A n \in Net!Handling' : broker'.consumed
          /\ \A n \in Messages : place'[n].at \notin {"dropped", "outbox"}
    BY <1>2, <1>3 DEF NetInv, Undisturbed
  <2>3. ~deaf' /\ (link' = "down" => life' = "starting")
    BY DEF NetInv, Undisturbed
  <2> QED BY <2>1, <2>2, <2>3 DEF Undisturbed
<1> QED BY <1>1, <1>4, ChannelUnchanged DEF NetInv

\* An acknowledgement, also one that goes to a channel that does not know the
\* delivery.
LEMMA AcknowledgedKeeps ==
  ASSUME NetInv, NEW m \in Net!Handling, NEW r \in Placing, Net!Acknowledged(m, [place EXCEPT ![m] = r]),
         UNCHANGED <<policy, life, link, channel, rabbitQueueId, closes, losses>>, r.at # "handling",
         r.at = "discarded" => r.count = RetryLimit + 1,
         losses = 0 /\ life \notin {"stopping", "stopped"} => r.at \notin {"dropped", "outbox"}
  PROVE  NetInv'
<1>1. m \in Messages /\ place[m].at = "handling"
  BY DEF Net!Handling
<1>2. PICK moved : moved = [place EXCEPT ![m] = r]
  OBVIOUS
<1>3. moved \in [Messages -> Placing] /\ \A n \in Messages : moved[n].at = "discarded" => moved[n].count = RetryLimit + 1
  BY <1>2 DEF NetInv, Counted, Placing
<1>4. CASE place' = moved /\ UNCHANGED <<broker, deaf, pending>>
  BY <1>1, <1>2, <1>4, OnePlaced
<1>5. ASSUME link = "up", ~deaf, place[m].of # channel,
             \/ /\ place' = [n \in Messages |->
                     IF moved[n].at \in {"queue", "retry queue"} THEN [moved[n] EXCEPT !.at = "dropped"] ELSE moved[n]]
                /\ broker' = Net!Nothing /\ deaf' = TRUE /\ pending' = <<>>
             \/ \E other \in Net!Unacknowledged \ {m} :
                  /\ place' = [moved EXCEPT ![other].of = 0]
                  /\ UNCHANGED <<broker, deaf, pending>>
      PROVE  NetInv'
  <2>1. losses # 0
    BY <1>5 DEF NetInv, Undisturbed
  <2>2. Undisturbed'
    BY <2>1 DEF Undisturbed
  <2>3. CASE /\ place' = [n \in Messages |->
                  IF moved[n].at \in {"queue", "retry queue"} THEN [moved[n] EXCEPT !.at = "dropped"] ELSE moved[n]]
             /\ broker' = Net!Nothing /\ deaf' = TRUE /\ pending' = <<>>
    <3>1. Counted'
      <4>1. ASSUME NEW n \in Messages
            PROVE  place'[n] \in Placing /\ (place'[n].at = "discarded" => place'[n].count = RetryLimit + 1)
        <5>1. place'[n] = IF moved[n].at \in {"queue", "retry queue"} THEN [moved[n] EXCEPT !.at = "dropped"] ELSE moved[n]
          BY <2>3
        <5>2. moved[n] \in Placing /\ (moved[n].at = "discarded" => moved[n].count = RetryLimit + 1)
          BY <1>3
        <5> QED BY <5>1, <5>2 DEF Placing, Places
      <4>2. place' \in [Messages -> Placing]
        BY <2>3, <4>1
      <4> QED BY <4>1, <4>2 DEF Counted, Placing
    <3>2. broker' \in [queue : Nat, bound : BOOLEAN, retry : Nat, consumed : BOOLEAN]
      BY <2>3 DEF Net!Nothing, Net!NoQueue
    <3>3. deaf' /\ deaf' \in BOOLEAN
      BY <2>3
    <3>4. LinkTypes'
      BY <1>5, <3>2, <3>3 DEF NetInv, LinkTypes
    <3>5. Planned' /\ Gone'
      BY <2>3, <3>3 DEF NetInv, Planned, Gone
    <3> QED BY <2>2, <3>1, <3>4, <3>5 DEF NetInv
  <2>4. ASSUME NEW other \in Net!Unacknowledged \ {m}, place' = [moved EXCEPT ![other].of = 0], UNCHANGED <<broker, deaf, pending>>
        PROVE  NetInv'
    <3>1. other \in Messages
      BY DEF Net!Unacknowledged, Net!Handling
    <3>2. place' \in [Messages -> Placing]
          /\ \A n \in Messages : place'[n].at = moved[n].at /\ place'[n].count = moved[n].count
      BY <1>3, <2>4, <3>1 DEF Placing
    <3>3. Counted'
      BY <1>3, <3>2 DEF Counted, Placing
    <3> QED BY <2>2, <2>4, <3>3, ChannelUnchanged DEF NetInv
  <2> QED BY <1>5, <2>3, <2>4
<1> QED BY <1>2, <1>4, <1>5 DEF Net!Acknowledged

\* Who consumes has been set up.
LEMMA ConsumingIsSetUp ==
  ASSUME NetInv, broker.consumed, life # "stopping"
  PROVE  pending = <<>> /\ broker.retry = rabbitQueueId /\ link = "up" /\ ~deaf
<1>1. broker # Net!Nothing
  BY DEF Net!Nothing
<1>2. link = "up" /\ ~deaf /\ \E p \in Seq(Steps) : SetUpLeft(p) /\ pending = p \o <<>>
  BY <1>1 DEF NetInv, Planned, ThenTeardown
<1>3. PICK p \in Seq(Steps) : SetUpLeft(p) /\ pending = p
  BY <1>2, ConcatEmptySeq
<1>4. p = <<>> /\ broker.retry = rabbitQueueId
  BY <1>3 DEF SetUpLeft
<1> QED BY <1>2, <1>3, <1>4

\* A message that is tried again is counted, and goes to the retry queue as
\* long as nothing disturbs it.
LEMMA RetriedFits ==
  ASSUME RetryLimit \in Nat, NetInv, NEW m \in Net!Handling, place[m].count <= RetryLimit
  PROVE  /\ Net!Retried(m) \in Placing /\ Net!Retried(m).at \in {"outbox", "retry queue", "dropped"}
         /\ losses = 0 /\ life \notin {"stopping", "stopped"} => Net!Retried(m).at = "retry queue"
<1>1. place[m] \in Placing
  BY DEF NetInv, Counted, Placing, Net!Handling
<1>2. PICK at : at = CASE link # "up" \/ deaf \/ pending # <<>> -> "outbox"
                       [] broker.retry = rabbitQueueId -> "retry queue"
                       [] OTHER -> "dropped"
  OBVIOUS
<1>3. at \in {"outbox", "retry queue", "dropped"}
  BY <1>2
<1>4. Net!Retried(m) = [place[m] EXCEPT !.count = @ + 1, !.address = rabbitQueueId, !.at = at]
  BY <1>2 DEF Net!Retried
<1>5. Net!Retried(m) \in Placing /\ Net!Retried(m).at = at
  <2>1. place[m].count \in 0..(RetryLimit + 1)
    BY <1>1 DEF Placing
  <2>2. PICK count \in 0..(RetryLimit + 1) : count = place[m].count + 1
    BY <2>1
  <2>3. Net!Retried(m) = [place[m] EXCEPT !.count = count, !.address = rabbitQueueId, !.at = at]
    BY <1>4, <2>2
  <2>4. at \in Places
    BY <1>3 DEF Places
  <2>5. rabbitQueueId \in Nat
    BY DEF NetInv, LinkTypes
  <2> QED BY <1>1, <2>3, <2>4, <2>5 DEF Placing
<1>6. ASSUME losses = 0, life \notin {"stopping", "stopped"} PROVE at = "retry queue"
  <2>1. broker.consumed
    BY <1>6 DEF NetInv, Undisturbed
  <2>2. pending = <<>> /\ broker.retry = rabbitQueueId /\ link = "up" /\ ~deaf
    BY <1>6, <2>1, ConsumingIsSetUp
  <2> QED BY <1>2, <2>2
<1> QED BY <1>3, <1>5, <1>6

\* What happens to a message keeps the invariant.
LEMMA MessageKeeps ==
  ASSUME RetryLimit \in Nat, NetInv, NEW m \in Messages,
         Net!Publish(m) \/ Net!Process(m) \/ Net!ProcessFails(m) \/ Net!Flush(m) \/ Net!RetryPeriodEnds(m)
  PROVE  NetInv'
<1>1. place[m] \in Placing /\ place \in [Messages -> Placing]
  BY DEF NetInv, Counted, Placing
<1>2. CASE Net!Publish(m)
  <2>1. PICK r : r = [place[m] EXCEPT !.at = IF broker.bound THEN "queue" ELSE "missed", !.count = 1]
    OBVIOUS
  <2>2. r \in Placing /\ r.at \in {"queue", "missed"}
    <3>1. PICK at \in {"queue", "missed"} : at = IF broker.bound THEN "queue" ELSE "missed"
      OBVIOUS
    <3>2. r = [place[m] EXCEPT !.at = at, !.count = 1]
      BY <2>1, <3>1
    <3>3. 1 \in 0..(RetryLimit + 1)
      OBVIOUS
    <3>4. at \in Places
      BY DEF Places
    <3> QED BY <1>1, <3>2, <3>3, <3>4 DEF Placing
  <2>3. place' = [place EXCEPT ![m] = r]
    BY <1>1, <1>2, <2>1 DEF Net!Publish
  <2>4. UNCHANGED <<policy, life, link, channel, pending, rabbitQueueId, broker, deaf, closes, losses>>
    BY <1>2 DEF Net!Publish
  <2> QED BY <2>2, <2>3, <2>4, OnePlaced
<1>3. CASE Net!RetryPeriodEnds(m)
  <2>1. PICK r : r = [place[m] EXCEPT !.at = "queue"]
    OBVIOUS
  <2>2. r \in Placing /\ r.at = "queue"
    BY <1>1, <2>1 DEF Placing, Places
  <2>3. place' = [place EXCEPT ![m] = r]
    BY <1>1, <1>3, <2>1 DEF Net!RetryPeriodEnds
  <2>4. UNCHANGED <<policy, life, link, channel, pending, rabbitQueueId, broker, deaf, closes, losses>>
    BY <1>3 DEF Net!RetryPeriodEnds
  <2> QED BY <2>2, <2>3, <2>4, OnePlaced
<1>4. CASE Net!Flush(m)
  <2>1. PICK r : r = [place[m] EXCEPT !.at = IF broker.retry = place[m].address THEN "retry queue" ELSE "dropped"]
    OBVIOUS
  <2>2. r \in Placing /\ r.at \in {"retry queue", "dropped"}
    BY <1>1, <2>1 DEF Placing, Places
  <2>3. place' = [place EXCEPT ![m] = r]
    BY <1>1, <1>4, <2>1 DEF Net!Flush
  <2>4. UNCHANGED <<policy, life, link, channel, pending, rabbitQueueId, broker, deaf, closes, losses>>
    BY <1>4 DEF Net!Flush
  <2>5. losses = 0 => life \in {"stopping", "stopped"}
    BY <1>4 DEF Net!Flush, NetInv, Undisturbed
  <2> QED BY <2>2, <2>3, <2>4, <2>5, OnePlaced
<1>5. CASE Net!Process(m)
  <2>1. PICK r : r = [place[m] EXCEPT !.at = "handled"]
    OBVIOUS
  <2>2. r \in Placing /\ r.at = "handled"
    BY <1>1, <2>1 DEF Placing, Places
  <2>3. [place EXCEPT ![m].at = "handled"] = [place EXCEPT ![m] = r]
    BY <1>1, <2>1
  <2>4. /\ m \in Net!Handling /\ Net!Acknowledged(m, [place EXCEPT ![m] = r])
        /\ UNCHANGED <<policy, life, link, channel, rabbitQueueId, closes, losses>>
    BY <1>5, <2>3 DEF Net!Process, Net!Handling
  <2> QED BY <2>2, <2>4, AcknowledgedKeeps
<1>6. CASE Net!ProcessFails(m)
  <2>1. PICK r : r = (IF place[m].count <= RetryLimit THEN Net!Retried(m) ELSE [place[m] EXCEPT !.at = "discarded"])
    OBVIOUS
  <2>2. /\ m \in Net!Handling /\ Net!Acknowledged(m, [place EXCEPT ![m] = r])
        /\ UNCHANGED <<policy, life, link, channel, rabbitQueueId, closes, losses>>
    BY <1>6, <2>1 DEF Net!ProcessFails, Net!HandleRetry, Net!Handling
  <2>3. CASE place[m].count <= RetryLimit
    <3>1. r = Net!Retried(m)
      BY <2>1, <2>3
    <3>2. /\ r \in Placing /\ r.at \in {"outbox", "retry queue", "dropped"}
          /\ losses = 0 /\ life \notin {"stopping", "stopped"} => r.at = "retry queue"
      BY <2>2, <2>3, <3>1, RetriedFits
    <3> QED BY <2>2, <3>2, AcknowledgedKeeps
  <2>4. CASE ~(place[m].count <= RetryLimit)
    <3>1. r = [place[m] EXCEPT !.at = "discarded"]
      BY <2>1, <2>4
    <3>2. r \in Placing /\ r.at = "discarded" /\ r.count = place[m].count
      BY <1>1, <3>1 DEF Placing, Places
    <3>3. r.count = RetryLimit + 1
      BY <1>1, <2>4, <3>2 DEF Placing
    <3> QED BY <2>2, <3>2, <3>3, AcknowledgedKeeps
  <2> QED BY <2>3, <2>4
<1> QED BY <1>2, <1>3, <1>4, <1>5, <1>6

\* A policy that handles one message at a time is given the next when it has
\* acknowledged the last.
LEMMA DeliverKeeps ==
  ASSUME NetInv, NEW m \in Messages, Net!Deliver(m)
  PROVE  NetInv'
<1>1. /\ place[m].at = "queue" /\ broker.consumed /\ Net!MayDeliver
      /\ place' = [place EXCEPT ![m].at = "handling", ![m].of = channel]
      /\ UNCHANGED <<policy, life, link, channel, pending, rabbitQueueId, broker, deaf, closes, losses>>
  BY DEF Net!Deliver
<1>2. place \in [Messages -> Placing] /\ channel \in Nat
  BY DEF NetInv, Counted, LinkTypes, Placing
<1>3. /\ place' \in [Messages -> Placing] /\ place'[m].at = "handling" /\ place'[m].of = channel
      /\ \A n \in Messages \ {m} : place'[n] = place[n]
  BY <1>1, <1>2 DEF Placing, Places
<1>4. Counted'
  BY <1>3 DEF NetInv, Counted, Placing
<1>5. Net!Handling' = Net!Handling \cup {m}
  BY <1>3 DEF Net!Handling
<1>6. Undisturbed'
  <2> SUFFICES ASSUME losses = 0 PROVE Undisturbed'
    BY <1>1 DEF Undisturbed
  <2>1. \A n \in Net!Handling' : place'[n].of = channel'
    BY <1>1, <1>3, <1>5 DEF NetInv, Undisturbed, Net!Handling
  <2>2. ASSUME policy.prefetch = 1 PROVE Net!Handling = {}
    <3>1. Net!Unacknowledged = Net!Handling
      BY DEF NetInv, Undisturbed, Net!Unacknowledged
    <3>2. \A n, o \in Net!Handling : n = o
      BY <2>2 DEF NetInv, Undisturbed
    <3>3. Cardinality(Net!Handling) < 1
      BY <1>1, <2>2, <3>1, NetCounts DEF Net!MayDeliver
    <3> SUFFICES ASSUME NEW n \in Net!Handling PROVE FALSE
      OBVIOUS
    <3>4. Net!Handling = {n}
      BY <3>2
    <3>5. Cardinality(Net!Handling) = 1
      BY <3>4, FS_Singleton
    <3> QED BY <3>3, <3>5
  <2>3. policy'.prefetch = 1 => \A n, o \in Net!Handling' : n = o
    BY <1>1, <1>5, <2>2
  <2>4. life' \notin {"stopping", "stopped"} =>
          /\ \A n \in Net!Handling' : broker'.consumed
          /\ \A n \in Messages : place'[n].at \notin {"dropped", "outbox"}
    BY <1>1, <1>3 DEF NetInv, Undisturbed
  <2>5. ~deaf' /\ (link' = "down" => life' = "starting")
    BY <1>1 DEF NetInv, Undisturbed
  <2> QED BY <2>1, <2>3, <2>4, <2>5 DEF Undisturbed
<1> QED BY <1>1, <1>4, <1>6, ChannelUnchanged DEF NetInv

\* Every step keeps it.
LEMMA NextNet == RetryLimit \in Nat /\ NetInv /\ [Net!Next]_Net!vars => NetInv'
<1> SUFFICES ASSUME RetryLimit \in Nat, NetInv, [Net!Next]_Net!vars PROVE NetInv'
  OBVIOUS
<1>1. CASE Net!Connect \/ Net!AssertQueue \/ Net!BindQueue \/ Net!AssertAndBindRetryQueue \/ Net!SetupConsumer
  BY <1>1, ConnectKeeps, SetUpKeeps
<1>2. CASE Net!Start \/ Net!InitPolicy \/ Net!Disconnect
  BY <1>2, StartKeeps, DisconnectKeeps
<1>3. CASE Net!Stop \/ Net!CancelConsumer \/ Net!CloseConnection \/ Net!BroadcastClose
  BY <1>3, StopKeeps, QueuesGo, GoodbyeKeeps
<1>4. ASSUME NEW m \in Messages,
             Net!Publish(m) \/ Net!Deliver(m) \/ Net!Process(m) \/ Net!ProcessFails(m) \/ Net!Flush(m) \/ Net!RetryPeriodEnds(m)
      PROVE  NetInv'
  BY <1>4, MessageKeeps, DeliverKeeps
<1>5. CASE UNCHANGED Net!vars
  <2>1. Net!Handling' = Net!Handling
    BY <1>5 DEF Net!vars, Net!Handling
  <2>2. Counted' /\ Undisturbed'
    BY <1>5, PlaceUnchanged DEF Net!vars
  <2> QED BY <1>5, <2>2, ChannelUnchanged DEF Net!vars, NetInv
<1> QED BY <1>1, <1>2, <1>3, <1>4, <1>5 DEF Net!Next, Net!Progress

\* After the goodbye no step takes up a message.
LEMMA TakesUp ==
  ASSUME RetryLimit \in Nat, NetInv, Net!Next, closes = 1, NEW m \in Messages, place'[m].at = "handling"
  PROVE  place[m].at = "handling"
<1>1. pending = <<>> /\ ~broker.consumed /\ place \in [Messages -> Placing]
  BY DEF NetInv, Gone, Net!Nothing, Counted, Placing
<1>2. CASE UNCHANGED place
  BY <1>2
<1>3. CASE place' = Net!Dropped
  BY <1>3, DroppedKeeps DEF NetInv
<1>4. ASSUME NEW n \in Messages, Net!Publish(n) \/ Net!Flush(n) \/ Net!RetryPeriodEnds(n)
      PROVE  place[m].at = "handling"
  BY <1>1, <1>4 DEF Net!Publish, Net!Flush, Net!RetryPeriodEnds, Placing
<1>5. ASSUME NEW n \in Messages, NEW r \in Placing, Net!Acknowledged(n, [place EXCEPT ![n] = r]), r.at # "handling"
      PROVE  place[m].at = "handling"
  <2>1. PICK moved : moved = [place EXCEPT ![n] = r]
    OBVIOUS
  <2>2. moved[m].at = "handling" => place[m].at = "handling"
    BY <1>1, <1>5, <2>1
  <2>3. moved \in [Messages -> Placing]
    BY <1>1, <2>1
  <2>4. CASE place' = moved
    BY <2>2, <2>4
  <2>5. CASE place' = [o \in Messages |->
               IF moved[o].at \in {"queue", "retry queue"} THEN [moved[o] EXCEPT !.at = "dropped"] ELSE moved[o]]
    <3>1. place'[m] = IF moved[m].at \in {"queue", "retry queue"} THEN [moved[m] EXCEPT !.at = "dropped"] ELSE moved[m]
      BY <2>5
    <3>2. CASE moved[m].at \in {"queue", "retry queue"}
      BY <2>3, <3>1, <3>2 DEF Placing
    <3>3. CASE moved[m].at \notin {"queue", "retry queue"}
      <4>1. place'[m] = moved[m]
        BY <3>1, <3>3
      <4> QED BY <2>2, <4>1
    <3> QED BY <3>2, <3>3
  <2>6. ASSUME NEW other \in Net!Unacknowledged \ {n}, place' = [moved EXCEPT ![other].of = 0]
        PROVE  place[m].at = "handling"
    <3>1. other \in Messages
      BY DEF Net!Unacknowledged, Net!Handling
    <3>2. place'[m].at = moved[m].at
      BY <2>3, <2>6, <3>1 DEF Placing
    <3> QED BY <2>2, <2>6, <3>2
  <2> QED BY <1>5, <2>1, <2>4, <2>5, <2>6 DEF Net!Acknowledged
<1>6. ASSUME NEW n \in Messages, Net!Process(n) \/ Net!ProcessFails(n)
      PROVE  place[m].at = "handling"
  <2>1. place[n] \in Placing
    BY <1>1
  <2>2. CASE Net!Process(n)
    <3>1. PICK r : r = [place[n] EXCEPT !.at = "handled"]
      OBVIOUS
    <3>2. [place EXCEPT ![n].at = "handled"] = [place EXCEPT ![n] = r] /\ r.at # "handling"
      BY <1>1, <2>1, <3>1 DEF Placing
    <3>3. r \in Placing
      BY <2>1, <3>1 DEF Placing, Places
    <3> QED BY <1>5, <2>2, <3>2, <3>3 DEF Net!Process
  <2>3. CASE Net!ProcessFails(n)
    <3>1. PICK r : r = (IF place[n].count <= RetryLimit THEN Net!Retried(n) ELSE [place[n] EXCEPT !.at = "discarded"])
      OBVIOUS
    <3>2. r \in Placing /\ r.at # "handling"
      <4>1. CASE place[n].count <= RetryLimit
        <5>1. n \in Net!Handling /\ r = Net!Retried(n)
          BY <2>3, <3>1, <4>1 DEF Net!ProcessFails, Net!Handling
        <5> QED BY <4>1, <5>1, RetriedFits
      <4>2. CASE ~(place[n].count <= RetryLimit)
        <5>1. r = [place[n] EXCEPT !.at = "discarded"]
          BY <3>1, <4>2
        <5> QED BY <2>1, <5>1 DEF Placing, Places
      <4> QED BY <4>1, <4>2
    <3>3. Net!Acknowledged(n, [place EXCEPT ![n] = r])
      BY <2>3, <3>1 DEF Net!ProcessFails, Net!HandleRetry
    <3> QED BY <1>5, <3>2, <3>3
  <2> QED BY <1>6, <2>2, <2>3
<1>7. ASSUME NEW n \in Messages PROVE ~Net!Deliver(n)
  BY <1>1 DEF Net!Deliver
<1>8. CASE \/ Net!Connect \/ Net!AssertQueue \/ Net!BindQueue \/ Net!AssertAndBindRetryQueue \/ Net!SetupConsumer
           \/ Net!InitPolicy \/ Net!Start \/ Net!Stop \/ Net!BroadcastClose
  BY <1>2, <1>8 DEF Net!Connect, Net!AssertQueue, Net!BindQueue, Net!AssertAndBindRetryQueue, Net!SetupConsumer,
                    Net!InitPolicy, Net!Start, Net!Stop, Net!BroadcastClose
<1>9. CASE Net!Disconnect \/ Net!CancelConsumer \/ Net!CloseConnection
  BY <1>3, <1>9 DEF Net!Disconnect, Net!CancelConsumer, Net!CloseConnection
<1> QED BY <1>4, <1>6, <1>7, <1>8, <1>9 DEF Net!Next, Net!Progress

\* The invariant holds in every reachable state.
THEOREM NetInvariant ==
  ASSUME RetryLimit \in Nat
  PROVE  Net!Spec => []NetInv
<1>1. Net!Init => NetInv
  BY InitNet
<1>2. NetInv /\ [Net!Next]_Net!vars => NetInv'
  BY NextNet
<1> QED BY <1>1, <1>2, PTL DEF Net!Spec

\* Every message of a policy is handled, or given up after its retries; none
\* vanishes while its connection stands; and BackoffPolicy handles them one
\* after the other.
THEOREM MessagesHandledHolds ==
  ASSUME RetryLimit \in Nat
  PROVE  Net!Spec => []Net!MessagesHandled
<1>1. NetInv => Net!MessagesHandled
  <2> SUFFICES ASSUME NetInv PROVE Net!MessagesHandled
    OBVIOUS
  <2>1. Net!NothingVanishes
    BY DEF NetInv, LinkTypes, Counted, Undisturbed, Net!NothingVanishes
  <2>2. Net!OneAtATime
    <3> SUFFICES ASSUME policy.prefetch = 1, losses = 0 PROVE Cardinality(Net!Handling) <= 1
      BY NetCounts DEF Net!OneAtATime
    <3>1. \A m, n \in Net!Handling : m = n
      BY DEF NetInv, Undisturbed
    <3>2. CASE Net!Handling = {}
      BY <3>2, FS_EmptySet
    <3>3. ASSUME NEW m \in Net!Handling PROVE Cardinality(Net!Handling) <= 1
      <4>1. Net!Handling = {m}
        BY <3>1
      <4>2. Cardinality(Net!Handling) = 1
        BY <4>1, FS_Singleton
      <4> QED BY <4>2
    <3> QED BY <3>2, <3>3
  <2> QED BY <2>1, <2>2 DEF Net!MessagesHandled
<1> QED BY <1>1, NetInvariant, PTL

\* A policy that runs on a connection that stands consumes, retries by its own
\* queue, or is being set up, unless the broker closed the channel.
THEOREM NeverDeafHolds ==
  ASSUME RetryLimit \in Nat
  PROVE  Net!Spec => []Net!NeverDeaf
<1>1. NetInv => Net!NeverDeaf
  <2> SUFFICES ASSUME NetInv, life = "running", link = "up", pending = <<>>, ~(deaf /\ losses > 0)
               PROVE  broker.consumed /\ broker.queue = rabbitQueueId /\ broker.retry = rabbitQueueId
    BY DEF Net!NeverDeaf
  <2>1. ~deaf
    BY DEF NetInv, LinkTypes, Undisturbed
  <2>2. PICK p \in Seq(Steps) : SetUpLeft(p) /\ pending = p \o <<>>
    BY <2>1 DEF NetInv, Planned, ThenTeardown
  <2>3. p = <<>>
    BY <2>2, ConcatEmptySeq
  <2> QED BY <2>2, <2>3, StepsOfSetUp DEF SetUpLeft
<1> QED BY <1>1, NetInvariant, PTL

\* The goodbye is said at most once, and no message is taken up after it.
THEOREM GoodbyeIsLastHolds ==
  ASSUME RetryLimit \in Nat
  PROVE  Net!Spec => Net!GoodbyeIsLast
<1>1. NetInv /\ NetInv' /\ [Net!Next]_Net!vars =>
        [/\ closes' <= 1
         /\ closes = 1 => \A m \in Messages : place'[m].at = "handling" => place[m].at = "handling"]_Net!vars
  <2> SUFFICES ASSUME NetInv, NetInv', Net!Next
               PROVE  /\ closes' <= 1
                      /\ closes = 1 => \A m \in Messages : place'[m].at = "handling" => place[m].at = "handling"
    OBVIOUS
  <2>1. closes' <= 1
    BY DEF NetInv, LinkTypes
  <2>2. ASSUME closes = 1, NEW m \in Messages, place'[m].at = "handling" PROVE place[m].at = "handling"
    BY <2>2, TakesUp
  <2> QED BY <2>1, <2>2
<1> QED BY <1>1, NetInvariant, PTL DEF Net!Spec, Net!GoodbyeIsLast

=============================================================================
