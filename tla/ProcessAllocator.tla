-------------------------- MODULE ProcessAllocator --------------------------
(***************************************************************************)
(* How the exchanges are dealt out to the collectors' processes:           *)
(* ProcessAllocator.cjs, one action per exchange of allocateExchangeBins().*)
(***************************************************************************)
EXTENDS Integers, SequencesExt

CONSTANT Machines   \* cpuCount, exchangesPerProcess and number of exchanges

VARIABLES
  machine,
  bins,      \* the exchanges of each process, by number
  best,      \* bestBinIndex
  dealt      \* how many exchanges have their bin

vars == <<machine, bins, best, dealt>>

Init ==
  /\ machine \in Machines /\ bins = [i \in 1..machine.cpus |-> <<>>] /\ best = 1 /\ dealt = 0

\* Mutated form of NextBestBin: the bin used last is good enough.
SameBin == best

\* The first bin with less than the last one used, which need not be the least.
NextBestBin ==
  LET less == {i \in DOMAIN bins : Len(bins[i]) < Len(bins[best])}
  IN  IF less = {} THEN best ELSE Min(less)

Expanded(b) ==
  IF \A i \in DOMAIN b : Len(b[i]) >= machine.perProcess THEN Append(b, <<>>) ELSE b

Allocate ==
  /\ dealt < machine.exchanges
  /\ dealt' = dealt + 1
  /\ best' = NextBestBin
  /\ bins' = Expanded([bins EXCEPT ![NextBestBin] = Append(@, dealt + 1)])
  /\ UNCHANGED machine

Next == Allocate

Spec == Init /\ [][Next]_vars

Load(i) == Len(bins[i])

\* The choice of a bin never looks for the smallest, and yet no process gets
\* more than it tolerates (or one exchange, when that is already too large), no
\* bin is opened while another has room, and every exchange is in one bin, once.
Fair ==
  /\ \A i \in DOMAIN bins : Load(i) <= Max({1, machine.perProcess})
  /\ Len(bins) > machine.cpus => \A i \in 1..(Len(bins) - 1) : Load(i) >= machine.perProcess
  /\ \A e \in 1..dealt : \E i \in DOMAIN bins : Contains(bins[i], e)
  /\ \A i, h \in DOMAIN bins : \A j \in 1..Load(i), k \in 1..Load(h) :
       bins[i][j] \in 1..dealt /\ (bins[i][j] = bins[h][k] => i = h /\ j = k)

=============================================================================
