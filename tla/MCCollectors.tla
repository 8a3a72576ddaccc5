---------------------------- MODULE MCCollectors ----------------------------
(***************************************************************************)
(* What the collectors rest on, in three parts, each on a small instance   *)
(* of its own: the lock of discovery and of the markets, the allocation of *)
(* exchanges to processes and the collection of a market.  They share      *)
(* nothing, so a behaviour is one of one part while the others have        *)
(* nothing to do.  What is not named after a part is of TimeoutMutex,      *)
(* which this module extends.                                              *)
(***************************************************************************)
EXTENDS TimeoutMutex

VARIABLES
  part,
  machine, bins, best, dealt,
  job, now, interval, cron, cycle, bounds, ops, asked, reload, repeat, windows, lost, resolved, faults

lockVars == vars
processVars == <<machine, bins, best, dealt>>
collectVars ==
  <<job, now, interval, cron, cycle, bounds, ops, asked, reload, repeat, windows, lost, resolved, faults>>
MCvars == <<part, lockVars, processVars, collectVars>>

\* Machines whose bins overflow, fill evenly, or tolerate nothing.
MCMachines == [cpus : 1..4, perProcess : 0..3, exchanges : {9}]

\* A sixth of a minute per unit; exact and inexact multiples of the operation
\* limit; intervals of less than a minute, that divide each other or do not,
\* and of a minute.
MCIntervals == {2, 3, 6}
Historical == [kind : {"historical"}, minutes : {3, 4}, operationLimit : {1, 2}, reloadCyclesBackoff : {2}]
Realtime == [kind : {"realtime"}, interval : MCIntervals, seconds : BOOLEAN]

Processes == INSTANCE ProcessAllocator WITH Machines <- MCMachines
Collecting == INSTANCE Collection
  WITH Jobs <- Historical \cup Realtime, Minute <- 6, Intervals <- MCIntervals, Horizon <- 12,
       MaxFetches <- 2, MaxFaults <- 2

\* One of the inputs, for a part that does nothing.
Only(input, inputs) == input = CHOOSE i \in inputs : TRUE

MCInit ==
  /\ part \in {"lock", "processes", "collection"}
  /\ Init
  /\ Processes!Init /\ (part = "processes" \/ Only(machine, MCMachines))
  /\ Collecting!Init /\ (part = "collection" \/ Only(job, Realtime))

Lock(step) == part = "lock" /\ step /\ UNCHANGED <<part, processVars, collectVars>>
Allocate == part = "processes" /\ Processes!Next /\ UNCHANGED <<part, lockVars, collectVars>>
Collect == part = "collection" /\ Collecting!Next /\ UNCHANGED <<part, lockVars, processVars>>

MCNext == Lock(Next) \/ Allocate \/ Collect

MCSpec ==
  /\ MCInit /\ [][MCNext]_MCvars
  /\ \A c \in Clients : WF_MCvars(Lock(Enter(c)))
  /\ WF_MCvars(Lock(Timeout))
  /\ WF_MCvars(Collect /\ Collecting!Progress)

-----------------------------------------------------------------------------

\* What the other parts promise, as their modules state it: ProcessAllocator,
Fair == Processes!Fair

\* Collection.
RangeCollected == Collecting!RangeCollected
GaplessAndFinal == Collecting!GaplessAndFinal
EventuallyResolved == Collecting!EventuallyResolved

=============================================================================
