----------------------------- MODULE RateSlots -----------------------------
(***************************************************************************)
(* When a collectors scheduler runs its operations: BaseScheduler.js,      *)
(* RestrictedRealtimeScheduler.js and ScheduleUnitContext.js, the          *)
(* arithmetic.  Every interval of the cluster is cut into a window per     *)
(* identity, a window into a batch per market, a batch into a slot per     *)
(* replica and operation; the replicas agree on all of it only by what     *)
(* discovery has told them.                                                *)
(*                                                                         *)
(* Time is counted in units small enough for the divisions to come out     *)
(* even.  A scheduler is a record of the fields of this that matter; its   *)
(* clusterMembers are their intervals, and self is its own place there.    *)
(***************************************************************************)
EXTENDS Integers, Sequences, FiniteSetsExt

CONSTANTS Second, SecondsInMinute, MinutesInHour, HoursInDay

ASSUME TimeframesAssumption ==
  {Second, SecondsInMinute, MinutesInHour, HoursInDay} \subseteq Nat \ {0}

Minute == SecondsInMinute * Second
Hour == MinutesInHour * Minute
Day == HoursInDay * Hour

-----------------------------------------------------------------------------
(* The interval of the cluster. *)

\* ScheduleUnitContext.getContext: how many units the next larger one has.
Context(interval) ==
  IF interval < Minute THEN [unit |-> SecondsInMinute, timeUnitDivisor |-> Second]
  ELSE IF interval < Hour THEN [unit |-> MinutesInHour, timeUnitDivisor |-> Minute]
  ELSE [unit |-> HoursInDay, timeUnitDivisor |-> Hour]

Ceil(a, b) == (a + b - 1) \div b

\* closestDivisor: the least number from num on that divides target.
Divisors(num, target) == {n \in 1..target : n >= num /\ target % n = 0}
ClosestDivisor(num, target) == Min(Divisors(num, target))

ClusterInterval(s) ==
  MapThenSumSet(LAMBDA i : s.clusterMembers[i], DOMAIN s.clusterMembers)

IntervalInUnits(s) ==
  Ceil(ClusterInterval(s), Context(ClusterInterval(s)).timeUnitDivisor)

\* From an hour on there is no schedule: the pattern of the unit of hours has four
\* fields, Cron accepts five or six, and beyond the unit closestDivisor recurses
\* until the stack is exhausted.
Schedulable(s) == ClusterInterval(s) < Hour

\* preciseNormalizedInterval: the cron pattern of a scheduler fires whenever the
\* wall clock is a multiple of it.
PreciseInterval(s) ==
  LET context == Context(ClusterInterval(s))
  IN  ClosestDivisor(IntervalInUnits(s), context.unit) * context.timeUnitDivisor

\* intraClusterDistance: what is left of the interval, in equal parts.
IntraClusterDistance(s) ==
  (PreciseInterval(s) - ClusterInterval(s)) \div Len(s.clusterMembers)

-----------------------------------------------------------------------------
(* The slots of a window. *)

\* BaseScheduler's rateLimit; the margin is counted in baseRateLimit.
BaseRateLimit(s) == s.baseRateLimit * s.rateLimitMultiplier

\* getIntervalSize: what a replica reports to the others.
IntervalSize(s) == BaseRateLimit(s) * s.queueSize * s.operations

\* rateLimit: stretched by the identity's part of what is left.
RateLimit(s) ==
  BaseRateLimit(s) + IntraClusterDistance(s) \div (s.queueSize * s.operations * s.replicaSize)

\* Mutated form of ClusterDelay: the gaps between the windows are forgotten.
ClusterDelayGapless(s) ==
  MapThenSumSet(LAMBDA i : s.clusterMembers[i], 1..(s.self - 1)) + IntraClusterDistance(s) \div 2

\* getOperationsClusterDelay: the windows before this one and half a gap.
ClusterDelay(s) ==
  MapThenSumSet(LAMBDA i : s.clusterMembers[i] + IntraClusterDistance(s), 1..(s.self - 1))
    + IntraClusterDistance(s) \div 2

\* getOperationsBatchDelay: the markets before this one, of all replicas.
BatchDelay(s) == RateLimit(s) * s.queuePosition * s.operations * s.replicaSize

\* getOperationDelay: the replicas and operations before this one, counting
\* operations from 0.
OperationDelay(s, operation) ==
  RateLimit(s) * operation + RateLimit(s) * s.instancePosition * s.operations

=============================================================================
