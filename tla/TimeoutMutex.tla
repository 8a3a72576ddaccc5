---------------------------- MODULE TimeoutMutex ----------------------------
(***************************************************************************)
(* The lock of the collectors' control plane:                              *)
(* src/lib/domain-collectors/utils/TimeoutMutex.js.  It extends the Mutex  *)
(* of the async-mutex package (a FIFO semaphore of one slot, external)     *)
(* with one timer, re-armed by every acquisition, that releases the lock   *)
(* and throws when a holder keeps it too long.                             *)
(*                                                                         *)
(* Every acquisition of the base Mutex yields a releaser that works once;  *)
(* it is identified here by its ticket.  The closure a client gets from    *)
(* TimeoutMutex.acquire holds no ticket: it calls whatever releaser the    *)
(* field currentRelease holds when the closure runs.  A client whose lock  *)
(* was taken away by the timer is not told; it goes on and calls its       *)
(* closure in the end.                                                     *)
(***************************************************************************)
EXTENDS Integers, Sequences

CONSTANTS
  Clients,      \* the concurrent callers of acquire()
  MaxGrants     \* bound: acquisitions in one behaviour

ASSUME MaxGrantsAssumption == MaxGrants \in Nat

VARIABLES
  pc,           \* where each client is
  queue,        \* callers waiting in the base Mutex, first come first served
  locked,       \* isLocked() of the base Mutex
  unspent,      \* tickets whose releaser has not been called yet
  last,         \* last ticket handed out
  ticket,       \* the ticket each client was last granted
  current,      \* the ticket whose releaser currentRelease holds, 0 for null
  timer,        \* "armed" while timeoutHandle is a pending timer
  outlived      \* history: has the timer ever taken the lock from a holder?

vars == <<pc, queue, locked, unspent, last, ticket, current, timer, outlived>>

PCs == {"idle", "waiting", "granted", "inside"}

TypeOK ==
  /\ pc \in [Clients -> PCs] /\ queue \in Seq(Clients) /\ locked \in BOOLEAN /\ unspent \subseteq Nat
  /\ last \in Nat /\ ticket \in [Clients -> Nat] /\ current \in Nat /\ timer \in {"off", "armed"}
  /\ outlived \in BOOLEAN

Init ==
  /\ pc = [c \in Clients |-> "idle"] /\ queue = <<>> /\ locked = FALSE /\ unspent = {} /\ last = 0
  /\ ticket = [c \in Clients |-> 0] /\ current = 0 /\ timer = "off" /\ outlived = FALSE

-----------------------------------------------------------------------------
(* The base Mutex. *)

\* The base Mutex resolves c's acquire() with a fresh releaser.
Grant(c, newPc) ==
  /\ locked' = TRUE
  /\ last' = last + 1
  /\ ticket' = [ticket EXCEPT ![c] = last + 1]
  /\ pc' = [newPc EXCEPT ![c] = "granted"]

\* The releaser of ticket t is called: a second call does nothing, the first
\* one hands the lock to the next caller in the queue.
CallRelease(t, newPc) ==
  IF t \notin unspent
  THEN /\ pc' = newPc
       /\ UNCHANGED <<queue, locked, unspent, last, ticket>>
  ELSE IF queue = <<>>
  THEN /\ locked' = FALSE
       /\ unspent' = unspent \ {t}
       /\ pc' = newPc
       /\ UNCHANGED <<queue, last, ticket>>
  ELSE /\ Grant(Head(queue), newPc)
       /\ unspent' = (unspent \ {t}) \cup {last + 1}
       /\ queue' = Tail(queue)

-----------------------------------------------------------------------------
(* TimeoutMutex. *)

\* Mutated form of Acquire: the lock of the base Mutex is not awaited.
AcquireUnawaited(c) ==
  /\ pc[c] = "idle"
  /\ last + Len(queue) < MaxGrants
  /\ IF locked
     THEN /\ queue' = Append(queue, c)
          /\ pc' = [pc EXCEPT ![c] = "inside"]
          /\ UNCHANGED <<locked, unspent, last, ticket>>
     ELSE /\ Grant(c, pc)
          /\ unspent' = unspent \cup {last + 1}
          /\ UNCHANGED queue
  /\ UNCHANGED <<current, timer, outlived>>

\* acquire() up to its await: the lock is free, or the caller queues.
Acquire(c) ==
  /\ pc[c] = "idle"
  /\ last + Len(queue) < MaxGrants
  /\ IF locked
     THEN /\ queue' = Append(queue, c)
          /\ pc' = [pc EXCEPT ![c] = "waiting"]
          /\ UNCHANGED <<locked, unspent, last, ticket>>
     ELSE /\ Grant(c, pc)
          /\ unspent' = unspent \cup {last + 1}
          /\ UNCHANGED queue
  /\ UNCHANGED <<current, timer, outlived>>

\* Mutated form of Enter: a releaser that is there already is kept.
EnterKeeping(c) ==
  /\ pc[c] = "granted"
  /\ pc' = [pc EXCEPT ![c] = "inside"]
  /\ current' = IF current = 0 THEN ticket[c] ELSE current
  /\ timer' = "armed"
  /\ UNCHANGED <<queue, locked, unspent, last, ticket, outlived>>

\* Mutated form of Enter: the timer is not re-armed after a hand-over.
EnterUntimed(c) ==
  /\ pc[c] = "granted"
  /\ pc' = [pc EXCEPT ![c] = "inside"]
  /\ current' = ticket[c]
  /\ UNCHANGED <<queue, locked, unspent, last, ticket, timer, outlived>>

\* acquire() after its await: the releaser is stored in the shared field and
\* the timer is re-armed (setTimeoutHandler clears the previous handle).
Enter(c) ==
  /\ pc[c] = "granted"
  /\ pc' = [pc EXCEPT ![c] = "inside"]
  /\ current' = ticket[c]
  /\ timer' = "armed"
  /\ UNCHANGED <<queue, locked, unspent, last, ticket, outlived>>

\* addTimeout, updateTimeout, changeTimeout, reloadTimeout by a client that
\* believes it holds the lock: the timer is re-armed.
Extend(c) ==
  /\ pc[c] = "inside"
  /\ timer' = "armed"
  /\ UNCHANGED <<pc, queue, locked, unspent, last, ticket, current, outlived>>

\* The closure acquire() returned: it clears the shared handle and calls the
\* shared releaser, whoever that belongs to by now.
Release(c) ==
  /\ pc[c] = "inside"
  /\ timer' = "off"
  /\ CallRelease(current, [pc EXCEPT ![c] = "idle"])
  /\ UNCHANGED <<current, outlived>>

\* Mutated form of Timeout: the handler throws before it releases.
TimeoutThrowsFirst ==
  /\ timer = "armed"
  /\ outlived' = (outlived \/ locked)
  /\ timer' = "off"
  /\ UNCHANGED <<pc, queue, locked, unspent, last, ticket, current>>

\* The timer fires: nothing when the lock is free, otherwise the lock is
\* released (and an error thrown, outside any client).
Timeout ==
  /\ timer = "armed"
  /\ outlived' = (outlived \/ locked)
  /\ timer' = "off"
  /\ IF locked THEN CallRelease(current, pc)
               ELSE UNCHANGED <<pc, queue, locked, unspent, last, ticket>>
  /\ UNCHANGED current

Next ==
  \/ \E c \in Clients : Acquire(c) \/ Enter(c) \/ Extend(c) \/ Release(c)
  \/ Timeout

\* Promise continuations and armed timers run; a client that got the lock may
\* never call its closure (a hung await), so Release is not fair.
Fairness ==
  /\ \A c \in Clients : WF_vars(Enter(c))
  /\ WF_vars(Timeout)

Spec == Init /\ [][Next]_vars
FairSpec == Spec /\ Fairness

-----------------------------------------------------------------------------
(* Properties. *)

\* Whatever late closures, hand-overs and timeouts do, the releaser they share
\* fits the lock: while the lock is on its way to a caller it is a spent one, so
\* that nobody can free a lock whose holder has not run yet; from then on it is
\* the live one, so that the timer and the closure can free it.
SharedReleaserFits ==
  locked =>
    IF \E c \in Clients : pc[c] = "granted" THEN current \notin unspent ELSE current \in unspent

\* A taken lock is always watched: either its timer is pending, or the caller
\* it was just handed to is about to run and arm it.  Release clears the timer
\* of whoever holds the lock, so this is about every order in which late
\* closures, hand-overs and timeouts can meet.
TimerCoversLock ==
  locked => timer = "armed" \/ \E c \in Clients : pc[c] = "granted"

\* Until a holder outlives the timer the lock excludes: at most one client is
\* between its acquire and its release.  (Afterwards it may not, for good: the
\* late closure of a timed-out client releases the lock of its successor.)
MutualExclusion ==
  ~outlived =>
    \A c, d \in Clients :
      pc[c] \in {"granted", "inside"} /\ pc[d] \in {"granted", "inside"} => c = d

\* Every caller of acquire() is served even if a holder hangs for ever: the
\* timer takes the lock from it.
WaiterServed == \A c \in Clients : pc[c] = "waiting" ~> pc[c] = "inside"

=============================================================================
