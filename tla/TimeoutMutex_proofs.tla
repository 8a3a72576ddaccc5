------------------------ MODULE TimeoutMutex_proofs ------------------------
(***************************************************************************)
(* Proofs about TimeoutMutex for any set of clients and any bound.         *)
(***************************************************************************)
EXTENDS TimeoutMutex, TLAPS

\* Only the last ticket can be live, exactly while the lock is taken.
LiveTicket ==
  /\ unspent = IF locked THEN {last} ELSE {}
  /\ locked => last > 0
  /\ current <= last /\ \A c \in Clients : ticket[c] <= last

\* A caller the lock was handed to holds the live ticket, which the field
\* currentRelease has not caught up with; nobody else is in that position.
HandOver ==
  /\ \A c \in Clients :
       pc[c] = "granted" => locked /\ ticket[c] = last /\ current < last
  /\ \A c, d \in Clients : pc[c] = "granted" /\ pc[d] = "granted" => c = d

\* Between two hand-overs the shared releaser is the live one and is timed.
Settled ==
  locked /\ (\A c \in Clients : pc[c] # "granted")
    => current = last /\ timer = "armed"

\* The queue holds waiting clients, each once, and only behind a taken lock.
Queue ==
  /\ queue # <<>> => locked
  /\ \A i \in 1..Len(queue) : pc[queue[i]] = "waiting"
  /\ \A i, j \in 1..Len(queue) : queue[i] = queue[j] => i = j

\* Until a timeout a client inside owns the live ticket, and is alone.
Exclusive ==
  ~outlived =>
    /\ \A c \in Clients : pc[c] = "inside" => locked /\ current = last
    /\ \A c, d \in Clients :
         pc[c] \in {"granted", "inside"} /\ pc[d] \in {"granted", "inside"} => c = d

IInv == TypeOK /\ LiveTicket /\ HandOver /\ Settled /\ Queue /\ Exclusive

-----------------------------------------------------------------------------

LEMMA InitIInv == Init => IInv
<1> SUFFICES ASSUME Init PROVE IInv
  OBVIOUS
<1> USE DEF Init
<1>1. TypeOK
  <2>1. queue \in Seq(Clients)
    OBVIOUS
  <2>2. pc \in [Clients -> PCs] /\ ticket \in [Clients -> Nat]
    BY DEF PCs
  <2>3. locked \in BOOLEAN /\ timer \in {"off", "armed"}
    OBVIOUS
  <2>4. QED
    BY <2>1, <2>2, <2>3 DEF TypeOK
<1>2. LiveTicket /\ HandOver /\ Settled
  BY DEF LiveTicket, HandOver, Settled
<1>3. Queue
  BY DEF Queue
<1>4. Exclusive
  BY DEF Exclusive
<1>5. QED
  BY <1>1, <1>2, <1>3, <1>4 DEF IInv

\* Head and tail of a non-empty queue.
LEMMA QueueFacts ==
  ASSUME queue \in Seq(Clients), queue # <<>>
  PROVE  /\ Head(queue) \in Clients
         /\ Head(queue) = queue[1]
         /\ Tail(queue) \in Seq(Clients)
         /\ Len(queue) >= 1
         /\ Len(Tail(queue)) = Len(queue) - 1
         /\ \A i \in 1..Len(Tail(queue)) : Tail(queue)[i] = queue[i + 1]
  OBVIOUS

\* Calling the shared releaser, whether it is live or not, keeps everything
\* but the timer's part; newPc differs from pc only in taking a client out.
LEMMA ReleaseKeeps ==
  ASSUME IInv, NEW newPc, newPc \in [Clients -> PCs],
         \A c \in Clients : newPc[c] = pc[c] \/ (pc[c] = "inside" /\ newPc[c] = "idle"),
         ~outlived' => ~outlived /\ (\E c \in Clients : newPc[c] # pc[c]),
         outlived' \in BOOLEAN,
         CallRelease(current, newPc), current' = current,
         timer' \in {"off", "armed"},
         (\E c \in Clients : pc[c] = "granted") \/ ~locked \/ current = last
  PROVE  IInv'
<1> USE DEF IInv, TypeOK
<1>1. CASE current \notin unspent
  <2>1. pc' = newPc /\ UNCHANGED <<queue, locked, unspent, last, ticket>>
    BY <1>1 DEF CallRelease
  <2>2. ~locked \/ \E c \in Clients : pc[c] = "granted"
    BY <1>1 DEF LiveTicket
  <2>3. \A i \in 1..Len(queue) : queue[i] \in Clients
    OBVIOUS
  <2>4. \A c \in Clients : pc[c] \in {"granted", "waiting"} <=> newPc[c] \in {"granted", "waiting"}
    OBVIOUS
  <2>5. \A c \in Clients : pc'[c] = "granted" <=> pc[c] = "granted"
    BY <2>1
  <2>6. HandOver'
    BY <2>1, <2>5 DEF HandOver
  <2>7. Queue'
    BY <2>1, <2>3 DEF Queue
  <2>8. Settled'
    BY <2>1, <2>2, <2>5 DEF Settled
  <2>9. Exclusive'
    BY <2>1 DEF Exclusive
  <2>10. TypeOK' /\ LiveTicket'
    BY <2>1 DEF LiveTicket
  <2>11. QED
    BY <2>6, <2>7, <2>8, <2>9, <2>10
<1>2. CASE current \in unspent /\ queue = <<>>
  <2>1. /\ locked' = FALSE /\ unspent' = unspent \ {current} /\ pc' = newPc
        /\ UNCHANGED <<queue, last, ticket>>
    BY <1>2 DEF CallRelease
  <2>2. current = last /\ unspent = {last} /\ locked
    BY <1>2 DEF LiveTicket
  <2>3. \A c \in Clients : pc[c] # "granted"
    BY <2>2 DEF HandOver
  <2>4. \A c \in Clients : pc'[c] # "granted"
    BY <2>1, <2>3
  <2>5. Exclusive'
    BY <2>1, <2>4 DEF Exclusive
  <2>6. TypeOK'
    BY <2>1
  <2>7. LiveTicket'
    BY <2>1, <2>2 DEF LiveTicket
  <2>8. HandOver' /\ Settled'
    BY <2>1, <2>4 DEF HandOver, Settled
  <2>9. Queue'
    BY <1>2, <2>1 DEF Queue
  <2>10. QED
    BY <2>5, <2>6, <2>7, <2>8, <2>9
<1>3. CASE current \in unspent /\ queue # <<>>
  <2> DEFINE h == Head(queue)
  <2>1. /\ locked' = TRUE /\ last' = last + 1
        /\ ticket' = [ticket EXCEPT ![h] = last + 1]
        /\ pc' = [newPc EXCEPT ![h] = "granted"]
        /\ unspent' = (unspent \ {current}) \cup {last + 1}
        /\ queue' = Tail(queue)
    BY <1>3 DEF CallRelease, Grant
  <2>2. current = last /\ unspent = {last} /\ locked
    BY <1>3 DEF LiveTicket
  <2>3. \A c \in Clients : pc[c] # "granted"
    BY <2>2 DEF HandOver
  <2>4. h \in Clients /\ h = queue[1] /\ pc[h] = "waiting"
    BY <1>3, QueueFacts DEF Queue
  <2>5. TypeOK'
    BY <1>3, <2>1, <2>4, QueueFacts DEF PCs
  <2>6. LiveTicket'
    BY <2>1, <2>2, <2>4 DEF LiveTicket
  <2>7. \A c \in Clients : pc'[c] = "granted" <=> c = h
    BY <2>1, <2>3, <2>4
  <2>8. HandOver'
    BY <2>1, <2>2, <2>4, <2>7 DEF HandOver, LiveTicket
  <2>9. Settled'
    BY <2>4, <2>7 DEF Settled
  <2>10. Queue'
    <3>1. \A i \in 1..Len(queue') : i + 1 \in 1..Len(queue) /\ queue'[i] = queue[i + 1]
      BY <1>3, <2>1, QueueFacts
    <3>2. \A i \in 1..Len(queue') : queue'[i] # h /\ queue'[i] \in Clients /\ pc[queue'[i]] = "waiting"
      <4>1. 1 \in 1..Len(queue) /\ \A i \in 1..Len(queue) : queue[i] \in Clients
        BY <1>3, QueueFacts
      <4>2. QED
        BY <4>1, <3>1, <2>4 DEF Queue
    <3>3. \A i \in 1..Len(queue') : pc'[queue'[i]] = "waiting"
      BY <3>2, <2>1
    <3>4. \A i, j \in 1..Len(queue') : queue'[i] = queue'[j] => i = j
      BY <3>1 DEF Queue
    <3>5. QED
      BY <3>3, <3>4, <2>1 DEF Queue
  <2>11. Exclusive'
    <3> SUFFICES ASSUME ~outlived' PROVE Exclusive'
      BY DEF Exclusive
    <3>1. PICK r \in Clients : pc[r] = "inside" /\ newPc[r] = "idle"
      OBVIOUS
    <3>2. \A c \in Clients : pc[c] = "inside" => c = r
      BY <3>1 DEF Exclusive
    <3>3. \A c \in Clients : newPc[c] # "inside"
      BY <3>1, <3>2
    <3>4. \A c \in Clients : pc'[c] # "inside"
      BY <3>3, <2>1, <2>4
    <3>5. QED
      BY <3>4, <2>7 DEF Exclusive
  <2>12. QED
    BY <2>5, <2>6, <2>8, <2>9, <2>10, <2>11
<1>4. QED
  BY <1>1, <1>2, <1>3

LEMMA AcquireKeeps ==
  ASSUME IInv, NEW c \in Clients, Acquire(c)
  PROVE  IInv'
<1> USE DEF IInv, TypeOK, Acquire
<1>1. CASE locked
  <2>1. /\ queue' = Append(queue, c) /\ pc' = [pc EXCEPT ![c] = "waiting"]
        /\ UNCHANGED <<locked, unspent, last, ticket, current, timer, outlived>>
    BY <1>1
  <2>2. TypeOK'
    BY <2>1 DEF PCs
  <2>3. LiveTicket'
    BY <2>1 DEF LiveTicket
  <2>4. \A d \in Clients : pc'[d] = "granted" <=> pc[d] = "granted"
    BY <2>1
  <2>5. HandOver' /\ Settled'
    BY <2>1, <2>4 DEF HandOver, Settled
  <2>6. Queue'
    <3>1. \A i \in 1..Len(queue) : queue[i] # c /\ queue'[i] = queue[i]
      BY <2>1 DEF Queue
    <3>2. Len(queue') = Len(queue) + 1 /\ queue'[Len(queue) + 1] = c
      BY <2>1
    <3>3. \A i \in 1..Len(queue') : i = Len(queue) + 1 \/ i \in 1..Len(queue)
      BY <3>2
    <3>4. \A i \in 1..Len(queue') : pc'[queue'[i]] = "waiting"
      BY <3>1, <3>2, <3>3, <2>1 DEF Queue
    <3>5. \A i, j \in 1..Len(queue') : queue'[i] = queue'[j] => i = j
      BY <3>1, <3>2, <3>3 DEF Queue
    <3>6. QED
      BY <3>4, <3>5, <1>1, <2>1 DEF Queue
  <2>7. Exclusive'
    BY <2>1 DEF Exclusive
  <2>8. QED
    BY <2>2, <2>3, <2>5, <2>6, <2>7
<1>2. CASE ~locked
  <2>1. /\ locked' = TRUE /\ last' = last + 1
        /\ ticket' = [ticket EXCEPT ![c] = last + 1]
        /\ pc' = [pc EXCEPT ![c] = "granted"]
        /\ unspent' = unspent \cup {last + 1}
        /\ UNCHANGED <<queue, current, timer, outlived>>
    BY <1>2 DEF Grant
  <2>2. TypeOK'
    BY <2>1 DEF PCs
  <2>3. LiveTicket'
    BY <1>2, <2>1 DEF LiveTicket
  <2>4. \A d \in Clients : pc'[d] = "granted" <=> d = c
    BY <1>2, <2>1 DEF HandOver
  <2>5. HandOver' /\ Settled'
    BY <2>1, <2>4 DEF HandOver, Settled, LiveTicket
  <2>6. Queue'
    BY <1>2, <2>1 DEF Queue
  <2>7. Exclusive'
    BY <1>2, <2>1, <2>4 DEF Exclusive
  <2>8. QED
    BY <2>2, <2>3, <2>5, <2>6, <2>7
<1>3. QED
  BY <1>1, <1>2

LEMMA EnterKeeps ==
  ASSUME IInv, NEW c \in Clients, Enter(c)
  PROVE  IInv'
<1> USE DEF IInv, TypeOK, Enter
<1>1. TypeOK'
  BY DEF PCs
<1>2. locked /\ ticket[c] = last /\ \A d \in Clients : pc[d] = "granted" => d = c
  BY DEF HandOver
<1>3. \A d \in Clients : pc'[d] # "granted"
  BY <1>2
<1>4. LiveTicket' /\ HandOver' /\ Settled'
  BY <1>2, <1>3 DEF LiveTicket, HandOver, Settled
<1>5. Queue'
  BY DEF Queue
<1>6. Exclusive'
  BY <1>2 DEF Exclusive
<1>7. QED
  BY <1>1, <1>4, <1>5, <1>6

LEMMA NextKeeps == IInv /\ [Next]_vars => IInv'
<1> SUFFICES ASSUME IInv, [Next]_vars PROVE IInv'
  OBVIOUS
<1> USE DEF IInv
<1>1. ASSUME NEW c \in Clients, Acquire(c) PROVE IInv'
  BY <1>1, AcquireKeeps
<1>2. ASSUME NEW c \in Clients, Enter(c) PROVE IInv'
  BY <1>2, EnterKeeps
<1>3. ASSUME NEW c \in Clients, Extend(c) PROVE IInv'
  BY <1>3 DEF Extend, TypeOK, LiveTicket, HandOver, Settled, Queue, Exclusive
<1>4. ASSUME NEW c \in Clients, Release(c) PROVE IInv'
  <2> DEFINE newPc == [pc EXCEPT ![c] = "idle"]
  <2>1. /\ newPc \in [Clients -> PCs]
        /\ \A d \in Clients : newPc[d] = pc[d] \/ (pc[d] = "inside" /\ newPc[d] = "idle")
        /\ newPc[c] # pc[c]
    BY <1>4 DEF Release, TypeOK, PCs
  <2>2. (\E d \in Clients : pc[d] = "granted") \/ ~locked \/ current = last
    BY DEF Settled
  <2>3. CallRelease(current, newPc) /\ current' = current /\ timer' = "off" /\ outlived' = outlived
    BY <1>4 DEF Release
  <2> HIDE DEF newPc
  <2>4. QED
    BY <2>1, <2>2, <2>3, ReleaseKeeps DEF TypeOK
<1>5. ASSUME Timeout PROVE IInv'
  <2>1. CASE locked
    <3>1. outlived' = TRUE /\ CallRelease(current, pc) /\ current' = current /\ timer' = "off"
      BY <1>5, <2>1 DEF Timeout
    <3>2. (\E d \in Clients : pc[d] = "granted") \/ ~locked \/ current = last
      BY DEF Settled
    <3>3. pc \in [Clients -> PCs]
      BY DEF TypeOK
    <3>4. QED
      BY <3>1, <3>2, <3>3, ReleaseKeeps
  <2>2. CASE ~locked
    BY <1>5, <2>2 DEF Timeout, TypeOK, LiveTicket, HandOver, Settled, Queue, Exclusive
  <2>3. QED
    BY <2>1, <2>2
<1>6. CASE UNCHANGED vars
  BY <1>6 DEF vars, TypeOK, LiveTicket, HandOver, Settled, Queue, Exclusive
<1>7. QED
  BY <1>1, <1>2, <1>3, <1>4, <1>5, <1>6 DEF Next

\* The inductive invariant: which ticket is live, who the lock is handed to,
\* and what the shared releaser and timer refer to in every reachable state.
THEOREM Inductive == Spec => []IInv
  BY InitIInv, NextKeeps, PTL DEF Spec

-----------------------------------------------------------------------------

\* However late the closures of others are called, none can free a lock before
\* its new holder runs, and from then on the shared releaser is the holder's.
THEOREM SharedReleaserFitsHolds == Spec => []SharedReleaserFits
<1>1. IInv => SharedReleaserFits
  <2> SUFFICES ASSUME IInv, locked PROVE SharedReleaserFits
    BY DEF SharedReleaserFits
  <2>1. unspent = {last} /\ current \in Nat /\ last \in Nat
    BY DEF IInv, TypeOK, LiveTicket
  <2>2. CASE \E c \in Clients : pc[c] = "granted"
    BY <2>1, <2>2 DEF IInv, HandOver, SharedReleaserFits
  <2>3. CASE \A c \in Clients : pc[c] # "granted"
    BY <2>1, <2>3 DEF IInv, Settled, SharedReleaserFits
  <2> QED
    BY <2>2, <2>3
<1>2. QED
  BY <1>1, Inductive, PTL

\* No lock of the control plane can be held without a timer that will take it
\* back, unless the new holder is just about to arm it.
THEOREM TimerCoversLockHolds == Spec => []TimerCoversLock
<1>1. IInv => TimerCoversLock
  BY DEF IInv, Settled, TimerCoversLock
<1>2. QED
  BY <1>1, Inductive, PTL

\* As long as every holder has released before its timer, the lock excludes,
\* for any number of clients.
THEOREM MutualExclusionHolds == Spec => []MutualExclusion
<1>1. IInv => MutualExclusion
  BY DEF IInv, Exclusive, MutualExclusion
<1>2. QED
  BY <1>1, Inductive, PTL

=============================================================================
