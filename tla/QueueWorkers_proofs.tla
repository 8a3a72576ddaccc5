------------------------ MODULE QueueWorkers_proofs ------------------------
(***************************************************************************)
(* QueueWorkers, for any number of workers, messages, crashes and          *)
(* failures, any prefetch and any retry limit: it implements               *)
(* RecordDelivery, no task is forgotten unless its process died at the     *)
(* wrong moment, and, of what the users see, a record's price is announced *)
(* once, but for what nobody confirmed, and a task that is complete has    *)
(* its results.  Then what collectors send there, by Collection: every     *)
(* minute of a range, and real time without gaps.                          *)
(***************************************************************************)
EXTENDS QueueWorkers, FiniteSetTheorems, WellFoundedInduction, TLAPS

Places ==
  {"queue", "retry", "received", "created", "found", "processing", "saved", "linked"} \cup Ended \cup KeptPlaces

Statuses == {"none", "PENDING", "PROCESSING", "COMPLETED", "ERROR"}

CopyOf(c) ==
  c \in [id : {c.id}, body : sent, count : 1..(RetryLimit + 1), at : Places, by : Workers \cup {Nobody},
         of : Nat, acked : BOOLEAN]

\* The handler has failed, and has published a copy or will.
Failing(c) == c.at \in {"retried", "retry kept"}

\* A copy is in nobody's hand while it is in a queue; a writer that has found
\* or created its record goes by what the table has.
WellPlaced(c) ==
  /\ c.at \in {"queue", "retry"} <=> c.by = Nobody
  /\ c.by = Nobody => ~c.acked
  /\ c.at \in {"created", "found", "announced"} \cup KeptEvents => ~IsTask(c.body) /\ Key[c.body] \in table
  /\ c.at \in {"processing", "saved", "linked"} => IsTask(c.body)
  /\ Failing(c) => CanRetry(c)

\* A copy has been made for every failure, or is to be made.
Counted(c) ==
  /\ failed[Subject(c.body)] >= c.count - 1
  /\ Failing(c) => failed[Subject(c.body)] >= c.count

\* No delivery outlives its channel.
Delivered(c) == c.by # Nobody => c.of <= channel[c.by] /\ (c.of = channel[c.by] => link[c.by] = "up")

GoodCopy(c) == CopyOf(c) /\ WellPlaced(c) /\ Counted(c) /\ Delivered(c)

Types ==
  /\ load \in Loads /\ sent \subseteq load /\ failed \in [Subjects -> Nat]
  /\ link \in [Workers -> {"up", "down", "deaf"}] /\ channel \in [Workers -> Nat]
  /\ tasks \in [Tasks -> [status : Statuses, results : Nat, linked : Nat]]
  /\ \A c \in copies : GoodCopy(c)

\* The copy will be handled, or what it is about abandoned: it is in a queue,
\* or will be if its handler dies, or its handler is irreplaceable.
Waiting(c) ==
  \/ c.at \in {"queue", "retry", "processing", "saved", "linked"}
  \/ c.at = "received" /\ (Held(c) \/ c.acked)
  \/ c.at = "retry kept" /\ (IsTask(c.body) \/ c.acked)

Over(s) == IF s \in Keys THEN s \in table ELSE tasks[s].status \in {"COMPLETED", "ERROR"}

\* What was sent is over, has failed too often, is abandoned or to be handled.
KeptOne(s) ==
  Over(s) \/ failed[s] > RetryLimit \/ s \in abandoned \/ \E c \in copies : Subject(c.body) = s /\ Waiting(c)
Kept == \A s \in SentOnes : KeptOne(s)

\* The inductive invariant.  That a copy is in some worker's hand, which is
\* all that the properties speak of, would not do: the worker may be about to
\* acknowledge it.
IInv == Types /\ Kept

-----------------------------------------------------------------------------
(* Messages and their subjects. *)

\* Every message has a subject of the right kind.
LEMMA SubjectType ==
  ASSUME Reasonable, Types, NEW b \in load
  PROVE  /\ Subject(b) \in Subjects
         /\ Subject(b) \in Keys <=> ~IsTask(b)
<1>1. CASE IsTask(b)
  BY <1>1 DEF Reasonable, Types, Subject, Subjects, Tasks
<1>2. CASE ~IsTask(b)
  BY <1>2 DEF Subject, Subjects, IsTask, Keys, Range
<1> QED BY <1>1, <1>2

\* What is known of every copy.
LEMMA EveryCopy ==
  ASSUME Reasonable, IInv, NEW c \in copies
  PROVE  /\ GoodCopy(c) /\ c.body \in sent /\ c.body \in load /\ c.count \in Nat /\ c.count >= 1
         /\ c.count <= RetryLimit + 1 /\ RetryLimit \in Nat /\ c.at \in Places /\ c.by \in Workers \cup {Nobody}
         /\ Subject(c.body) \in Subjects /\ Subject(c.body) \in SentOnes /\ failed[Subject(c.body)] \in Nat
         /\ Subject(c.body) \in Keys <=> ~IsTask(c.body)
<1>1. GoodCopy(c) /\ RetryLimit \in Nat
  BY DEF IInv, Types, Reasonable
<1>2. /\ c.body \in sent /\ c.count \in 1..(RetryLimit + 1) /\ c.at \in Places
      /\ c.by \in Workers \cup {Nobody}
  BY <1>1 DEF GoodCopy, CopyOf
<1>3. c.body \in load
  BY <1>2 DEF IInv, Types
<1>4. Subject(c.body) \in Subjects /\ (Subject(c.body) \in Keys <=> ~IsTask(c.body))
  BY <1>3, SubjectType DEF IInv
<1>5. failed[Subject(c.body)] \in Nat
  BY <1>4 DEF IInv, Types
<1> QED BY <1>1, <1>2, <1>3, <1>4, <1>5 DEF SentOnes

\* A copy that is moved keeps all but its place.
LEMMA MovedCopy ==
  ASSUME NEW c, CopyOf(c), NEW at \in Places
  PROVE  LET d == [c EXCEPT !.at = at]
         IN  CopyOf(d) /\ d.body = c.body /\ d.count = c.count /\ d.at = at
             /\ d.by = c.by /\ d.of = c.of /\ d.acked = c.acked
  BY DEF CopyOf

\* A copy that is published.
LEMMA NewCopy ==
  ASSUME NEW b \in sent, NEW n \in 1..(RetryLimit + 1), NEW at \in Places
  PROVE  LET d == Copy(b, n, at)
         IN  CopyOf(d) /\ d.body = b /\ d.count = n /\ d.at = at
             /\ d.by = Nobody /\ d.of = 0 /\ ~d.acked
  BY DEF CopyOf, Copy

-----------------------------------------------------------------------------
(* The invariant. *)

\* It holds at the start.
LEMMA InitIInv == Init /\ Reasonable => IInv
  BY DEF Init, IInv, Types, Kept, SentOnes, Reasonable, Statuses

\* A copy that a step leaves alone is still what it should be.
LEMMA StillGood ==
  ASSUME Reasonable, IInv, NEW d \in copies, load' = load, sent' = sent, table \subseteq table',
         failed' \in [Subjects -> Nat], \A s \in Subjects : failed'[s] >= failed[s],
         d.by # Nobody => Delivered(d)'
  PROVE  GoodCopy(d)'
<1>1. GoodCopy(d) /\ d.body \in sent /\ d.count \in Nat
  BY EveryCopy
<1>2. CopyOf(d)'
  BY <1>1 DEF GoodCopy, CopyOf
<1>3. WellPlaced(d)'
  BY <1>1 DEF GoodCopy, WellPlaced
<1>4. Counted(d)'
  <2>1. Subject(d.body) \in Subjects /\ failed[Subject(d.body)] \in Nat
    BY EveryCopy
  <2>2. failed'[Subject(d.body)] \in Nat /\ failed'[Subject(d.body)] >= failed[Subject(d.body)]
    BY <2>1
  <2> QED BY <1>1, <2>1, <2>2 DEF GoodCopy, Counted
<1>5. Delivered(d)'
  BY DEF Delivered
<1> QED BY <1>2, <1>3, <1>4, <1>5 DEF GoodCopy

\* A step keeps the invariant if the copies it makes are good and what was over
\* or waiting is kept.
LEMMA StepKeeps ==
  ASSUME Reasonable, IInv, load' = load, sent' = sent, table \subseteq table', abandoned \subseteq abandoned',
         tasks' \in [Tasks -> [status : Statuses, results : Nat, linked : Nat]],
         link' \in [Workers -> {"up", "down", "deaf"}], channel' \in [Workers -> Nat],
         failed' \in [Subjects -> Nat], \A s \in Subjects : failed'[s] >= failed[s],
         \A d \in copies' : GoodCopy(d)',
         \A s \in SentOnes : Over(s) \/ (\E c \in copies : Subject(c.body) = s /\ Waiting(c)) => KeptOne(s)'
  PROVE  IInv'
<1>1. Types'
  BY DEF IInv, Types
<1>2. ASSUME NEW s \in SentOnes PROVE KeptOne(s)'
  <2>1. s \in Subjects
    BY SubjectType DEF SentOnes, IInv, Types
  <2>2. failed[s] \in Nat /\ failed'[s] \in Nat /\ failed'[s] >= failed[s] /\ RetryLimit \in Nat
    BY <2>1 DEF IInv, Types, Reasonable
  <2>3. KeptOne(s)
    BY DEF IInv, Kept
  <2> QED BY <2>2, <2>3 DEF KeptOne
<1> QED BY <1>1, <1>2 DEF IInv, Kept, SentOnes

\* A step that replaces one copy by others of the same message keeps the
\* invariant, if what was kept of that message still is.
LEMMA ReplaceKeeps ==
  ASSUME Reasonable, IInv, NEW c \in copies, NEW D,
         copies' = (copies \ {c}) \cup D, load' = load, sent' = sent,
         UNCHANGED <<link, channel, abandoned>>,
         table \subseteq table', tasks' \in [Tasks -> [status : Statuses, results : Nat, linked : Nat]],
         failed' \in [Subjects -> Nat], \A s \in Subjects : failed'[s] >= failed[s],
         \A d \in D : GoodCopy(d)' /\ d.body = c.body,
         \A s \in SentOnes \ {Subject(c.body)} : Over(s) => Over(s)',
         Waiting(c) \/ Over(Subject(c.body)) =>
           \/ Over(Subject(c.body))' \/ failed'[Subject(c.body)] > RetryLimit
           \/ \E d \in D : Waiting(d)'
  PROVE  IInv'
<1>1. ASSUME NEW d \in copies PROVE GoodCopy(d)'
  <2>1. Delivered(d)'
    BY DEF IInv, Types, GoodCopy, Delivered
  <2> QED BY <2>1, StillGood
<1>2. \A d : Waiting(d) <=> Waiting(d)'
  BY DEF Waiting, Held
<1>3. ASSUME NEW s \in SentOnes, Over(s) \/ \E d \in copies : Subject(d.body) = s /\ Waiting(d)
      PROVE  KeptOne(s)'
  <2>1. CASE s # Subject(c.body)
    BY <1>2, <1>3, <2>1 DEF KeptOne
  <2>2. CASE s = Subject(c.body) /\ \E d \in copies \ {c} : Subject(d.body) = s /\ Waiting(d)
    BY <1>2, <2>2 DEF KeptOne
  <2>3. CASE s = Subject(c.body) /\ (Waiting(c) \/ Over(s))
    BY <2>3 DEF KeptOne
  <2> QED BY <1>3, <2>1, <2>2, <2>3
<1>4. /\ link' \in [Workers -> {"up", "down", "deaf"}] /\ channel' \in [Workers -> Nat]
      /\ abandoned \subseteq abandoned'
  BY DEF IInv, Types
<1>5. \A d \in copies' : GoodCopy(d)'
  BY <1>1
<1> QED BY <1>3, <1>4, <1>5, StepKeeps

\* A message that is sent waits to be handled.
LEMMA SendKeeps ==
  ASSUME Reasonable, IInv, NEW b \in load \ sent, sent' = sent \cup {b},
         copies' = copies \cup {Copy(b, 1, "queue")},
         UNCHANGED <<load, table, tasks, failed, netVars, lossVars>>
  PROVE  IInv'
<1>0. PICK d : d = Copy(b, 1, "queue")
  OBVIOUS
<1>1. CopyOf(d)' /\ d.body = b /\ d.count = 1 /\ d.at = "queue" /\ d.by = Nobody /\ ~d.acked
  BY <1>0 DEF Copy, CopyOf, Places, Reasonable
<1>2. Subject(b) \in Subjects /\ failed[Subject(b)] \in Nat
  BY SubjectType DEF IInv, Types
<1>3. GoodCopy(d)'
  BY <1>1, <1>2 DEF GoodCopy, WellPlaced, Counted, Failing, Delivered, KeptEvents, Ended
<1>4. ASSUME NEW c \in copies PROVE GoodCopy(c)'
  BY DEF IInv, Types, GoodCopy, CopyOf, WellPlaced, Counted, Delivered, CanRetry, netVars
<1>5. copies' = copies \cup {d}
  BY <1>0
<1>6. Types'
  BY <1>3, <1>4, <1>5 DEF IInv, Types, netVars
<1>7. KeptOne(Subject(b))'
  BY <1>1, <1>5 DEF KeptOne, Waiting
<1>8. \A s \in SentOnes : KeptOne(s)'
  BY <1>5 DEF IInv, Kept, KeptOne, Over, Waiting, Held, netVars, lossVars
<1> QED BY <1>6, <1>7, <1>8 DEF IInv, Kept, SentOnes

\* Creating a task changes nothing for those that were sent.
LEMMA CreateTaskKeeps ==
  ASSUME Reasonable, IInv, NEW t \in load, CreateTask(t)
  PROVE  IInv'
<1>1. t \in Tasks /\ UNCHANGED <<load, sent, copies, table, failed, link, channel, abandoned>>
      /\ tasks' = [tasks EXCEPT ![t].status = "PENDING"] /\ tasks[t].status = "none"
  BY SubjectType DEF CreateTask, IInv, Types, Tasks, netVars, lossVars
<1>2. tasks' \in [Tasks -> [status : Statuses, results : Nat, linked : Nat]]
  BY <1>1 DEF IInv, Types, Statuses
<1>3. \A s \in SentOnes : Over(s) => Over(s)'
  <2>1. \A s \in Tasks \ {t} : tasks'[s] = tasks[s]
    BY <1>1 DEF IInv, Types
  <2>2. \A s \in SentOnes \ Keys : s \in Tasks
    BY SubjectType DEF SentOnes, IInv, Types, Subjects
  <2> QED BY <1>1, <2>1, <2>2 DEF Over
<1>4. Types'
  <2>1. ASSUME NEW c \in copies PROVE GoodCopy(c)'
    BY <1>1 DEF IInv, Types, GoodCopy, CopyOf, WellPlaced, Counted, Delivered, CanRetry
  <2> QED BY <1>1, <1>2, <2>1 DEF IInv, Types
<1>5. Kept'
  BY <1>1, <1>3 DEF IInv, Kept, KeptOne, SentOnes, Waiting, Held
<1> QED BY <1>4, <1>5 DEF IInv

\* A copy changes its place, while nothing else does but the table and what
\* PricingEmitter is to do.
LEMMA MoveKeeps ==
  ASSUME Reasonable, IInv, NEW c \in copies, NEW d,
         copies' = (copies \ {c}) \cup {d}, UNCHANGED <<load, sent, tasks, failed, link, channel, abandoned>>,
         table \subseteq table',
         CopyOf(d), d.body = c.body, d.count = c.count, d.by # Nobody => Delivered(d), WellPlaced(d)',
         Failing(d) => Failing(c),
         Waiting(c) => Waiting(d) \/ Over(Subject(c.body))'
  PROVE  IInv'
<1>0. PICK D : D = {d}
  OBVIOUS
<1>1. GoodCopy(d)'
  <2>1. Counted(c)
    BY EveryCopy DEF GoodCopy
  <2>2. Counted(d)'
    BY <2>1 DEF Counted
  <2>3. CopyOf(d)' /\ Delivered(d)'
    BY DEF CopyOf, Delivered
  <2> QED BY <2>2, <2>3 DEF GoodCopy
<1>2. \A s : Over(s) => Over(s)'
  BY DEF Over
<1>3. /\ failed' \in [Subjects -> Nat] /\ \A s \in Subjects : failed'[s] >= failed[s]
      /\ tasks' \in [Tasks -> [status : Statuses, results : Nat, linked : Nat]]
  <2>1. failed \in [Subjects -> Nat] /\ failed' = failed
    BY DEF IInv, Types
  <2>2. tasks \in [Tasks -> [status : Statuses, results : Nat, linked : Nat]] /\ tasks' = tasks
    BY DEF IInv, Types
  <2> QED BY <2>1, <2>2
<1>4. \A e \in D : GoodCopy(e)' /\ e.body = c.body
  BY <1>0, <1>1
<1>5. Waiting(c) \/ Over(Subject(c.body)) =>
        \/ Over(Subject(c.body))' \/ failed'[Subject(c.body)] > RetryLimit
        \/ \E e \in D : Waiting(e)'
  BY <1>0, <1>2 DEF Waiting, Held
<1>6. load' = load /\ sent' = sent /\ \A s \in SentOnes \ {Subject(c.body)} : Over(s) => Over(s)'
  BY <1>2
<1>7. copies' = (copies \ {c}) \cup D
  BY <1>0
<1> QED BY <1>3, <1>4, <1>5, <1>6, <1>7, ReplaceKeeps, Zenon

\* A copy that is moved to another place.
LEMMA PlaceKeeps ==
  ASSUME Reasonable, IInv, NEW c \in copies, NEW at \in Places, copies' = Moved(c, at),
         UNCHANGED <<load, sent, tasks, failed, link, channel, abandoned>>, table \subseteq table',
         \A d : d.body = c.body /\ d.count = c.count /\ d.at = at /\ d.by = c.by /\ d.of = c.of /\ d.acked = c.acked =>
           WellPlaced(d)' /\ (Failing(d) => Failing(c)) /\ (Waiting(c) => Waiting(d) \/ Over(Subject(c.body))')
  PROVE  IInv'
<1>1. PICK d : d = [c EXCEPT !.at = at]
  OBVIOUS
<1>2. CopyOf(c) /\ Delivered(c)
  BY EveryCopy DEF GoodCopy
<1>3. /\ CopyOf(d) /\ d.body = c.body /\ d.count = c.count /\ d.at = at
      /\ d.by = c.by /\ d.of = c.of /\ d.acked = c.acked
  BY <1>1, <1>2, MovedCopy
<1>4. WellPlaced(d)' /\ (Failing(d) => Failing(c)) /\ (Waiting(c) => Waiting(d) \/ Over(Subject(c.body))')
  BY <1>3
<1>5. d.by # Nobody => Delivered(d)
  BY <1>2, <1>3 DEF Delivered
<1>6. copies' = (copies \ {c}) \cup {d}
  BY <1>1 DEF Moved
<1> QED BY <1>3, <1>4, <1>5, <1>6, MoveKeeps, Zenon

\* The broker delivers, and gives back what waited for its retry.
LEMMA BrokerKeeps ==
  ASSUME Reasonable, IInv, NEW c \in copies, RetryPeriodEnds(c) \/ \E w \in Workers : Deliver(w, c)
  PROVE  IInv'
<1>1. GoodCopy(c)
  BY EveryCopy
<1>2. CASE RetryPeriodEnds(c)
  <2>1. /\ copies' = Moved(c, "queue") /\ c.at = "retry" /\ "queue" \in Places /\ table \subseteq table'
        /\ UNCHANGED <<load, sent, tasks, failed, link, channel, abandoned>>
    BY <1>2 DEF RetryPeriodEnds, netVars, dbVars, lossVars, Places
  <2>2. c.by = Nobody /\ ~c.acked
    BY <1>1, <2>1 DEF GoodCopy, WellPlaced
  <2>3. ASSUME NEW d, d.by = c.by, d.at = "queue", d.acked = c.acked
        PROVE  WellPlaced(d)' /\ ~Failing(d) /\ Waiting(d)
    BY <2>2, <2>3 DEF WellPlaced, Waiting, Failing, KeptEvents
  <2> QED BY <2>1, <2>3, PlaceKeeps
<1>3. ASSUME NEW w \in Workers, Deliver(w, c) PROVE IInv'
  <2>1. PICK d : d = [c EXCEPT !.at = "received", !.by = w, !.of = channel[w]]
    OBVIOUS
  <2>2. /\ c.at = "queue" /\ link[w] = "up" /\ copies' = (copies \ {c}) \cup {d} /\ table' = table
        /\ UNCHANGED <<load, sent, tasks, failed, link, channel, abandoned>>
    BY <1>3, <2>1 DEF Deliver, netVars, dbVars, lossVars
  <2>3. CopyOf(c) /\ ~c.acked /\ w # Nobody /\ channel[w] \in Nat /\ w \in Workers \cup {Nobody} /\ "received" \in Places
    BY <1>1, <2>2 DEF GoodCopy, WellPlaced, Reasonable, IInv, Types, Places
  <2>4. /\ CopyOf(d) /\ d.body = c.body /\ d.count = c.count /\ d.at = "received"
        /\ d.by = w /\ d.of = channel[w] /\ ~d.acked
    BY <2>1, <2>3 DEF CopyOf
  <2>5. WellPlaced(d)' /\ ~Failing(d)
    BY <2>3, <2>4 DEF WellPlaced, Failing, KeptEvents
  <2>6. Waiting(d)
    BY <2>3, <2>4 DEF Waiting, Held
  <2>7. Delivered(d)
    BY <2>2, <2>3, <2>4 DEF Delivered
  <2>8. table \subseteq table'
    BY <2>2
  <2> QED BY <2>2, <2>4, <2>5, <2>6, <2>7, <2>8, MoveKeeps
<1> QED BY <1>2, <1>3

\* A copy that is gone is not missed, when what it is about is over or the copy
\* was waiting for nothing.
LEMMA RemovalKeeps ==
  ASSUME Reasonable, IInv, NEW c \in copies, copies' = copies \ {c},
         UNCHANGED <<load, sent, table, tasks, failed, link, channel, abandoned>>,
         Waiting(c) => Over(Subject(c.body))
  PROVE  IInv'
<1>0. PICK D : D = {}
  OBVIOUS
<1>1. /\ failed' \in [Subjects -> Nat] /\ \A s \in Subjects : failed'[s] >= failed[s]
      /\ tasks' \in [Tasks -> [status : Statuses, results : Nat, linked : Nat]]
      /\ load' = load /\ sent' = sent /\ table \subseteq table'
  BY DEF IInv, Types
<1>2. \A s : Over(s)' <=> Over(s)
  BY DEF Over
<1>3. \A s \in SentOnes \ {Subject(c.body)} : Over(s) => Over(s)'
  BY <1>2
<1>4. \A d \in D : GoodCopy(d)' /\ d.body = c.body
  BY <1>0
<1>5. Waiting(c) \/ Over(Subject(c.body)) =>
        \/ Over(Subject(c.body))' \/ failed'[Subject(c.body)] > RetryLimit
        \/ \E d \in D : Waiting(d)'
  BY <1>2
<1>6. copies' = (copies \ {c}) \cup D
  BY <1>0
<1> QED BY <1>1, <1>3, <1>4, <1>5, <1>6, ReplaceKeeps, Zenon

\* A record whose writer has found or created it is over.
LEMMA RecordOver ==
  ASSUME NEW c, c.at \in {"created", "found", "announced"} \cup KeptEvents, WellPlaced(c)
  PROVE  Over(Subject(c.body)) /\ Subject(c.body) = Key[c.body] /\ Key[c.body] \in Keys
  BY DEF WellPlaced, Over, Subject, IsTask, Keys, Range

\* Whoever has ended waits for nothing.
LEMMA EndedIsOver ==
  ASSUME NEW c, c.at \in Ended
  PROVE  ~Waiting(c)
  BY DEF Ended, Waiting

\* The acknowledgement of what the broker waits for, or of nothing.
LEMMA AcknowledgeKeeps ==
  ASSUME Reasonable, IInv, NEW c \in copies, Acknowledge(c)
  PROVE  IInv'
<1>1. /\ ~Waiting(c) /\ copies' = copies \ {c}
      /\ UNCHANGED <<load, sent, table, tasks, failed, link, channel, abandoned>>
  BY EndedIsOver DEF Acknowledge, netVars, dbVars, lossVars
<1> QED BY <1>1, RemovalKeeps

\* The event of a record, or what a process published without hearing of it.
LEMMA AnnounceKeeps ==
  ASSUME Reasonable, IInv, NEW c \in copies, Announce(c) \/ Unconfirmed(c)
  PROVE  IInv'
<1>1. GoodCopy(c) /\ (c.at \in {"queue", "retry"} <=> c.by = Nobody)
  BY EveryCopy DEF GoodCopy, WellPlaced
<1>2. CASE Announce(c)
  <2>1. PICK at \in {"announced", "event kept", "done"} : copies' = Moved(c, at)
    BY <1>2 DEF Announce
  <2>2. /\ c.at \in {"created", "found"} /\ at \in Places /\ table \subseteq table'
        /\ UNCHANGED <<load, sent, tasks, failed, link, channel, abandoned>>
    BY <1>2 DEF Announce, netVars, dbVars, lossVars, Places, Ended, KeptPlaces, KeptEvents
  <2>3. ~IsTask(c.body) /\ Key[c.body] \in table /\ c.by # Nobody /\ Over(Subject(c.body))'
    <3>1. Over(Subject(c.body)) /\ table' = table /\ tasks' = tasks
      BY <1>1, <1>2, <2>2, RecordOver DEF GoodCopy, Announce, dbVars
    <3> QED BY <1>1, <2>2, <3>1 DEF GoodCopy, WellPlaced, Over
  <2>4. ASSUME NEW d, d.body = c.body, d.by = c.by, d.at = at
        PROVE  WellPlaced(d)' /\ ~Failing(d)
    BY <2>2, <2>3, <2>4 DEF WellPlaced, Failing
  <2> QED BY <2>1, <2>2, <2>3, <2>4, PlaceKeeps
<1>3. CASE Unconfirmed(c)
  <2>1. PICK at \in {"event again", "retry kept"} :
          /\ copies' = Moved(c, at)
          /\ at = "event again" => c.at = "announced"
          /\ at = "retry kept" => c.at = "retried"
    BY <1>3 DEF Unconfirmed
  <2>2. /\ c.at \in Ended /\ at \in Places /\ table \subseteq table'
        /\ UNCHANGED <<load, sent, tasks, failed, link, channel, abandoned>>
    BY <1>3, <2>1 DEF Unconfirmed, netVars, dbVars, lossVars, Places, Ended, KeptPlaces, KeptEvents
  <2>3. ~Waiting(c) /\ c.by # Nobody
    <3>1. ~Waiting(c)
      BY <2>2, EndedIsOver
    <3>2. c.at \notin {"queue", "retry"}
      BY <2>2 DEF Ended
    <3> QED BY <1>1, <3>1, <3>2
  <2>4. ASSUME NEW d, d.body = c.body, d.count = c.count, d.by = c.by, d.at = at, d.acked = c.acked
        PROVE  WellPlaced(d)' /\ (Failing(d) => Failing(c))
    <3>1. CASE at = "event again"
      <4>1. ~IsTask(c.body) /\ Key[c.body] \in table' /\ ~Failing(d)
        BY <1>1, <2>1, <2>2, <2>4, <3>1 DEF GoodCopy, WellPlaced, Failing
      <4> QED BY <2>3, <2>4, <3>1, <4>1 DEF WellPlaced
    <3>2. CASE at = "retry kept"
      <4>1. Failing(c) /\ CanRetry(c)
        BY <1>1, <2>1, <3>2 DEF GoodCopy, WellPlaced, Failing
      <4>2. CanRetry(d)
        BY <2>4, <4>1 DEF CanRetry
      <4> QED BY <2>3, <2>4, <3>2, <4>1, <4>2 DEF WellPlaced, KeptEvents
    <3> QED BY <3>1, <3>2
  <2> QED BY <2>1, <2>2, <2>3, <2>4, PlaceKeeps
<1> QED BY <1>2, <1>3

\* What a process kept is published.
LEMMA FlushKeeps ==
  ASSUME Reasonable, IInv, NEW c \in copies, Flush(c)
  PROVE  IInv'
<1>1. GoodCopy(c) /\ WellPlaced(c) /\ c.at \in KeptPlaces
  BY EveryCopy DEF GoodCopy, Flush
<1>2. UNCHANGED <<load, sent, table, tasks, failed, link, channel, abandoned>>
  BY DEF Flush, netVars, dbVars, lossVars
<1>3. CASE c.at # "retry kept"
  <2>1. c.at \in KeptEvents
    BY <1>1, <1>3 DEF KeptPlaces
  <2>2. Over(Subject(c.body))
    BY <1>1, <2>1, RecordOver
  <2>3. copies' = copies \ {c}
    BY <1>3 DEF Flush
  <2> QED BY <1>2, <2>2, <2>3, RemovalKeeps
<1>4. CASE c.at = "retry kept"
  <2>1. PICK d : d = Copy(c.body, c.count + 1, "retry")
    OBVIOUS
  <2>2. c.body \in sent /\ c.count \in Nat /\ RetryLimit \in Nat /\ Failing(c) /\ CanRetry(c) /\ "retry" \in Places
    BY <1>1, <1>4, EveryCopy DEF WellPlaced, Failing, Places
  <2>3. c.count + 1 \in 1..(RetryLimit + 1)
    BY <2>2 DEF CanRetry
  <2>4. CopyOf(d) /\ d.body = c.body /\ d.count = c.count + 1 /\ d.at = "retry" /\ d.by = Nobody /\ ~d.acked
    BY <2>1, <2>2, <2>3, NewCopy
  <2>5. failed[Subject(c.body)] >= c.count /\ failed[Subject(c.body)] \in Nat
    BY <1>1, <2>2, EveryCopy DEF GoodCopy, Counted
  <2>6. ~Failing(d)
    BY <2>4 DEF Failing
  <2>7. Counted(d)'
    BY <1>2, <2>2, <2>4, <2>5, <2>6 DEF Counted
  <2>8. WellPlaced(d)' /\ Delivered(d)' /\ CopyOf(d)' /\ Waiting(d)'
    BY <1>2, <2>4, <2>6 DEF WellPlaced, Delivered, CopyOf, KeptEvents, Waiting
  <2>9. PICK D : D = {d}
    OBVIOUS
  <2>10. copies' = (copies \ {c}) \cup D
    BY <1>4, <2>1, <2>9 DEF Flush
  <2>11. /\ failed' \in [Subjects -> Nat] /\ \A s \in Subjects : failed'[s] >= failed[s]
         /\ tasks' \in [Tasks -> [status : Statuses, results : Nat, linked : Nat]]
         /\ load' = load /\ sent' = sent /\ table \subseteq table'
    BY <1>2 DEF IInv, Types
  <2>12. \A s \in SentOnes \ {Subject(c.body)} : Over(s) => Over(s)'
    BY <1>2 DEF Over
  <2>13. (\A e \in D : GoodCopy(e)' /\ e.body = c.body) /\ \E e \in D : Waiting(e)'
    BY <2>4, <2>7, <2>8, <2>9 DEF GoodCopy
  <2>14. UNCHANGED <<link, channel, abandoned>>
    BY <1>2
  <2> QED BY <2>10, <2>11, <2>12, <2>13, <2>14, ReplaceKeeps, Zenon
<1> QED BY <1>3, <1>4

\* The record is in the table, by this handler or by another.
LEMMA FindOrCreateKeeps ==
  ASSUME Reasonable, IInv, NEW c \in copies, FindOrCreate(c)
  PROVE  IInv'
<1>1. GoodCopy(c) /\ (c.at \in {"queue", "retry"} <=> c.by = Nobody)
  BY EveryCopy DEF GoodCopy, WellPlaced
<1>2. PICK at \in {"found", "created"} : copies' = Moved(c, at)
  BY DEF FindOrCreate
<1>3. /\ c.at = "received" /\ ~IsTask(c.body) /\ table' = table \cup {Key[c.body]} /\ at \in Places
      /\ UNCHANGED <<load, sent, tasks, failed, link, channel, abandoned>>
  BY DEF FindOrCreate, netVars, lossVars, Places
<1>4. Over(Subject(c.body))' /\ c.by # Nobody
  BY <1>1, <1>3 DEF Over, Subject, IsTask, Keys, Range
<1>5. ASSUME NEW d, d.body = c.body, d.by = c.by, d.at = at
      PROVE  WellPlaced(d)' /\ ~Failing(d)
  BY <1>3, <1>4, <1>5 DEF WellPlaced, Failing
<1>6. table \subseteq table'
  BY <1>3
<1> QED BY <1>2, <1>3, <1>4, <1>5, <1>6, PlaceKeeps

\* A copy of a handler that has failed once more.
LEMMA CountedIs ==
  ASSUME NEW c, c.count \in Nat, failed'[Subject(c.body)] \in Nat, failed'[Subject(c.body)] >= c.count
  PROVE  Counted(c)'
  BY DEF Counted

\* A handler that fails leaves a copy behind, or has used up the tries.
LEMMA RetryKeeps ==
  ASSUME Reasonable, IInv, NEW c \in copies, HandleRetry(c), c.by # Nobody,
         UNCHANGED <<load, sent, table, tasks, link, channel, abandoned>>
  PROVE  IInv'
<1>1. /\ CopyOf(c) /\ WellPlaced(c) /\ Delivered(c) /\ c.count \in Nat /\ c.body \in sent
      /\ c.by \in Workers /\ RetryLimit \in Nat /\ c.count >= 1
  BY EveryCopy DEF GoodCopy
<1>2. /\ Subject(c.body) \in Subjects /\ failed \in [Subjects -> Nat]
      /\ failed[Subject(c.body)] \in Nat /\ failed[Subject(c.body)] >= c.count - 1
  <2>1. failed \in [Subjects -> Nat]
    BY DEF IInv, Types
  <2> QED BY <2>1, EveryCopy DEF GoodCopy, Counted
<1>3. /\ failed' \in [Subjects -> Nat] /\ \A s \in Subjects : failed'[s] >= failed[s]
      /\ failed'[Subject(c.body)] >= c.count /\ failed'[Subject(c.body)] \in Nat /\ c.count \in Nat
  <2>1. failed' = [failed EXCEPT ![Subject(c.body)] = @ + 1]
    BY DEF HandleRetry
  <2>2. c.count \in Nat
    BY EveryCopy
  <2> QED BY <1>2, <2>1, <2>2
<1>4. /\ load' = load /\ sent' = sent /\ table \subseteq table'
      /\ tasks' \in [Tasks -> [status : Statuses, results : Nat, linked : Nat]]
      /\ \A s \in SentOnes \ {Subject(c.body)} : Over(s) => Over(s)'
      /\ Over(Subject(c.body)) => Over(Subject(c.body))'
  BY DEF IInv, Types, Over
<1>5. ASSUME NEW at \in {"done", "retried", "retry kept"}, CanRetry(c) \/ at = "done", NEW m, m = [c EXCEPT !.at = at]
      PROVE  GoodCopy(m)' /\ m.body = c.body /\ m.at = at /\ m.acked = c.acked
  <2>1. at \in Places
    BY DEF Places, Ended, KeptPlaces
  <2>2. /\ CopyOf(m) /\ m.body = c.body /\ m.count = c.count /\ m.at = at
        /\ m.by = c.by /\ m.of = c.of /\ m.acked = c.acked
    BY <1>1, <1>5, <2>1, MovedCopy
  <2>3. Failing(m) => CanRetry(m)
    BY <1>5, <2>2 DEF Failing, CanRetry
  <2>4. WellPlaced(m)'
    BY <2>2, <2>3 DEF WellPlaced, KeptEvents
  <2>5. Counted(m)'
    <3>1. failed'[Subject(m.body)] >= m.count /\ failed'[Subject(m.body)] \in Nat /\ m.count \in Nat
      BY <1>3, <2>2
    <3> QED BY <3>1, CountedIs
  <2>6. CopyOf(m)' /\ Delivered(m)'
    BY <1>1, <1>4, <2>2 DEF CopyOf, Delivered
  <2> QED BY <2>2, <2>4, <2>5, <2>6 DEF GoodCopy
<1>6. ASSUME NEW D, copies' = (copies \ {c}) \cup D, \A d \in D : GoodCopy(d)' /\ d.body = c.body,
             Waiting(c) => Over(Subject(c.body))' \/ failed'[Subject(c.body)] > RetryLimit \/ \E d \in D : Waiting(d)'
      PROVE  IInv'
  <2>1. UNCHANGED <<link, channel, abandoned>>
    OBVIOUS
  <2>2. Waiting(c) \/ Over(Subject(c.body)) =>
          \/ Over(Subject(c.body))' \/ failed'[Subject(c.body)] > RetryLimit
          \/ \E d \in D : Waiting(d)'
    BY <1>4, <1>6
  <2> QED BY <1>3, <1>4, <1>6, <2>1, <2>2, ReplaceKeeps, Zenon
<1>7. CASE ~CanRetry(c)
  <2>1. PICK m : m = [c EXCEPT !.at = "done"]
    OBVIOUS
  <2>3. GoodCopy(m)' /\ m.body = c.body
    BY <1>5, <2>1
  <2>4. failed'[Subject(c.body)] > RetryLimit
    <3>1. c.count > RetryLimit /\ failed'[Subject(c.body)] \in Nat
      BY <1>1, <1>2, <1>3, <1>7 DEF CanRetry
    <3> QED BY <1>1, <1>3, <3>1
  <2>5. PICK D : D = {m}
    OBVIOUS
  <2>6. copies' = (copies \ {c}) \cup D
    BY <1>7, <2>1, <2>5 DEF HandleRetry, Moved
  <2>7. \A d \in D : GoodCopy(d)' /\ d.body = c.body
    BY <2>3, <2>5
  <2> QED BY <1>6, <2>4, <2>6, <2>7
<1>8. CASE CanRetry(c) /\ link[c.by] = "up"
  <2>1. PICK m : m = [c EXCEPT !.at = "retried"]
    OBVIOUS
  <2>2. GoodCopy(m)' /\ m.body = c.body
    BY <1>5, <1>8, <2>1
  <2>3. PICK r : r = Copy(c.body, c.count + 1, "retry")
    OBVIOUS
  <2>4. CopyOf(r) /\ r.body = c.body /\ r.count = c.count + 1 /\ r.at = "retry" /\ r.by = Nobody /\ ~r.acked
    <3>1. c.count + 1 \in 1..(RetryLimit + 1) /\ "retry" \in Places
      BY <1>1, <1>8 DEF CanRetry, Places
    <3> QED BY <1>1, <2>3, <3>1, NewCopy
  <2>5. ~Failing(r)
    BY <2>4 DEF Failing
  <2>6. Counted(r)'
    BY <1>1, <1>2, <1>3, <2>4, <2>5 DEF Counted
  <2>7. WellPlaced(r)' /\ Delivered(r)' /\ CopyOf(r)' /\ Waiting(r)'
    BY <1>4, <2>4, <2>5 DEF WellPlaced, Delivered, CopyOf, KeptEvents, Waiting
  <2>8. PICK D : D = {m, r}
    OBVIOUS
  <2>9. copies' = (copies \ {c}) \cup D
    BY <1>8, <2>1, <2>3, <2>8 DEF HandleRetry, Moved
  <2>10. (\A d \in D : GoodCopy(d)' /\ d.body = c.body) /\ \E d \in D : Waiting(d)'
    BY <2>2, <2>4, <2>6, <2>7, <2>8 DEF GoodCopy
  <2> QED BY <1>6, <2>9, <2>10
<1>9. CASE CanRetry(c) /\ link[c.by] # "up"
  <2>1. PICK m : m = [c EXCEPT !.at = "retry kept"]
    OBVIOUS
  <2>2. GoodCopy(m)' /\ m.body = c.body /\ m.at = "retry kept" /\ m.acked = c.acked
    BY <1>5, <1>9, <2>1
  <2>3. PICK D : D = {m}
    OBVIOUS
  <2>4. copies' = (copies \ {c}) \cup D
    BY <1>9, <2>1, <2>3 DEF HandleRetry, Moved
  <2>5. \A d \in D : GoodCopy(d)' /\ d.body = c.body
    BY <2>2, <2>3
  <2>6. Waiting(c) => Waiting(m)'
    <3>1. ~Held(c)
      BY <1>1, <1>9 DEF Delivered, Held
    <3>2. Waiting(c) => c.acked \/ IsTask(c.body)
      BY <1>1, <3>1 DEF Waiting, WellPlaced
    <3> QED BY <2>2, <3>2 DEF Waiting
  <2> QED BY <1>6, <2>3, <2>4, <2>5, <2>6
<1> QED BY <1>7, <1>8, <1>9

\* The handler of a task goes on, or ends with a status that says so.
LEMMA TaskStepKeeps ==
  ASSUME Reasonable, IInv, NEW c \in copies, IsTask(c.body), c.by # Nobody,
         NEW at \in {"processing", "saved", "linked", "done"}, copies' = Moved(c, at),
         NEW task \in [status : Statuses, results : Nat, linked : Nat],
         tasks' = [tasks EXCEPT ![c.body] = task],
         UNCHANGED <<load, sent, table, failed, link, channel, abandoned>>,
         at = "done" => task.status \in {"COMPLETED", "ERROR"}
  PROVE  IInv'
<1>1. GoodCopy(c) /\ c.body \in Tasks /\ Subject(c.body) = c.body /\ c.body \notin Keys
  <2>1. load \in Loads
    BY DEF IInv, Types
  <2> QED BY <2>1, EveryCopy DEF Tasks, Subject
<1>2. PICK d : d = [c EXCEPT !.at = at]
  OBVIOUS
<1>3. CopyOf(d) /\ d.body = c.body /\ d.count = c.count /\ d.at = at
      /\ d.by = c.by /\ d.of = c.of /\ d.acked = c.acked
  <2>1. at \in Places
    BY DEF Places, Ended
  <2> QED BY <1>1, <1>2, <2>1, MovedCopy DEF GoodCopy
<1>4. GoodCopy(d)'
  <2>1. WellPlaced(d)' /\ ~Failing(d)
    BY <1>1, <1>3 DEF GoodCopy, WellPlaced, Failing, KeptEvents
  <2>2. Counted(d)'
    BY <1>1, <1>3, <2>1 DEF GoodCopy, Counted
  <2>3. CopyOf(d)' /\ Delivered(d)'
    BY <1>1, <1>3 DEF GoodCopy, CopyOf, Delivered
  <2> QED BY <2>1, <2>2, <2>3 DEF GoodCopy
<1>5. tasks' \in [Tasks -> [status : Statuses, results : Nat, linked : Nat]]
      /\ tasks'[c.body] = task /\ \A s \in Tasks \ {c.body} : tasks'[s] = tasks[s]
  BY <1>1 DEF IInv, Types
<1>6. \A s \in SentOnes \ {Subject(c.body)} : Over(s) => Over(s)'
  <2>1. \A s \in SentOnes \ Keys : s \in Tasks
    BY SubjectType DEF SentOnes, IInv, Types, Subjects
  <2> QED BY <1>1, <1>5, <2>1 DEF Over
<1>7. PICK D : D = {d}
  OBVIOUS
<1>8. Over(Subject(c.body))' \/ \E e \in D : Waiting(e)'
  BY <1>1, <1>3, <1>5, <1>7 DEF Over, Waiting
<1>9. copies' = (copies \ {c}) \cup D /\ \A e \in D : GoodCopy(e)' /\ e.body = c.body
  BY <1>2, <1>3, <1>4, <1>7 DEF Moved
<1>10. /\ failed' \in [Subjects -> Nat] /\ \A s \in Subjects : failed'[s] >= failed[s]
       /\ load' = load /\ sent' = sent /\ table \subseteq table' /\ UNCHANGED <<link, channel, abandoned>>
  BY DEF IInv, Types
<1> QED BY <1>5, <1>6, <1>8, <1>9, <1>10, ReplaceKeeps, Zenon

\* The four steps of a task, and the error that its handler catches.
LEMMA TaskKeeps ==
  ASSUME Reasonable, IInv, NEW c \in copies,
         Initiate(c) \/ SaveResults(c) \/ Associate(c) \/ Complete(c) \/ TaskFails(c)
  PROVE  IInv'
<1>1. IsTask(c.body) /\ c.by # Nobody /\ UNCHANGED <<link, channel, abandoned>>
  <2>1. WellPlaced(c)
    BY EveryCopy DEF GoodCopy
  <2> QED BY <2>1 DEF WellPlaced, Initiate, SaveResults, Associate, Complete, TaskFails, netVars, lossVars
<1>2. tasks[c.body] \in [status : Statuses, results : Nat, linked : Nat]
  <2>1. load \in Loads
    BY DEF IInv, Types
  <2>2. c.body \in Tasks
    BY <1>1, <2>1, EveryCopy DEF Tasks
  <2> QED BY <2>2 DEF IInv, Types
<1>3. CASE Initiate(c)
  <2>1. PICK task : task = [tasks[c.body] EXCEPT !.status = "PROCESSING"]
    OBVIOUS
  <2>2. task \in [status : Statuses, results : Nat, linked : Nat]
    BY <1>2, <2>1 DEF Statuses
  <2>3. tasks' = [tasks EXCEPT ![c.body] = task] /\ copies' = Moved(c, "processing")
        /\ UNCHANGED <<load, sent, table, failed, link, channel, abandoned>>
    BY <1>1, <1>3, <2>1 DEF Initiate
  <2> QED BY <1>1, <2>2, <2>3, TaskStepKeeps
<1>4. CASE SaveResults(c)
  <2>1. PICK task : task = [tasks[c.body] EXCEPT !.results = @ + 1]
    OBVIOUS
  <2>2. task \in [status : Statuses, results : Nat, linked : Nat]
    BY <1>2, <2>1 DEF Statuses
  <2>3. tasks' = [tasks EXCEPT ![c.body] = task] /\ copies' = Moved(c, "saved")
        /\ UNCHANGED <<load, sent, table, failed, link, channel, abandoned>>
    BY <1>1, <1>4, <2>1 DEF SaveResults
  <2> QED BY <1>1, <2>2, <2>3, TaskStepKeeps
<1>5. CASE Associate(c)
  <2>1. PICK task : task = [tasks[c.body] EXCEPT !.linked = @ + 1]
    OBVIOUS
  <2>2. task \in [status : Statuses, results : Nat, linked : Nat]
    BY <1>2, <2>1 DEF Statuses
  <2>3. tasks' = [tasks EXCEPT ![c.body] = task] /\ copies' = Moved(c, "linked")
        /\ UNCHANGED <<load, sent, table, failed, link, channel, abandoned>>
    BY <1>1, <1>5, <2>1 DEF Associate
  <2> QED BY <1>1, <2>2, <2>3, TaskStepKeeps
<1>6. CASE Complete(c)
  <2>1. PICK task : task = [tasks[c.body] EXCEPT !.status = "COMPLETED"]
    OBVIOUS
  <2>2. task \in [status : Statuses, results : Nat, linked : Nat] /\ task.status = "COMPLETED"
    BY <1>2, <2>1 DEF Statuses
  <2>3. tasks' = [tasks EXCEPT ![c.body] = task] /\ copies' = Moved(c, "done")
        /\ UNCHANGED <<load, sent, table, failed, link, channel, abandoned>>
    BY <1>1, <1>6, <2>1 DEF Complete
  <2> QED BY <1>1, <2>2, <2>3, TaskStepKeeps
<1>7. CASE TaskFails(c)
  <2>1. UNCHANGED <<load, sent, table, link, channel, abandoned>>
    BY <1>1, <1>7 DEF TaskFails
  <2>2. CASE HandleRetry(c) /\ UNCHANGED tasks
    BY <1>1, <2>1, <2>2, RetryKeeps
  <2>3. CASE tasks' = [tasks EXCEPT ![c.body].status = "ERROR"] /\ copies' = Moved(c, "done") /\ UNCHANGED failed
    <3>1. PICK task : task = [tasks[c.body] EXCEPT !.status = "ERROR"]
      OBVIOUS
    <3>2. task \in [status : Statuses, results : Nat, linked : Nat] /\ task.status = "ERROR"
      BY <1>2, <3>1 DEF Statuses
    <3>3. tasks' = [tasks EXCEPT ![c.body] = task]
      BY <2>3, <3>1
    <3> QED BY <1>1, <2>1, <2>3, <3>2, <3>3, TaskStepKeeps
  <2> QED BY <1>7, <2>2, <2>3 DEF TaskFails
<1> QED BY <1>3, <1>4, <1>5, <1>6, <1>7

\* A handler that fails before it has told anybody.
LEMMA FailsKeeps ==
  ASSUME Reasonable, IInv, NEW c \in copies, Fails(c)
  PROVE  IInv'
<1>1. HandleRetry(c) /\ UNCHANGED <<load, sent, table, tasks, link, channel, abandoned>>
  BY DEF Fails, netVars, dbVars
<1>2. c.by # Nobody
  BY EveryCopy DEF GoodCopy, WellPlaced, Fails
<1> QED BY <1>1, <1>2, RetryKeeps


\* When a worker loses a channel, what the broker was waiting for is in the
\* queue again; what else it had lives on, or is abandoned if it waited.
LEMMA LossKeeps ==
  ASSUME Reasonable, IInv, NEW w \in Workers, NEW gone \in SUBSET copies,
         copies' = (copies \ gone) \cup QueuedAgain(w), UNCHANGED <<load, sent, table, tasks, failed>>,
         channel' = [channel EXCEPT ![w] = @ + 1], link' \in [Workers -> {"up", "down", "deaf"}],
         \A v \in Workers \ {w} : link'[v] = link[v],
         abandoned \subseteq abandoned',
         \A c \in gone : c.by = w /\ (Waiting(c) /\ ~Held(c) => Subject(c.body) \in abandoned')
  PROVE  IInv'
<1>1. /\ channel \in [Workers -> Nat] /\ channel' \in [Workers -> Nat] /\ channel'[w] = channel[w] + 1
      /\ \A v \in Workers \ {w} : channel'[v] = channel[v]
  BY DEF IInv, Types
<1>2. /\ failed' \in [Subjects -> Nat] /\ \A s \in Subjects : failed'[s] >= failed[s]
      /\ tasks' \in [Tasks -> [status : Statuses, results : Nat, linked : Nat]]
      /\ load' = load /\ sent' = sent /\ table \subseteq table'
  BY DEF IInv, Types
<1>3. ASSUME NEW d \in copies PROVE GoodCopy(d)'
  <2>1. CopyOf(d) /\ Delivered(d)
    BY EveryCopy DEF GoodCopy
  <2>2. d.by # Nobody => Delivered(d)'
    <3> SUFFICES ASSUME d.by # Nobody PROVE Delivered(d)'
      OBVIOUS
    <3>1. d.by \in Workers /\ d.of \in Nat /\ channel[d.by] \in Nat /\ d.of <= channel[d.by]
      BY <1>1, <2>1 DEF CopyOf, Delivered
    <3>2. CASE d.by = w
      BY <1>1, <3>1, <3>2 DEF Delivered
    <3>3. CASE d.by # w
      BY <1>1, <2>1, <3>1, <3>3 DEF Delivered
    <3> QED BY <3>2, <3>3
  <2> QED BY <1>2, <2>2, StillGood
<1>4. ASSUME NEW c \in HeldBy(w), NEW d, d = [c EXCEPT !.at = "queue", !.by = Nobody, !.of = 0]
      PROVE  GoodCopy(d)' /\ d.body = c.body /\ Waiting(d)'
  <2>1. c \in copies /\ CopyOf(c) /\ ~c.acked /\ Counted(c) /\ "queue" \in Places
    BY EveryCopy DEF HeldBy, Held, GoodCopy, Places
  <2>2. CopyOf(d) /\ d.body = c.body /\ d.count = c.count /\ d.at = "queue" /\ d.by = Nobody /\ ~d.acked
    BY <1>4, <2>1 DEF CopyOf
  <2>3. ~Failing(d)
    BY <2>2 DEF Failing
  <2>4. Counted(d)'
    BY <2>1, <2>2, <2>3 DEF Counted
  <2>5. CopyOf(d)' /\ WellPlaced(d)' /\ Delivered(d)' /\ Waiting(d)'
    BY <2>2, <2>3 DEF CopyOf, WellPlaced, Delivered, KeptEvents, Waiting
  <2> QED BY <2>2, <2>4, <2>5 DEF GoodCopy
<1>5. \A d \in copies' : GoodCopy(d)'
  BY <1>3, <1>4 DEF QueuedAgain
<1>6. ASSUME NEW c \in copies, Waiting(c)
      PROVE  Subject(c.body) \in abandoned' \/ \E d \in copies' : d.body = c.body /\ Waiting(d)'
  <2>1. CASE c \in HeldBy(w)
    <3>1. PICK d : d = [c EXCEPT !.at = "queue", !.by = Nobody, !.of = 0]
      OBVIOUS
    <3>2. d \in copies'
      BY <2>1, <3>1 DEF QueuedAgain
    <3> QED BY <1>4, <2>1, <3>1, <3>2
  <2>2. CASE c \notin HeldBy(w) /\ c \in gone
    BY <1>6, <2>2 DEF HeldBy
  <2>3. CASE c \notin HeldBy(w) /\ c \notin gone
    <3>1. Held(c) => Held(c)'
      <4>1. Held(c) => c.by \in Workers \ {w}
        BY <2>3, EveryCopy DEF HeldBy, Held
      <4> QED BY <1>1, <4>1 DEF Held
    <3>2. Waiting(c)'
      BY <1>6, <3>1 DEF Waiting
    <3> QED BY <2>3, <3>2
  <2> QED BY <2>1, <2>2, <2>3
<1>7. ASSUME NEW s \in SentOnes, Over(s) \/ \E c \in copies : Subject(c.body) = s /\ Waiting(c)
      PROVE  KeptOne(s)'
  <2>1. Over(s) => Over(s)'
    BY DEF Over
  <2> QED BY <1>6, <1>7, <2>1 DEF KeptOne
<1> QED BY <1>1, <1>2, <1>5, <1>7, StepKeeps

\* A connection is lost, or a process dies.
LEMMA CrashKeeps ==
  ASSUME Reasonable, IInv, NEW w \in Workers, Disconnect(w) \/ Die(w)
  PROVE  IInv'
<1>1. link' = [link EXCEPT ![w] = "down"] /\ channel' = [channel EXCEPT ![w] = @ + 1]
      /\ UNCHANGED <<load, sent, table, tasks, failed>>
  BY DEF Disconnect, Die, dbVars
<1>2. link' \in [Workers -> {"up", "down", "deaf"}] /\ \A v \in Workers \ {w} : link'[v] = link[v]
  BY <1>1 DEF IInv, Types
<1>3. CASE Disconnect(w)
  <2>1. PICK gone \in SUBSET copies : gone = {}
    OBVIOUS
  <2>2. copies' = (copies \ gone) \cup QueuedAgain(w) /\ abandoned \subseteq abandoned'
    BY <1>3, <2>1 DEF Disconnect, lossVars
  <2>3. \A c \in gone : c.by = w /\ (Waiting(c) /\ ~Held(c) => Subject(c.body) \in abandoned')
    BY <2>1
  <2> QED BY <1>1, <1>2, <2>2, <2>3, LossKeeps
<1>4. CASE Die(w)
  <2>1. PICK gone \in SUBSET copies : gone = {c \in copies : c.by = w}
    OBVIOUS
  <2>2. /\ copies' = (copies \ gone) \cup QueuedAgain(w)
        /\ abandoned' = abandoned \cup {Subject(c.body) : c \in {c \in gone : Irreplaceable(c)}}
    BY <1>4, <2>1 DEF Die
  <2>3. ASSUME NEW c \in gone, Waiting(c), ~Held(c) PROVE Subject(c.body) \in abandoned'
    <3>1. c \in copies /\ c.by = w /\ w # Nobody
      BY <2>1 DEF Reasonable
    <3>2. c.at \notin {"queue", "retry"}
      BY <3>1, EveryCopy DEF GoodCopy, WellPlaced
    <3>3. IsTask(c.body) \/ c.at \notin {"processing", "saved", "linked"}
      BY <3>1, EveryCopy DEF GoodCopy, WellPlaced
    <3>4. Irreplaceable(c)
      BY <2>3, <3>2, <3>3 DEF Irreplaceable, Waiting, Ended
    <3> QED BY <2>2, <3>4
  <2>4. abandoned \subseteq abandoned' /\ \A c \in gone : c.by = w
    BY <2>1, <2>2
  <2> QED BY <1>1, <1>2, <2>2, <2>3, <2>4, LossKeeps
<1> QED BY <1>3, <1>4

\* A stale tag: the broker closes the channel, or takes it for another.
LEMMA StaleKeeps ==
  ASSUME Reasonable, IInv, NEW c \in copies, AcknowledgeStale(c)
  PROVE  IInv'
<1>1. /\ ~Waiting(c) /\ UNCHANGED <<load, sent, table, tasks, failed, abandoned>>
  BY EndedIsOver DEF AcknowledgeStale, dbVars, lossVars
<1>2. c.by \in Workers
  <2>1. c.at \notin {"queue", "retry"}
    BY DEF AcknowledgeStale, Ended
  <2> QED BY <2>1, EveryCopy DEF GoodCopy, WellPlaced
<1>3. CASE /\ link' = [link EXCEPT ![c.by] = "deaf"] /\ channel' = [channel EXCEPT ![c.by] = @ + 1]
           /\ copies' = (copies \ {c}) \cup QueuedAgain(c.by)
  <2>1. link' \in [Workers -> {"up", "down", "deaf"}] /\ \A v \in Workers \ {c.by} : link'[v] = link[v]
    BY <1>2, <1>3 DEF IInv, Types
  <2>2. PICK w \in Workers : w = c.by
    BY <1>2
  <2>3. PICK gone \in SUBSET copies : gone = {c}
    OBVIOUS
  <2>4. \A d \in gone : d.by = w /\ (Waiting(d) /\ ~Held(d) => Subject(d.body) \in abandoned')
    BY <1>1, <2>2, <2>3
  <2>5. copies' = (copies \ gone) \cup QueuedAgain(w) /\ channel' = [channel EXCEPT ![w] = @ + 1]
        /\ abandoned \subseteq abandoned'
    BY <1>1, <1>3, <2>2, <2>3
  <2> QED BY <1>1, <2>1, <2>2, <2>4, <2>5, LossKeeps
<1>4. ASSUME NEW d \in HeldBy(c.by), copies' = (copies \ {c, d}) \cup {[d EXCEPT !.acked = TRUE]}, UNCHANGED netVars
      PROVE  IInv'
  <2>1. PICK e : e = [d EXCEPT !.acked = TRUE]
    OBVIOUS
  <2>2. d \in copies /\ GoodCopy(d) /\ CopyOf(d) /\ d.by # Nobody
    BY EveryCopy DEF HeldBy, Held, GoodCopy
  <2>3. /\ CopyOf(e) /\ e.body = d.body /\ e.count = d.count /\ e.at = d.at
        /\ e.by = d.by /\ e.of = d.of /\ e.acked
    BY <2>1, <2>2 DEF CopyOf
  <2>4. UNCHANGED <<link, channel>>
    BY <1>4 DEF netVars
  <2>5. ASSUME NEW f \in copies PROVE GoodCopy(f)'
    <3>1. Delivered(f)'
      BY <2>4, EveryCopy DEF GoodCopy, Delivered
    <3>2. failed' \in [Subjects -> Nat] /\ \A s \in Subjects : failed'[s] >= failed[s]
      BY <1>1 DEF IInv, Types
    <3> QED BY <1>1, <3>1, <3>2, StillGood
  <2>6. GoodCopy(e)'
    <3>1. CopyOf(e)'
      BY <1>1, <2>3 DEF CopyOf
    <3>2. WellPlaced(d)' /\ Counted(d)' /\ Delivered(d)'
      BY <2>2, <2>5 DEF GoodCopy
    <3>3. Failing(e) <=> Failing(d)
      BY <2>3 DEF Failing
    <3>4. WellPlaced(e)'
      BY <2>2, <2>3, <3>2, <3>3 DEF WellPlaced, CanRetry
    <3>5. Counted(e)'
      BY <2>3, <3>2, <3>3 DEF Counted
    <3>6. Delivered(e)'
      BY <2>3, <3>2 DEF Delivered
    <3> QED BY <3>1, <3>4, <3>5, <3>6 DEF GoodCopy
  <2>7. \A f \in copies' : GoodCopy(f)'
    BY <1>4, <2>1, <2>5, <2>6
  <2>8. ASSUME NEW f \in copies, Waiting(f) PROVE \E g \in copies' : g.body = f.body /\ Waiting(g)'
    <3>1. CASE f = d
      <4>1. Waiting(e)'
        BY <2>3, <2>8, <3>1 DEF Waiting
      <4> QED BY <1>4, <2>1, <2>3, <3>1, <4>1
    <3>2. CASE f # d
      <4>1. f # c /\ Waiting(f)'
        BY <1>1, <2>4, <2>8 DEF Waiting, Held
      <4> QED BY <1>4, <3>2, <4>1
    <3> QED BY <3>1, <3>2
  <2>9. ASSUME NEW s \in SentOnes, Over(s) \/ \E f \in copies : Subject(f.body) = s /\ Waiting(f)
        PROVE  KeptOne(s)'
    <3>1. Over(s) => Over(s)'
      BY <1>1 DEF Over
    <3> QED BY <2>8, <2>9, <3>1 DEF KeptOne
  <2>10. /\ failed' \in [Subjects -> Nat] /\ \A s \in Subjects : failed'[s] >= failed[s]
         /\ tasks' \in [Tasks -> [status : Statuses, results : Nat, linked : Nat]]
         /\ load' = load /\ sent' = sent /\ table \subseteq table' /\ abandoned \subseteq abandoned'
         /\ link' \in [Workers -> {"up", "down", "deaf"}] /\ channel' \in [Workers -> Nat]
    BY <1>1, <2>4 DEF IInv, Types
  <2> QED BY <2>7, <2>9, <2>10, StepKeeps
<1> QED BY <1>3, <1>4 DEF AcknowledgeStale

\* A worker is connected again; no delivery of its last channel is left.
LEMMA ConnectKeeps ==
  ASSUME Reasonable, IInv, NEW w \in Workers, Connect(w)
  PROVE  IInv'
<1>1. link' = [link EXCEPT ![w] = "up"] /\ UNCHANGED <<load, sent, copies, channel, table, tasks, failed, abandoned>>
  BY DEF Connect, dbVars, lossVars
<1>2. /\ link' \in [Workers -> {"up", "down", "deaf"}] /\ link'[w] = "up"
      /\ \A v \in Workers \ {w} : link'[v] = link[v]
  BY <1>1 DEF IInv, Types
<1>3. ASSUME NEW d \in copies PROVE GoodCopy(d)'
  <2>1. GoodCopy(d) /\ d.by \in Workers \cup {Nobody}
    BY EveryCopy
  <2> QED BY <1>1, <1>2, <2>1 DEF GoodCopy, CopyOf, WellPlaced, Counted, Delivered
<1>4. Types'
  BY <1>1, <1>2, <1>3 DEF IInv, Types
<1>5. Kept'
  BY <1>1 DEF IInv, Kept, KeptOne, SentOnes, Over, Waiting, Held
<1> QED BY <1>4, <1>5 DEF IInv

\* Every step keeps the invariant.
LEMMA NextIInv == IInv /\ Reasonable /\ [Next]_vars => IInv'
<1> SUFFICES ASSUME IInv, Reasonable, [Next]_vars PROVE IInv'
  OBVIOUS
<1>1. CASE UNCHANGED <<load, sent, copies, link, channel, table, tasks, failed, abandoned>>
  BY <1>1 DEF IInv, Types, GoodCopy, CopyOf, WellPlaced, Counted, Delivered, CanRetry, Kept, KeptOne, Over, SentOnes, Waiting, Held
<1>2. ASSUME NEW c \in copies, Work(c) PROVE IInv'
  BY <1>2, BrokerKeeps, AcknowledgeKeeps, StaleKeeps, FlushKeeps, FindOrCreateKeeps, AnnounceKeeps, TaskKeeps DEF Work
<1>3. ASSUME NEW k \in Keys, EmitPrice(k) \/ EmitUnacknowledged(k) PROVE IInv'
  BY <1>1, <1>3 DEF EmitPrice, EmitUnacknowledged, netVars, dbVars, lossVars
<1>4. ASSUME NEW b \in load, PublishRecord(b) \/ SendTask(b) PROVE IInv'
  <2>1. b \in load \ sent /\ sent' = sent \cup {b} /\ copies' = copies \cup {Copy(b, 1, "queue")}
        /\ UNCHANGED <<load, table, tasks, failed, netVars, lossVars>>
    BY <1>4 DEF PublishRecord, SendTask, dbVars
  <2> QED BY <2>1, SendKeeps
<1>5. ASSUME NEW b \in load, CreateTask(b) PROVE IInv'
  BY <1>5, CreateTaskKeeps
<1>6. ASSUME NEW c \in copies, Fails(c) \/ TaskFails(c) \/ Unconfirmed(c) PROVE IInv'
  BY <1>6, FailsKeeps, TaskKeeps, AnnounceKeeps
<1>7. ASSUME NEW w \in Workers, Disconnect(w) \/ Die(w) \/ Connect(w) PROVE IInv'
  BY <1>7, CrashKeeps, ConnectKeeps
<1>8. CASE UNCHANGED vars
  BY <1>1, <1>8 DEF vars, netVars, dbVars, lossVars
<1> QED BY <1>2, <1>3, <1>4, <1>5, <1>6, <1>7, <1>8 DEF Next, Progress

\* The invariant holds in every reachable state.
THEOREM Invariant == Spec => []IInv
<1> USE ReasonableAssumption
<1>1. Init => IInv
  BY InitIInv
<1>2. IInv /\ [Next]_vars => IInv'
  BY NextIInv
<1> QED BY <1>1, <1>2, PTL DEF Spec


-----------------------------------------------------------------------------
(* The copies after a step. *)

\* Where a copy is of no concern to those who announce records or save results.
Quiet == Places \ {"created", "event kept", "saved", "linked"}

\* One copy is gone or elsewhere, in one of these places, and with the same
\* handler or just delivered; it may have left others of its message in queues.
Turned(c, places) ==
  /\ copies \ {c} \subseteq copies'
  /\ \E m : \A e \in copies' :
       \/ e \in copies \ {c}
       \/ e.body = c.body /\ e.at \in {"queue", "retry"} /\ e.by = Nobody
       \/ /\ e = m /\ e.body = c.body /\ e.at \in places
          /\ Held(e)' \/ (e.by = c.by /\ e.of = c.of /\ e.acked = c.acked)

\* Moving a copy turns it.
LEMMA MovedTurns ==
  ASSUME Reasonable, IInv, NEW c \in copies, NEW places, NEW at \in Places \cap places, copies' = Moved(c, at)
  PROVE  Turned(c, places)
<1>1. PICK d : d = [c EXCEPT !.at = at]
  OBVIOUS
<1>2. CopyOf(c)
  BY EveryCopy DEF GoodCopy
<1>3. d.body = c.body /\ d.at = at /\ d.by = c.by /\ d.of = c.of /\ d.acked = c.acked
  BY <1>1, <1>2, MovedCopy
<1>4. copies' = (copies \ {c}) \cup {d}
  BY <1>1 DEF Moved
<1> QED BY <1>3, <1>4 DEF Turned

\* A handler that fails leaves a copy that waits for its acknowledgement, and
\* perhaps one to be retried.
LEMMA RetryTurns ==
  ASSUME Reasonable, IInv, NEW c \in copies, HandleRetry(c)
  PROVE  Turned(c, Quiet) /\ \E m \in copies' : m.body = c.body
<1>1. PICK at \in {"done", "retried", "retry kept"}, more \in SUBSET {Copy(c.body, c.count + 1, "retry")} :
        copies' = Moved(c, at) \cup more
  <2>1. CASE CanRetry(c) /\ link[c.by] = "up"
    BY <2>1 DEF HandleRetry
  <2>2. CASE ~(CanRetry(c) /\ link[c.by] = "up")
    <3>1. PICK at \in {"done", "retry kept"} : copies' = Moved(c, at)
      BY <2>2 DEF HandleRetry
    <3>2. copies' = Moved(c, at) \cup {}
      BY <3>1
    <3> QED BY <3>2
  <2> QED BY <2>1, <2>2
<1>2. PICK d : d = [c EXCEPT !.at = at]
  OBVIOUS
<1>3. CopyOf(c) /\ at \in Places
  BY EveryCopy DEF GoodCopy, Places, Ended, KeptPlaces
<1>4. d.body = c.body /\ d.at = at /\ d.by = c.by /\ d.of = c.of /\ d.acked = c.acked
  BY <1>2, <1>3, MovedCopy
<1>5. PICK r : r = Copy(c.body, c.count + 1, "retry")
  OBVIOUS
<1>6. r.body = c.body /\ r.at = "retry" /\ r.by = Nobody
  BY <1>5 DEF Copy
<1>7. copies' = (copies \ {c}) \cup {d} \cup more /\ \A e \in more : e = r
  BY <1>1, <1>2, <1>5 DEF Moved
<1>8. at \in Quiet
  BY DEF Quiet, Places, Ended, KeptPlaces
<1>9. Turned(c, Quiet)
  BY <1>4, <1>6, <1>7, <1>8 DEF Turned
<1> QED BY <1>4, <1>7, <1>9

\* Steps of a copy that neither create and announce a record nor save results.
LEMMA QuietTurns ==
  ASSUME Reasonable, IInv, NEW c \in copies,
         \/ RetryPeriodEnds(c) \/ Acknowledge(c) \/ Flush(c) \/ Unconfirmed(c) \/ Fails(c)
         \/ Initiate(c) \/ Complete(c) \/ TaskFails(c) \/ \E w \in Workers : Deliver(w, c)
  PROVE  Turned(c, Quiet)
<1>1. ASSUME NEW at \in {"queue", "processing", "done", "event again", "retry kept"}, copies' = Moved(c, at)
      PROVE  Turned(c, Quiet)
  <2>1. at \in Places \cap Quiet
    BY DEF Places, Ended, KeptPlaces, KeptEvents, Quiet
  <2> QED BY <1>1, <2>1, MovedTurns
<1>2. CASE RetryPeriodEnds(c) \/ Unconfirmed(c) \/ Initiate(c) \/ Complete(c)
  BY <1>1, <1>2 DEF RetryPeriodEnds, Unconfirmed, Initiate, Complete
<1>3. CASE Acknowledge(c)
  BY <1>3 DEF Acknowledge, Turned
<1>4. CASE Flush(c)
  <2>1. PICK d : d = Copy(c.body, c.count + 1, "retry")
    OBVIOUS
  <2>2. d.body = c.body /\ d.at = "retry" /\ d.by = Nobody
    BY <2>1 DEF Copy
  <2>3. copies' = (copies \ {c}) \cup {d} \/ copies' = copies \ {c}
    BY <1>4, <2>1 DEF Flush
  <2> QED BY <2>2, <2>3 DEF Turned
<1>5. CASE HandleRetry(c)
  BY <1>5, RetryTurns
<1>6. CASE Fails(c) \/ TaskFails(c)
  BY <1>1, <1>5, <1>6 DEF Fails, TaskFails
<1>7. ASSUME NEW w \in Workers, Deliver(w, c) PROVE Turned(c, Quiet)
  <2>1. PICK d : d = [c EXCEPT !.at = "received", !.by = w, !.of = channel[w]]
    OBVIOUS
  <2>2. GoodCopy(c) /\ c.at = "queue" /\ CopyOf(c)
    BY <1>7, EveryCopy DEF Deliver, GoodCopy
  <2>3. ~c.acked /\ w # Nobody /\ channel' = channel
    BY <1>7, <2>2 DEF GoodCopy, WellPlaced, Reasonable, Deliver, netVars
  <2>4. d.body = c.body /\ d.at = "received" /\ d.by = w /\ d.of = channel[w] /\ ~d.acked
    BY <2>1, <2>2, <2>3 DEF CopyOf
  <2>5. Held(d)' /\ "received" \in Quiet
    BY <2>3, <2>4 DEF Held, Quiet, Places
  <2>6. copies' = (copies \ {c}) \cup {d}
    BY <1>7, <2>1 DEF Deliver
  <2> QED BY <2>4, <2>5, <2>6 DEF Turned
<1> QED BY <1>2, <1>3, <1>4, <1>6, <1>7

\* All of them but one.
Handled(c) == (Work(c) /\ ~AcknowledgeStale(c)) \/ Fails(c) \/ TaskFails(c) \/ Unconfirmed(c)

LEMMA HandledTurns ==
  ASSUME Reasonable, IInv, NEW c \in copies, Handled(c)
  PROVE  Turned(c, Places)
<1>1. CASE Turned(c, Quiet)
  <2>1. \A x : x \in Quiet => x \in Places
    BY DEF Quiet
  <2> QED BY <1>1, <2>1 DEF Turned
<1>2. CASE \E at \in Places : copies' = Moved(c, at)
  BY <1>2, MovedTurns
<1>3. CASE FindOrCreate(c) \/ Announce(c) \/ SaveResults(c) \/ Associate(c)
  <2>1. PICK at \in {"found", "created", "saved", "linked", "announced", "event kept", "done"} : copies' = Moved(c, at)
    BY <1>3 DEF FindOrCreate, Announce, SaveResults, Associate
  <2>2. at \in Places
    BY DEF Places, Ended, KeptPlaces, KeptEvents
  <2> QED BY <1>2, <2>1, <2>2
<1> QED BY <1>1, <1>3, QuietTurns DEF Handled, Work

\* What the broker queues again.
LEMMA AgainIsQueued ==
  ASSUME Reasonable, IInv, NEW w, NEW e \in QueuedAgain(w)
  PROVE  e.at = "queue" /\ e.by = Nobody /\ \E d \in copies : e.body = d.body
<1>1. PICK d \in HeldBy(w) : e = [d EXCEPT !.at = "queue", !.by = Nobody, !.of = 0]
  BY DEF QueuedAgain
<1>2. d \in copies /\ CopyOf(d)
  BY EveryCopy DEF HeldBy, GoodCopy
<1> QED BY <1>1, <1>2 DEF CopyOf

\* A stale tag takes its copy away, and may be that of another in this channel.
LEMMA StaleTurns ==
  ASSUME Reasonable, IInv, NEW c \in copies, AcknowledgeStale(c)
  PROVE  /\ c.by \in Workers /\ ~Held(c) /\ c.at \in Ended
         /\ \/ copies' = (copies \ {c}) \cup QueuedAgain(c.by)
            \/ \E d \in copies : \E e :
                 /\ copies' = (copies \ {c, d}) \cup {e} /\ UNCHANGED channel /\ d # c
                 /\ e # d /\ e.at = d.at /\ e.body = d.body /\ e.by = d.by /\ e.of = d.of
<1>1. c.by \in Workers
  <2>1. c.at \notin {"queue", "retry"}
    BY DEF AcknowledgeStale, Ended
  <2> QED BY <2>1, EveryCopy DEF GoodCopy, WellPlaced
<1>2. ASSUME NEW d \in HeldBy(c.by), copies' = (copies \ {c, d}) \cup {[d EXCEPT !.acked = TRUE]}, UNCHANGED netVars
      PROVE  \E f \in copies : \E e :
                 /\ copies' = (copies \ {c, f}) \cup {e} /\ UNCHANGED channel /\ f # c
                 /\ e # f /\ e.at = f.at /\ e.body = f.body /\ e.by = f.by /\ e.of = f.of
  <2>1. PICK e : e = [d EXCEPT !.acked = TRUE]
    OBVIOUS
  <2>2. d \in copies /\ CopyOf(d) /\ ~d.acked /\ d # c
    BY EveryCopy DEF HeldBy, Held, GoodCopy, AcknowledgeStale
  <2>3. e.acked /\ e.at = d.at /\ e.body = d.body /\ e.by = d.by /\ e.of = d.of
    BY <2>1, <2>2 DEF CopyOf
  <2>4. copies' = (copies \ {c, d}) \cup {e} /\ UNCHANGED channel
    BY <1>2, <2>1 DEF netVars
  <2> QED BY <2>2, <2>3, <2>4
<1> QED BY <1>1, <1>2 DEF AcknowledgeStale

-----------------------------------------------------------------------------
(* What is abandoned, and what that takes. *)

\* Who has a copy that the broker does not wait for has lost a channel, and who
\* died with it a process.
Losses ==
  /\ MaxCrashes \in Nat /\ budget \in [crashes : Int, failures : Int, acks : Int]
  /\ budget.crashes <= MaxCrashes
  /\ \A c \in copies : c.by # Nobody /\ ~Held(c) => budget.crashes <= MaxCrashes - 1
  /\ abandoned # {} => budget.crashes <= MaxCrashes - 2

\* A step that loses nothing and leaves the handlers their copies.
LEMMA LosslessKeeps ==
  ASSUME Losses, budget' \in [crashes : Int, failures : Int, acks : Int], budget'.crashes = budget.crashes,
         abandoned' = abandoned, channel' = channel,
         \A e \in copies' : e.by = Nobody \/ Held(e)' \/ \E d \in copies : e.by = d.by /\ e.of = d.of /\ e.acked = d.acked
  PROVE  Losses'
<1>1. ASSUME NEW e \in copies', e.by # Nobody, ~Held(e)' PROVE budget'.crashes <= MaxCrashes - 1
  <2>1. PICK d \in copies : e.by = d.by /\ e.of = d.of /\ e.acked = d.acked
    BY <1>1
  <2>2. d.by # Nobody /\ ~Held(d)
    BY <1>1, <2>1 DEF Held
  <2> QED BY <2>2 DEF Losses
<1> QED BY <1>1 DEF Losses

\* Steps of the handlers, and what they do to the bounds.
LEMMA HandledLosses ==
  ASSUME Reasonable, IInv, Losses, NEW c \in copies, Handled(c)
  PROVE  Losses'
<1>1. channel' = channel /\ abandoned' = abandoned
  BY DEF Handled, Work, RetryPeriodEnds, Acknowledge, Flush, FindOrCreate, Announce, Initiate, SaveResults, Associate,
         Complete, Deliver, Fails, TaskFails, Unconfirmed, netVars, lossVars
<1>2. budget' = budget \/ budget' = [budget EXCEPT !.failures = @ - 1]
  BY DEF Handled, Work, RetryPeriodEnds, Acknowledge, Flush, FindOrCreate, Announce, Initiate, SaveResults, Associate,
         Complete, Deliver, Fails, TaskFails, Unconfirmed
<1>3. budget' \in [crashes : Int, failures : Int, acks : Int] /\ budget'.crashes = budget.crashes
  BY <1>2 DEF Losses
<1>4. \A e \in copies' : e.by = Nobody \/ Held(e)' \/ \E d \in copies : e.by = d.by /\ e.of = d.of /\ e.acked = d.acked
  BY HandledTurns DEF Turned
<1> QED BY <1>1, <1>3, <1>4, LosslessKeeps

\* A connection or a process is lost.
LEMMA CrashLosses ==
  ASSUME Reasonable, IInv, Losses, NEW w \in Workers, Disconnect(w) \/ Die(w)
  PROVE  Losses'
<1>1. budget' = [budget EXCEPT !.crashes = @ - 1]
  BY DEF Disconnect, Die
<1>2. /\ budget' \in [crashes : Int, failures : Int, acks : Int] /\ budget'.crashes = budget.crashes - 1
      /\ budget.crashes \in Int /\ budget.crashes <= MaxCrashes /\ MaxCrashes \in Nat
  BY <1>1 DEF Losses
<1>3. abandoned' # {} => budget'.crashes <= MaxCrashes - 2
  <2>1. CASE Disconnect(w)
    BY <1>2, <2>1 DEF Disconnect, Losses, lossVars
  <2>2. CASE Die(w)
    <3>1. ASSUME abandoned = {}, abandoned' # {} PROVE budget.crashes <= MaxCrashes - 1
      <4>1. PICK c \in copies : c.by = w /\ Irreplaceable(c)
        BY <2>2, <3>1 DEF Die
      <4>2. c.by # Nobody /\ ~Held(c)
        BY <4>1 DEF Irreplaceable, Reasonable
      <4> QED BY <4>2 DEF Losses
    <3>2. abandoned # {} => budget.crashes <= MaxCrashes - 2
      BY DEF Losses
    <3> QED BY <1>2, <3>1, <3>2
  <2> QED BY <2>1, <2>2
<1> QED BY <1>2, <1>3 DEF Losses

\* Every step.
LEMMA NextLosses == IInv /\ Losses /\ [Next]_vars => Losses'
<1> SUFFICES ASSUME IInv, Losses, [Next]_vars PROVE Losses'
  OBVIOUS
<1>0. Reasonable
  BY ReasonableAssumption
<1>1. ASSUME NEW c \in copies, Handled(c) PROVE Losses'
  BY <1>0, <1>1, HandledLosses
<1>2. ASSUME UNCHANGED <<copies, channel, abandoned>>,
             budget' = budget \/ budget' = [budget EXCEPT !.acks = @ - 1]
      PROVE  Losses'
  <2>1. budget' \in [crashes : Int, failures : Int, acks : Int] /\ budget'.crashes = budget.crashes
    BY <1>2 DEF Losses
  <2> QED BY <1>2, <2>1, LosslessKeeps
<1>3. ASSUME NEW k \in Keys, EmitPrice(k) \/ EmitUnacknowledged(k) PROVE Losses'
  BY <1>2, <1>3 DEF EmitPrice, EmitUnacknowledged, netVars, lossVars
<1>4. ASSUME NEW b \in load, CreateTask(b) PROVE Losses'
  BY <1>2, <1>4 DEF CreateTask, netVars, lossVars
<1>5. ASSUME NEW w \in Workers, Connect(w) PROVE Losses'
  BY <1>2, <1>5 DEF Connect, lossVars
<1>6. ASSUME NEW b \in load, PublishRecord(b) \/ SendTask(b) PROVE Losses'
  <2>1. PICK d : d = Copy(b, 1, "queue")
    OBVIOUS
  <2>2. d.by = Nobody
    BY <2>1 DEF Copy
  <2>3. copies' = copies \cup {d} /\ UNCHANGED <<channel, abandoned, budget>>
    BY <1>6, <2>1 DEF PublishRecord, SendTask, netVars, lossVars
  <2>4. budget' \in [crashes : Int, failures : Int, acks : Int] /\ budget'.crashes = budget.crashes
    BY <2>3 DEF Losses
  <2> QED BY <2>2, <2>3, <2>4, LosslessKeeps
<1>7. ASSUME NEW c \in copies, AcknowledgeStale(c) PROVE Losses'
  <2>1. budget.crashes <= MaxCrashes - 1
    <3>1. c.by \in Workers /\ ~Held(c)
      BY <1>0, <1>7, StaleTurns
    <3>2. c.by # Nobody
      BY <1>0, <3>1 DEF Reasonable
    <3> QED BY <3>1, <3>2 DEF Losses
  <2>2. UNCHANGED <<budget, abandoned>>
    BY <1>7 DEF AcknowledgeStale, lossVars
  <2> QED BY <2>1, <2>2 DEF Losses
<1>8. ASSUME NEW w \in Workers, Disconnect(w) \/ Die(w) PROVE Losses'
  BY <1>0, <1>8, CrashLosses
<1>9. CASE UNCHANGED vars
  BY <1>2, <1>9 DEF vars, netVars, lossVars
<1> QED BY <1>1, <1>3, <1>4, <1>5, <1>6, <1>7, <1>8, <1>9 DEF Next, Progress, Handled

\* A task that was sent is with a worker or a queue, or its user sees how it
\* ended, or it failed too often, or was abandoned, which takes two losses.
THEOREM NoTaskForgottenHolds == Spec => []NoTaskForgotten
<1> USE ReasonableAssumption
<1>1. Init => Losses
  BY DEF Init, Losses, Reasonable
<1>2. IInv /\ Losses => NoTaskForgotten
  <2> SUFFICES ASSUME IInv, Losses, NEW t \in Tasks \cap sent
               PROVE  InHand(t) \/ Answer(t) \in {"COMPLETED", "ERROR"} \/ failed[t] > RetryLimit \/ t \in abandoned
    BY DEF NoTaskForgotten, Losses
  <2>1. Subject(t) = t /\ t \in SentOnes /\ t \notin Keys
    BY DEF Tasks, Subject, SentOnes, Reasonable
  <2>2. KeptOne(t)
    BY <2>1 DEF IInv, Kept
  <2> QED BY <2>1, <2>2 DEF KeptOne, Over, Answer, InHand
<1>3. Spec => []IInv
  BY Invariant
<1> QED BY <1>1, <1>2, <1>3, NextLosses, PTL DEF Spec

-----------------------------------------------------------------------------
(* The refinement. *)

\* A step by which no message gets into another's hand is a step of
\* RecordDelivery: some records may be given up.
LEMMA GiveUpStep ==
  ASSUME Reasonable, IInv, IInv', UNCHANGED <<sent, table, failed>>, abandoned \subseteq abandoned',
         \A e \in copies' : \E d \in copies : e.body = d.body
  PROVE  [Delivery!Next]_(Delivery!vars)
<1> DEFINE F == [k \in Keys |-> failed[k]]
           A == abandoned \cap Keys
<1>1. PICK over : over = {k \in Keys : DeliveryStatus[k] = "queued" /\ DeliveryStatus'[k] # "queued"}
  OBVIOUS
<1>2. PICK lost \in SUBSET Keys : lost = A'
  OBVIOUS
<1>3. ASSUME NEW k \in Keys
      PROVE  /\ DeliveryStatus'[k] = IF k \in over THEN "given up" ELSE DeliveryStatus[k]
             /\ k \in over => DeliveryStatus[k] = "queued" /\ (F[k] > RetryLimit \/ k \in A')
  <2>1. (k \in SentOnes)' <=> k \in SentOnes
    BY DEF SentOnes
  <2>2. InHand(k)' => InHand(k)
    BY DEF InHand
  <2>3. InHand(k) => k \in SentOnes
    BY EveryCopy DEF InHand
  <2>4. k \in SentOnes /\ k \notin table /\ ~InHand(k)' => failed[k] > RetryLimit \/ k \in abandoned'
    <3> SUFFICES ASSUME k \in SentOnes, k \notin table, ~InHand(k)' PROVE failed[k] > RetryLimit \/ k \in abandoned'
      OBVIOUS
    <3>1. KeptOne(k)'
      BY <2>1 DEF IInv, Kept
    <3> QED BY <3>1 DEF KeptOne, Over, InHand
  <2> QED BY <1>1, <2>1, <2>2, <2>3, <2>4 DEF DeliveryStatus
<1>4. DeliveryStatus' = [k \in Keys |-> IF k \in over THEN "given up" ELSE DeliveryStatus[k]]
  <2>1. DeliveryStatus' = [k \in Keys |-> DeliveryStatus'[k]]
    BY DEF DeliveryStatus
  <2> QED BY <1>3, <2>1
<1>5. F' = F /\ A' = A \cup lost /\ over \in SUBSET Keys
  BY <1>1, <1>2
<1>6. \A k \in over : DeliveryStatus[k] = "queued" /\ (F[k] > RetryLimit \/ k \in A')
  BY <1>1, <1>3
<1> QED BY <1>2, <1>4, <1>5, <1>6 DEF Delivery!Next, Delivery!GiveUp

\* What RecordDelivery sees does not change.
LEMMA NoKeyStep ==
  ASSUME \A k \in Keys : (k \in table' <=> k \in table) /\ (InHand(k)' <=> InHand(k)) /\ failed'[k] = failed[k],
         SentOnes' \cap Keys = SentOnes \cap Keys, abandoned' = abandoned
  PROVE  UNCHANGED Delivery!vars
<1>1. DeliveryStatus' = DeliveryStatus
  BY DEF DeliveryStatus
<1>2. [k \in Keys |-> failed[k]]' = [k \in Keys |-> failed[k]]
  OBVIOUS
<1> QED BY <1>1, <1>2 DEF Delivery!vars

\* A message is sent.
LEMMA SendStep ==
  ASSUME Reasonable, IInv, NEW b \in load, PublishRecord(b) \/ SendTask(b)
  PROVE  [Delivery!Next]_(Delivery!vars)
<1> DEFINE k == Subject(b)
<1>1. PICK d : d = Copy(b, 1, "queue")
  OBVIOUS
<1>2. d.body = b
  BY <1>1 DEF Copy
<1>3. copies' = copies \cup {d} /\ sent' = sent \cup {b} /\ UNCHANGED <<load, table, tasks, failed, abandoned>>
  BY <1>1 DEF PublishRecord, SendTask, dbVars, lossVars
<1>4. SentOnes' = SentOnes \cup {k} /\ InHand(k)'
  BY <1>2, <1>3 DEF SentOnes, InHand
<1>5. \A j \in Keys : j # k => (InHand(j)' <=> InHand(j))
  BY <1>2, <1>3 DEF InHand
<1>6. \A j \in Keys : j # k => DeliveryStatus'[j] = DeliveryStatus[j]
  BY <1>3, <1>4, <1>5 DEF DeliveryStatus
<1>7. CASE k \notin Keys \/ k \in table \/ InHand(k)
  <2>1. DeliveryStatus' = DeliveryStatus
    <3>1. \A j \in Keys : DeliveryStatus'[j] = DeliveryStatus[j]
      BY <1>3, <1>4, <1>6, <1>7 DEF DeliveryStatus
    <3> QED BY <3>1 DEF DeliveryStatus
  <2> QED BY <1>3, <2>1 DEF Delivery!vars
<1>8. CASE k \in Keys /\ k \notin table /\ ~InHand(k)
  <2>1. DeliveryStatus[k] \in {"unknown", "given up"} /\ DeliveryStatus'[k] = "queued"
    BY <1>3, <1>4, <1>8 DEF DeliveryStatus
  <2>2. DeliveryStatus' = [DeliveryStatus EXCEPT ![k] = "queued"]
    BY <1>6, <1>8, <2>1 DEF DeliveryStatus
  <2> QED BY <1>3, <1>8, <2>1, <2>2 DEF Delivery!Next, Delivery!Send
<1> QED BY <1>7, <1>8

\* A copy is exchanged for one of the same message.
LEMMA SameHands ==
  ASSUME NEW c \in copies, Turned(c, Places), \E m \in copies' : m.body = c.body
  PROVE  \A s : InHand(s)' <=> InHand(s)
  BY DEF Turned, InHand

\* A record is stored, or is there already.
LEMMA StoreStep ==
  ASSUME Reasonable, IInv, NEW c \in copies, FindOrCreate(c)
  PROVE  [Delivery!Next]_(Delivery!vars)
<1> DEFINE k == Key[c.body]
<1>1. k \in Keys /\ k = Subject(c.body) /\ UNCHANGED <<sent, failed, abandoned>> /\ table' = table \cup {k}
  BY DEF FindOrCreate, lossVars, Subject, IsTask, Keys, Range
<1>2. \A s : InHand(s)' <=> InHand(s)
  <2>1. Turned(c, Places)
    BY HandledTurns DEF Handled, Work, FindOrCreate, AcknowledgeStale, Ended
  <2>2. PICK at : copies' = Moved(c, at)
    BY DEF FindOrCreate
  <2>3. PICK d : d = [c EXCEPT !.at = at]
    OBVIOUS
  <2>4. d \in copies' /\ d.body = c.body
    BY <2>2, <2>3, EveryCopy DEF Moved, GoodCopy, CopyOf
  <2> QED BY <2>1, <2>4, SameHands
<1>3. SentOnes' = SentOnes
  BY <1>1 DEF SentOnes
<1>4. CASE k \in table
  BY <1>1, <1>2, <1>3, <1>4, NoKeyStep
<1>5. CASE k \notin table
  <2>1. InHand(k)
    BY <1>1 DEF InHand
  <2>2. DeliveryStatus[k] = "queued" /\ DeliveryStatus'[k] = "stored"
    BY <1>1, <1>5, <2>1 DEF DeliveryStatus
  <2>3. \A j \in Keys : j # k => DeliveryStatus'[j] = DeliveryStatus[j]
    BY <1>1, <1>2, <1>3 DEF DeliveryStatus
  <2>4. DeliveryStatus' = [DeliveryStatus EXCEPT ![k] = "stored"]
    BY <1>1, <2>2, <2>3 DEF DeliveryStatus
  <2> QED BY <1>1, <2>2, <2>4 DEF Delivery!Next, Delivery!Store
<1> QED BY <1>4, <1>5

\* What a handler that fails does to its record; a task is no record.
LEMMA FailStep ==
  ASSUME Reasonable, IInv, NEW c \in copies, HandleRetry(c), UNCHANGED <<sent, table, abandoned>>
  PROVE  [Delivery!Next]_(Delivery!vars)
<1> DEFINE k == Subject(c.body)
<1>1. \A s : InHand(s)' <=> InHand(s)
  <2>1. Turned(c, Quiet) /\ \E m \in copies' : m.body = c.body
    BY RetryTurns
  <2>2. \A x : x \in Quiet => x \in Places
    BY DEF Quiet
  <2>3. Turned(c, Places)
    BY <2>1, <2>2 DEF Turned
  <2> QED BY <2>1, <2>3, SameHands
<1>2. SentOnes' = SentOnes
  BY DEF SentOnes
<1>3. DeliveryStatus' = DeliveryStatus
  BY <1>1, <1>2 DEF DeliveryStatus
<1>4. k \in Subjects /\ failed \in [Subjects -> Nat] /\ failed' = [failed EXCEPT ![k] = @ + 1]
  BY EveryCopy DEF HandleRetry, IInv, Types
<1>5. CASE k \notin Keys
  <2>1. \A j \in Keys : failed'[j] = failed[j]
    BY <1>4, <1>5 DEF Subjects
  <2> QED BY <1>1, <1>2, <2>1, NoKeyStep
<1>6. CASE k \in Keys
  <2>1. InHand(k)
    BY DEF InHand
  <2>2. DeliveryStatus[k] \in {"queued", "stored"}
    BY <1>6, <2>1 DEF DeliveryStatus
  <2>3. [j \in Keys |-> failed[j]]' = [[j \in Keys |-> failed[j]] EXCEPT ![k] = @ + 1]
    BY <1>4, <1>6 DEF Subjects
  <2>4. Delivery!Fail(k)
    BY <1>3, <2>2, <2>3 DEF Delivery!Fail
  <2> QED BY <1>6, <2>4 DEF Delivery!Next
<1> QED BY <1>5, <1>6

\* The other steps of a copy, and a lost connection or process.
LEMMA OtherStep ==
  ASSUME Reasonable, IInv, IInv',
         \/ \E c \in copies :
              \/ Handled(c) /\ UNCHANGED <<sent, table, failed, abandoned>>
              \/ AcknowledgeStale(c)
         \/ \E w \in Workers : Disconnect(w) \/ Die(w)
  PROVE  [Delivery!Next]_(Delivery!vars)
<1>1. ASSUME NEW c \in copies, Handled(c), UNCHANGED <<sent, table, failed, abandoned>>
      PROVE  [Delivery!Next]_(Delivery!vars)
  <2>1. \A e \in copies' : \E d \in copies : e.body = d.body
    BY <1>1, HandledTurns DEF Turned
  <2>2. abandoned \subseteq abandoned'
    BY <1>1
  <2> QED BY <1>1, <2>1, <2>2, GiveUpStep
<1>2. ASSUME NEW c \in copies, AcknowledgeStale(c) PROVE [Delivery!Next]_(Delivery!vars)
  <2>1. UNCHANGED <<sent, table, failed>> /\ abandoned \subseteq abandoned'
    BY <1>2 DEF AcknowledgeStale, dbVars, lossVars
  <2>2. CASE copies' = (copies \ {c}) \cup QueuedAgain(c.by)
    BY <2>1, <2>2, AgainIsQueued, GiveUpStep
  <2>3. CASE \E d \in copies : \E e : copies' = (copies \ {c, d}) \cup {e} /\ e.body = d.body
    BY <2>1, <2>3, GiveUpStep
  <2> QED BY <1>2, <2>2, <2>3, StaleTurns
<1>3. ASSUME NEW w \in Workers, Disconnect(w) \/ Die(w) PROVE [Delivery!Next]_(Delivery!vars)
  <2>1. UNCHANGED <<sent, table, failed>> /\ abandoned \subseteq abandoned'
    BY <1>3 DEF Disconnect, Die, dbVars, lossVars
  <2>2. \A e \in copies' : e \in copies \/ e \in QueuedAgain(w)
    BY <1>3 DEF Disconnect, Die
  <2> QED BY <2>1, <2>2, AgainIsQueued, GiveUpStep
<1> QED BY <1>1, <1>2, <1>3

\* The workers, the queues and the database deliver what RecordDelivery
\* promises: a record that was sent is stored, has failed too often, or its
\* handler died when the broker did not wait for it.
THEOREM RecordsDeliveredHolds == Spec => RecordsDelivered
<1> USE ReasonableAssumption
<1>1. Init => Delivery!Init
  <2> SUFFICES ASSUME Init PROVE Delivery!Init
    OBVIOUS
  <2>1. \A k \in Keys : k \notin table /\ ~InHand(k) /\ k \notin SentOnes /\ failed[k] = 0
    BY DEF Init, InHand, SentOnes, Subjects
  <2>2. abandoned \cap Keys = {}
    BY DEF Init
  <2> QED BY <2>1, <2>2 DEF Delivery!Init, DeliveryStatus
<1>2. IInv /\ IInv' /\ [Next]_vars => [Delivery!Next]_(Delivery!vars)
  <2> SUFFICES ASSUME IInv, IInv', [Next]_vars PROVE [Delivery!Next]_(Delivery!vars)
    OBVIOUS
  <2>1. ASSUME NEW c \in copies, FindOrCreate(c) PROVE [Delivery!Next]_(Delivery!vars)
    BY <2>1, StoreStep
  <2>2. ASSUME NEW c \in copies, HandleRetry(c), Fails(c) \/ TaskFails(c) PROVE [Delivery!Next]_(Delivery!vars)
    BY <2>2, FailStep DEF Fails, TaskFails, dbVars, lossVars
  <2>3. ASSUME NEW c \in copies, Handled(c), ~FindOrCreate(c), ~(HandleRetry(c) /\ (Fails(c) \/ TaskFails(c)))
        PROVE  [Delivery!Next]_(Delivery!vars)
    <3>1. UNCHANGED <<sent, table, failed, abandoned>>
      BY <2>3 DEF Handled, Work, RetryPeriodEnds, Acknowledge, Flush, Announce, Initiate, SaveResults, Associate,
         Complete, Deliver, Fails, TaskFails, Unconfirmed, dbVars, lossVars
    <3> QED BY <2>3, <3>1, OtherStep
  <2>4. ASSUME NEW b \in load, PublishRecord(b) \/ SendTask(b) PROVE [Delivery!Next]_(Delivery!vars)
    BY <2>4, SendStep
  <2>5. ASSUME \/ \E c \in copies : AcknowledgeStale(c)
               \/ \E w \in Workers : Disconnect(w) \/ Die(w)
        PROVE  [Delivery!Next]_(Delivery!vars)
    BY <2>5, OtherStep
  <2>6. CASE UNCHANGED <<sent, copies, table, failed, abandoned>>
    BY <2>6, NoKeyStep DEF InHand, SentOnes
  <2>7. ASSUME \/ \E k \in Keys : EmitPrice(k) \/ EmitUnacknowledged(k)
               \/ \E b \in load : CreateTask(b)
               \/ \E w \in Workers : Connect(w)
        PROVE  [Delivery!Next]_(Delivery!vars)
    BY <2>6, <2>7 DEF EmitPrice, EmitUnacknowledged, CreateTask, Connect, dbVars, lossVars
  <2>8. CASE UNCHANGED vars
    BY <2>6, <2>8 DEF vars, dbVars, lossVars
  <2> QED BY <2>1, <2>2, <2>3, <2>4, <2>5, <2>7, <2>8 DEF Next, Progress, Handled
<1>3. Spec => []IInv
  BY Invariant
<1> QED BY <1>1, <1>2, <1>3, PTL DEF Spec, RecordsDelivered, Delivery!Spec

-----------------------------------------------------------------------------
(* What the users see of it. *)

\* Whoever is to announce a record.
Creator(c) == c.at \in {"created", "event kept"}
Announced(k) == pricing[k] + emitted[k] - repeated[k]

\* A record is announced by the one copy of its messages that has created it,
\* which is its creator no more once it has done so.
OneCreator ==
  /\ pricing \in [Keys -> Int] /\ emitted \in [Keys -> Int] /\ repeated \in [Keys -> Int]
  /\ \A k \in Keys : Announced(k) \in {0, 1} /\ (Announced(k) = 1 => k \in table)
  /\ \A c \in copies : Creator(c) => Announced(Key[c.body]) = 0
  /\ \A c, d \in copies : Creator(c) /\ Creator(d) /\ Key[c.body] = Key[d.body] => c = d
  /\ \A k \in (table \ silent) \cap Keys : Announced(k) = 1 \/ \E c \in copies : Creator(c) /\ Key[c.body] = k

\* Copies of a task between saveTaskResults() and setResultsAssociations().
Savers(t) == {c \in copies : c.at = "saved" /\ c.body = t}

\* Every set of results is associated once, and before its task is complete.
LinkedOne(t) ==
  /\ IsFiniteSet(Savers(t)) /\ tasks[t].linked + Cardinality(Savers(t)) <= tasks[t].results
  /\ tasks[t].status = "COMPLETED" => tasks[t].linked >= 1
  /\ \A c \in copies : c.at = "linked" /\ c.body = t => tasks[t].linked >= 1
Linked == \A t \in Tasks : LinkedOne(t)

\* No copy gets into these places, unless it takes there that of another.
Exchanged(places) ==
  \E c, g : \A e \in copies' :
    \/ e \in copies \/ e.at \notin places
    \/ e = g /\ c \in copies /\ c \notin copies' /\ c.at = g.at /\ c.body = g.body

\* Such a place is kept for as long as the copy is there.
Stay(places) ==
  \A c \in copies : c.at \in places =>
    c \in copies' \/ \E e \in copies' : e.at = c.at /\ e.body = c.body

\* Where those are that announce records or save results.
Special == {"created", "event kept", "saved", "linked"}

\* What is turned to a quiet place is exchanged for nothing.
LEMMA TurnedExchanges ==
  ASSUME NEW c \in copies, NEW P, Turned(c, P), NEW Q, P \cap Q = {}, "queue" \notin Q, "retry" \notin Q
  PROVE  Exchanged(Q) /\ (c.at \notin Q => Stay(Q))
<1>1. \A e \in copies' : e \in copies \/ e.at \notin Q
  BY DEF Turned
<1>2. Exchanged(Q)
  BY <1>1 DEF Exchanged
<1>3. c.at \notin Q => Stay(Q)
  BY DEF Turned, Stay
<1> QED BY <1>2, <1>3

\* A channel that is lost adds to the queue only.
LEMMA QueuedExchanges ==
  ASSUME Reasonable, IInv, NEW w, NEW gone \in SUBSET copies, \A c \in gone : c.at \notin Special,
         copies' = (copies \ gone) \cup QueuedAgain(w)
  PROVE  Exchanged(Special) /\ Stay(Special)
<1>1. \A e \in copies' : e \in copies \/ e.at \notin Special
  BY AgainIsQueued DEF Special
<1> QED BY <1>1 DEF Exchanged, Stay

\* A stale tag adds to the queue only, or takes a place for the same one.
LEMMA StaleExchanges ==
  ASSUME Reasonable, IInv, NEW c \in copies, AcknowledgeStale(c)
  PROVE  Exchanged(Special) /\ Stay(Special)
<1>1. c.at \notin Special
  BY DEF AcknowledgeStale, Special, Ended
<1>2. CASE copies' = (copies \ {c}) \cup QueuedAgain(c.by)
  <2>1. PICK gone \in SUBSET copies : gone = {c}
    OBVIOUS
  <2> QED BY <1>1, <1>2, <2>1, QueuedExchanges
<1>3. ASSUME NEW d \in copies, NEW e,
             copies' = (copies \ {c, d}) \cup {e}, d # c, e # d, e.at = d.at, e.body = d.body
      PROVE  Exchanged(Special) /\ Stay(Special)
  <2>1. d \notin copies'
    BY <1>3
  <2>2. Exchanged(Special)
    BY <1>3, <2>1 DEF Exchanged
  <2>3. Stay(Special)
    BY <1>1, <1>3 DEF Stay
  <2> QED BY <2>2, <2>3
<1> QED BY <1>2, <1>3, StaleTurns

-----------------------------------------------------------------------------
(* Records are announced once. *)

\* Nothing is announced, but again.
Steady ==
  /\ pricing' \in [Keys -> Int] /\ emitted' \in [Keys -> Int] /\ repeated' \in [Keys -> Int]
  /\ \A k \in Keys : Announced(k)' = Announced(k)

\* Steps by which no record gets a creator and none is announced: it keeps the
\* one it has, or that one fails or dies.
LEMMA CalmAnnounces ==
  ASSUME OneCreator, UNCHANGED table, silent \subseteq silent', Steady,
         Exchanged({"created", "event kept"}),
         \A c \in copies : Creator(c) =>
           \/ c \in copies' \/ Key[c.body] \in silent'
           \/ \E e \in copies' : Creator(e) /\ Key[e.body] = Key[c.body],
         \A c \in copies : Creator(c) => Key[c.body] \in Keys
  PROVE  OneCreator'
<1>0. PICK c, g : \A e \in copies' :
        \/ e \in copies \/ e.at \notin {"created", "event kept"}
        \/ e = g /\ c \in copies /\ c \notin copies' /\ c.at = g.at /\ c.body = g.body
  BY DEF Exchanged
<1>1. ASSUME NEW e \in copies', Creator(e)
      PROVE  e \in copies \/ (e = g /\ c \in copies /\ c \notin copies' /\ Creator(c) /\ c.body = g.body)
  BY <1>0, <1>1 DEF Creator
<1>2. \A e \in copies' : Creator(e) => \E d \in copies : Creator(d) /\ Key[d.body] = Key[e.body]
  BY <1>1
<1>3. \A e \in copies' : Creator(e) => Announced(Key[e.body])' = 0
  <2> SUFFICES ASSUME NEW e \in copies', Creator(e) PROVE Announced(Key[e.body])' = 0
    OBVIOUS
  <2>1. PICK d \in copies : Creator(d) /\ Key[d.body] = Key[e.body]
    BY <1>2
  <2>2. PICK k \in Keys : k = Key[d.body]
    BY <2>1
  <2>3. Announced(k)' = 0
    BY <2>1, <2>2 DEF OneCreator, Steady
  <2> QED BY <2>1, <2>2, <2>3 DEF Announced
<1>4. \A d, e \in copies' : Creator(d) /\ Creator(e) /\ Key[d.body] = Key[e.body] => d = e
  BY <1>1 DEF OneCreator
<1>5. \A k \in (table' \ silent') \cap Keys : Announced(k)' = 1 \/ \E e \in copies' : Creator(e) /\ Key[e.body] = k
  <2> SUFFICES ASSUME NEW k \in (table' \ silent') \cap Keys, Announced(k)' # 1
               PROVE  \E e \in copies' : Creator(e) /\ Key[e.body] = k
    OBVIOUS
  <2>1. PICK d \in copies : Creator(d) /\ Key[d.body] = k
    BY DEF OneCreator, Steady
  <2> QED BY <2>1
<1>6. \A k \in Keys : Announced(k)' \in {0, 1} /\ (Announced(k)' = 1 => k \in table')
  BY DEF OneCreator, Steady
<1> QED BY <1>3, <1>4, <1>5, <1>6 DEF OneCreator, Creator, Announced, Steady

\* What is known of a creator.
LEMMA CreatorKnown ==
  ASSUME Reasonable, IInv, NEW c \in copies, Creator(c)
  PROVE  ~IsTask(c.body) /\ Key[c.body] \in Keys /\ Key[c.body] \in table
<1>1. WellPlaced(c)
  BY EveryCopy DEF GoodCopy
<1>2. c.at \in {"created", "found", "announced"} \cup KeptEvents
  BY DEF Creator, KeptEvents
<1> QED BY <1>1, <1>2, RecordOver DEF WellPlaced

\* Where no event is published or emitted.
LEMMA SteadyIs == OneCreator /\ UNCHANGED eventVars => Steady
  BY DEF OneCreator, eventVars, Steady, Announced

\* A copy that does not become a creator, and has not been one that is missed.
LEMMA TurnAnnounces ==
  ASSUME Reasonable, IInv, OneCreator, NEW c \in copies, NEW P, Turned(c, P), "created" \notin P, "event kept" \notin P,
         UNCHANGED table, silent \subseteq silent', Steady, Creator(c) => Key[c.body] \in silent'
  PROVE  OneCreator'
<1>1. Exchanged({"created", "event kept"})
  BY TurnedExchanges
<1>2. \A d \in copies : Creator(d) => d \in copies' \/ Key[d.body] \in silent'
  BY DEF Turned
<1>3. \A d \in copies : Creator(d) => Key[d.body] \in Keys
  BY CreatorKnown
<1> QED BY <1>1, <1>2, <1>3, CalmAnnounces

\* The same for steps that leave the copies where announcements are made.
LEMMA StayAnnounces ==
  ASSUME Reasonable, IInv, OneCreator, Exchanged(Special), Stay(Special), UNCHANGED <<table, silent>>, Steady
  PROVE  OneCreator'
<1>1. Exchanged({"created", "event kept"})
  <2>1. PICK c, g : \A e \in copies' :
          \/ e \in copies \/ e.at \notin Special
          \/ e = g /\ c \in copies /\ c \notin copies' /\ c.at = g.at /\ c.body = g.body
    BY DEF Exchanged
  <2>2. \A x : x \in {"created", "event kept"} => x \in Special
    BY DEF Special
  <2>3. \A e \in copies' :
          \/ e \in copies \/ e.at \notin {"created", "event kept"}
          \/ e = g /\ c \in copies /\ c \notin copies' /\ c.at = g.at /\ c.body = g.body
    BY <2>1, <2>2
  <2> QED BY <2>3 DEF Exchanged
<1>2. ASSUME NEW c \in copies, Creator(c)
      PROVE  c \in copies' \/ \E e \in copies' : Creator(e) /\ Key[e.body] = Key[c.body]
  <2>1. c.at \in Special
    BY <1>2 DEF Creator, Special
  <2>2. c \in copies' \/ \E e \in copies' : e.at = c.at /\ e.body = c.body
    BY <2>1 DEF Stay
  <2> QED BY <1>2, <2>2 DEF Creator
<1>3. \A d \in copies : Creator(d) => Key[d.body] \in Keys
  BY CreatorKnown
<1> QED BY <1>1, <1>2, <1>3, CalmAnnounces

\* The unique index has one creator for each record.
LEMMA CreateAnnounces ==
  ASSUME Reasonable, IInv, OneCreator, NEW c \in copies, FindOrCreate(c)
  PROVE  OneCreator'
<1> DEFINE k == Key[c.body]
<1>0. /\ c.at = "received" /\ k \in Keys /\ table' = table \cup {k} /\ UNCHANGED <<pricing, emitted, repeated, silent>>
      /\ copies' = Moved(c, IF k \in table THEN "found" ELSE "created") /\ Steady
  BY SteadyIs DEF FindOrCreate, eventVars, lossVars, Keys, Range, IsTask
<1>1. CASE k \in table
  <2>1. Turned(c, {"found"})
    BY <1>0, <1>1, MovedTurns DEF Places
  <2> QED BY <1>0, <1>1, <2>1, TurnAnnounces DEF Creator
<1>2. CASE k \notin table
  <2>1. PICK d : d = [c EXCEPT !.at = "created"]
    OBVIOUS
  <2>2. copies' = (copies \ {c}) \cup {d} /\ d.body = c.body /\ d.at = "created"
    BY <1>0, <1>2, <2>1, EveryCopy DEF Moved, GoodCopy, CopyOf
  <2>3. Announced(k) = 0 /\ \A e \in copies : Creator(e) => Key[e.body] # k
    BY <1>0, <1>2, CreatorKnown DEF OneCreator
  <2>4. \A e \in copies' : Creator(e) => Announced(Key[e.body])' = 0
    BY <1>0, <2>2, <2>3 DEF OneCreator, Announced
  <2>5. \A e, f \in copies' : Creator(e) /\ Creator(f) /\ Key[e.body] = Key[f.body] => e = f
    BY <2>2, <2>3 DEF OneCreator
  <2>6. ASSUME NEW j \in (table' \ silent') \cap Keys, Announced(j)' # 1
        PROVE  \E e \in copies' : Creator(e) /\ Key[e.body] = j
    <3>1. CASE j = k
      BY <2>2, <3>1 DEF Creator
    <3>2. CASE j # k
      <4>1. PICK e \in copies : Creator(e) /\ Key[e.body] = j
        BY <1>0, <2>6, <3>2 DEF OneCreator, Announced
      <4> QED BY <1>0, <2>2, <4>1 DEF Creator
    <3> QED BY <3>1, <3>2
  <2>7. \A j \in Keys : Announced(j)' \in {0, 1} /\ (Announced(j)' = 1 => j \in table')
    BY <1>0 DEF OneCreator, Announced
  <2> QED BY <1>0, <2>4, <2>5, <2>6, <2>7 DEF OneCreator, Creator, Announced
<1> QED BY <1>1, <1>2

\* The creator publishes the event, or what it kept of it, and is it no more.
LEMMA PublishAnnounces ==
  ASSUME Reasonable, IInv, OneCreator, NEW c \in copies, Creator(c), NEW k, k = Key[c.body],
         pricing' = [pricing EXCEPT ![k] = @ + 1], UNCHANGED <<table, emitted, repeated, silent>>,
         copies \ {c} \subseteq copies', \A e \in copies' : Creator(e) => e \in copies \ {c}
  PROVE  OneCreator'
<1>1. k \in Keys /\ k \in table /\ Announced(k) = 0
  BY CreatorKnown DEF OneCreator
<1>2. /\ pricing' \in [Keys -> Int] /\ Announced(k)' = 1
      /\ \A j \in Keys : j # k => Announced(j)' = Announced(j)
  <2>1. /\ pricing \in [Keys -> Int] /\ emitted \in [Keys -> Int] /\ repeated \in [Keys -> Int]
        /\ pricing[k] + emitted[k] - repeated[k] = 0
    BY <1>1 DEF OneCreator, Announced
  <2>2. pricing' \in [Keys -> Int] /\ pricing'[k] = pricing[k] + 1 /\ \A j \in Keys : j # k => pricing'[j] = pricing[j]
    BY <1>1, <2>1
  <2>3. pricing'[k] + emitted'[k] - repeated'[k] = 1
    BY <1>1, <2>1, <2>2
  <2> QED BY <2>2, <2>3 DEF Announced
<1>3. ASSUME NEW e \in copies', Creator(e) PROVE Announced(Key[e.body])' = 0
  <2>1. e \in copies /\ Key[e.body] # k /\ Key[e.body] \in Keys
    BY <1>3, CreatorKnown DEF OneCreator
  <2>2. Announced(Key[e.body]) = 0
    BY <1>3, <2>1 DEF OneCreator
  <2> QED BY <1>2, <2>1, <2>2 DEF Announced
<1>4. \A e, f \in copies' : Creator(e) /\ Creator(f) /\ Key[e.body] = Key[f.body] => e = f
  BY DEF OneCreator
<1>5. ASSUME NEW j \in (table' \ silent') \cap Keys, Announced(j)' # 1
      PROVE  \E e \in copies' : Creator(e) /\ Key[e.body] = j
  <2>1. j # k
    BY <1>2, <1>5
  <2>2. PICK e \in copies : Creator(e) /\ Key[e.body] = j
    BY <1>2, <1>5, <2>1 DEF OneCreator
  <2> QED BY <2>1, <2>2
<1>6. \A j \in Keys : Announced(j)' \in {0, 1} /\ (Announced(j)' = 1 => j \in table')
  BY <1>1, <1>2 DEF OneCreator
<1> QED BY <1>2, <1>3, <1>4, <1>5, <1>6 DEF OneCreator, Creator, Announced

\* The writer that created a record publishes its event, or keeps it; one that
\* found it does neither.
LEMMA AnnounceAnnounces ==
  ASSUME Reasonable, IInv, OneCreator, NEW c \in copies, Announce(c)
  PROVE  OneCreator'
<1>1. /\ c.at \in {"created", "found"} /\ UNCHANGED <<table, emitted, repeated, silent>>
      /\ ~(c.at = "created" /\ link[c.by] = "up") => pricing' = pricing
  BY DEF Announce, dbVars, lossVars
<1>2. CASE c.at = "created" /\ link[c.by] = "up"
  <2>1. pricing' = [pricing EXCEPT ![Key[c.body]] = @ + 1] /\ copies' = Moved(c, "announced")
    BY <1>2 DEF Announce
  <2>2. Turned(c, {"announced"})
    BY <2>1, MovedTurns DEF Places, Ended
  <2>3. copies \ {c} \subseteq copies' /\ \A e \in copies' : Creator(e) => e \in copies \ {c}
    BY <2>2 DEF Turned, Creator
  <2> QED BY <1>1, <1>2, <2>1, <2>3, PublishAnnounces DEF Creator
<1>3. CASE c.at = "created" /\ link[c.by] # "up"
  <2>1. copies' = Moved(c, "event kept")
    BY <1>3 DEF Announce
  <2>2. PICK d : d = [c EXCEPT !.at = "event kept"]
    OBVIOUS
  <2>3. copies' = (copies \ {c}) \cup {d} /\ d.body = c.body /\ d.at = "event kept"
    BY <2>1, <2>2, EveryCopy DEF Moved, GoodCopy, CopyOf
  <2>4. Creator(c) /\ Creator(d)
    BY <1>3, <2>3 DEF Creator
  <2>5. pricing' = pricing
    BY <1>1, <1>3
  <2>6. ASSUME NEW e \in copies', Creator(e)
        PROVE  \E f \in copies : Creator(f) /\ Key[f.body] = Key[e.body] /\ (e = d <=> f = c)  /\ (e # d => f = e)
    BY <2>3, <2>4, <2>6, <1>3
  <2>7. \A e \in copies' : Creator(e) => Announced(Key[e.body])' = 0
    BY <1>1, <2>5, <2>6 DEF OneCreator, Announced
  <2>8. \A e, f \in copies' : Creator(e) /\ Creator(f) /\ Key[e.body] = Key[f.body] => e = f
    BY <2>6 DEF OneCreator
  <2>9. ASSUME NEW k \in (table' \ silent') \cap Keys, Announced(k)' # 1
        PROVE  \E e \in copies' : Creator(e) /\ Key[e.body] = k
    <3>1. PICK e \in copies : Creator(e) /\ Key[e.body] = k
      BY <1>1, <2>5, <2>9 DEF OneCreator, Announced
    <3> QED BY <2>3, <2>4, <3>1
  <2>10. \A j \in Keys : Announced(j)' \in {0, 1} /\ (Announced(j)' = 1 => j \in table')
    BY <1>1, <2>5 DEF OneCreator, Announced
  <2> QED BY <1>1, <2>5, <2>7, <2>8, <2>9, <2>10 DEF OneCreator, Creator, Announced
<1>4. CASE c.at = "found"
  <2>1. copies' = Moved(c, "done")
    BY <1>4 DEF Announce
  <2>2. Turned(c, {"done"})
    BY <2>1, MovedTurns DEF Places, Ended
  <2>3. Steady
    BY <1>1, <1>4, SteadyIs DEF eventVars
  <2> QED BY <1>1, <1>4, <2>2, <2>3, TurnAnnounces DEF Creator
<1> QED BY <1>1, <1>2, <1>3, <1>4

\* What a process kept of an event, for the first time or again.
LEMMA FlushAnnounces ==
  ASSUME Reasonable, IInv, OneCreator, NEW c \in copies, Flush(c)
  PROVE  OneCreator'
<1>1. UNCHANGED <<table, silent, emitted>> /\ Turned(c, Quiet) /\ c.at \in KeptPlaces
  BY QuietTurns DEF Flush, dbVars, lossVars
<1>2. CASE c.at = "event kept"
  <2>1. pricing' = [pricing EXCEPT ![Key[c.body]] = @ + 1] /\ repeated' = repeated /\ copies' = copies \ {c}
    BY <1>2 DEF Flush, KeptEvents
  <2> QED BY <1>1, <1>2, <2>1, PublishAnnounces DEF Creator
<1>3. CASE c.at # "event kept"
  <2>1. Steady
    <3>1. CASE c.at = "event again"
      <4>1. PICK k \in Keys : k = Key[c.body]
        <5>1. WellPlaced(c)
          BY EveryCopy DEF GoodCopy
        <5> QED BY <3>1, <5>1, RecordOver DEF KeptEvents
      <4>2. pricing' = [pricing EXCEPT ![k] = @ + 1] /\ repeated' = [repeated EXCEPT ![k] = @ + 1]
        BY <3>1, <4>1 DEF Flush, KeptEvents
      <4> QED BY <1>1, <4>2 DEF OneCreator, Steady, Announced
    <3>2. CASE c.at # "event again"
      <4>1. UNCHANGED eventVars
        BY <1>1, <1>3, <3>2 DEF Flush, KeptEvents, eventVars
      <4> QED BY <4>1, SteadyIs
    <3> QED BY <3>1, <3>2
  <2>2. ~Creator(c) /\ "created" \notin Quiet /\ "event kept" \notin Quiet
    BY <1>1, <1>3 DEF Creator, KeptPlaces, KeptEvents, Quiet
  <2> QED BY <1>1, <2>1, <2>2, TurnAnnounces
<1> QED BY <1>2, <1>3

\* The other steps of a copy.
LEMMA HandledAnnounces ==
  ASSUME Reasonable, IInv, OneCreator, NEW c \in copies, Handled(c)
  PROVE  OneCreator'
<1>1. CASE \/ RetryPeriodEnds(c) \/ Acknowledge(c) \/ Unconfirmed(c) \/ Fails(c) \/ Initiate(c) \/ Complete(c)
           \/ TaskFails(c) \/ \E w \in Workers : Deliver(w, c)
  <2>1. Turned(c, Quiet) /\ "created" \notin Quiet /\ "event kept" \notin Quiet
    BY <1>1, QuietTurns DEF Quiet
  <2>2. UNCHANGED <<table, eventVars>>
    BY <1>1 DEF RetryPeriodEnds, Acknowledge, Unconfirmed, Fails, Initiate, Complete, TaskFails, Deliver, dbVars
  <2>3. silent \subseteq silent' /\ (Creator(c) => Key[c.body] \in silent')
    <3>1. CASE Fails(c)
      BY <3>1 DEF Fails, Creator
    <3>2. CASE ~Fails(c)
      BY <1>1, <3>2 DEF RetryPeriodEnds, Acknowledge, Unconfirmed, Initiate, Complete, TaskFails, Deliver, Creator,
                        lossVars, Ended
    <3> QED BY <3>1, <3>2
  <2>4. Steady
    BY <2>2, SteadyIs
  <2> QED BY <2>1, <2>2, <2>3, <2>4, TurnAnnounces
<1>2. ASSUME NEW at \in {"saved", "linked"}, SaveResults(c) \/ Associate(c), copies' = Moved(c, at) PROVE OneCreator'
  <2>1. Turned(c, {at})
    BY <1>2, MovedTurns DEF Places
  <2>2. UNCHANGED <<table, silent>> /\ Steady /\ ~Creator(c)
    BY <1>2, SteadyIs DEF SaveResults, Associate, lossVars, Creator
  <2>3. silent \subseteq silent' /\ "created" \notin {at} /\ "event kept" \notin {at}
    BY <2>2
  <2> QED BY <2>1, <2>2, <2>3, TurnAnnounces
<1>3. CASE SaveResults(c) \/ Associate(c)
  BY <1>2, <1>3 DEF SaveResults, Associate
<1> QED BY <1>1, <1>3, CreateAnnounces, AnnounceAnnounces, FlushAnnounces DEF Handled, Work

\* Every step announces at most once what is stored.
LEMMA NextAnnounces == IInv /\ OneCreator /\ [Next]_vars => OneCreator'
<1> SUFFICES ASSUME IInv, OneCreator, [Next]_vars PROVE OneCreator'
  OBVIOUS
<1>0. Reasonable
  BY ReasonableAssumption
<1>1. ASSUME NEW c \in copies, Handled(c) PROVE OneCreator'
  BY <1>0, <1>1, HandledAnnounces
<1>2. ASSUME NEW c \in copies, AcknowledgeStale(c) PROVE OneCreator'
  <2>1. UNCHANGED <<table, silent>> /\ Steady
    BY <1>2, SteadyIs DEF AcknowledgeStale, dbVars, lossVars
  <2>2. Exchanged(Special) /\ Stay(Special)
    BY <1>0, <1>2, StaleExchanges
  <2> QED BY <1>0, <2>1, <2>2, StayAnnounces
<1>3. ASSUME NEW w \in Workers, Disconnect(w) PROVE OneCreator'
  <2>1. UNCHANGED <<table, silent>> /\ Steady
    BY <1>3, SteadyIs DEF Disconnect, dbVars, lossVars
  <2>2. PICK gone \in SUBSET copies : gone = {}
    OBVIOUS
  <2>3. copies' = (copies \ gone) \cup QueuedAgain(w) /\ \A c \in gone : c.at \notin Special
    BY <1>3, <2>2 DEF Disconnect
  <2>4. Exchanged(Special) /\ Stay(Special)
    BY <1>0, <2>3, QueuedExchanges
  <2> QED BY <1>0, <2>1, <2>4, StayAnnounces
<1>4. ASSUME NEW w \in Workers, Die(w) PROVE OneCreator'
  <2>1. UNCHANGED table /\ Steady /\ silent \subseteq silent'
    BY <1>4, SteadyIs DEF Die, dbVars
  <2>2. \A e \in copies' : e \in copies \/ e \in QueuedAgain(w)
    BY <1>4 DEF Die
  <2>3. \A e \in copies' : e \in copies \/ e.at \notin {"created", "event kept"}
    BY <1>0, <2>2, AgainIsQueued
  <2>4. Exchanged({"created", "event kept"})
    BY <2>3 DEF Exchanged
  <2>5. \A c \in copies : Creator(c) => c \in copies' \/ Key[c.body] \in silent'
    BY <1>4 DEF Die, Creator
  <2>6. \A c \in copies : Creator(c) => Key[c.body] \in Keys
    BY <1>0, CreatorKnown
  <2> QED BY <2>1, <2>4, <2>5, <2>6, CalmAnnounces
<1>5. ASSUME UNCHANGED <<table, silent>>, Steady, copies \subseteq copies', \A e \in copies' \ copies : e.at = "queue"
      PROVE  OneCreator'
  <2>1. Exchanged(Special) /\ Stay(Special)
    BY <1>5 DEF Exchanged, Stay, Special
  <2> QED BY <1>0, <1>5, <2>1, StayAnnounces
<1>6. ASSUME NEW b \in load, PublishRecord(b) \/ SendTask(b) PROVE OneCreator'
  <2>1. PICK d : d = Copy(b, 1, "queue")
    OBVIOUS
  <2>2. d.at = "queue"
    BY <2>1 DEF Copy
  <2>3. copies' = copies \cup {d} /\ UNCHANGED <<table, silent, eventVars>>
    BY <1>6, <2>1 DEF PublishRecord, SendTask, dbVars, lossVars
  <2> QED BY <1>5, <2>2, <2>3, SteadyIs
<1>7. ASSUME NEW b \in load, CreateTask(b) PROVE OneCreator'
  BY <1>5, <1>7, SteadyIs DEF CreateTask, lossVars
<1>8. ASSUME NEW w \in Workers, Connect(w) PROVE OneCreator'
  BY <1>5, <1>8, SteadyIs DEF Connect, dbVars, lossVars
<1>9. ASSUME NEW k \in Keys, EmitPrice(k) \/ EmitUnacknowledged(k) PROVE OneCreator'
  <2>1. Steady
    <3>1. /\ pricing \in [Keys -> Int] /\ emitted \in [Keys -> Int] /\ repeated \in [Keys -> Int]
      BY DEF OneCreator
    <3>2. CASE EmitPrice(k)
      <4>1. /\ pricing' = [pricing EXCEPT ![k] = @ - 1] /\ emitted' = [emitted EXCEPT ![k] = @ + 1]
            /\ repeated' = repeated
        BY <3>2 DEF EmitPrice
      <4> QED BY <3>1, <4>1 DEF Steady, Announced
    <3>3. CASE EmitUnacknowledged(k)
      <4>1. /\ repeated' = [repeated EXCEPT ![k] = @ + 1] /\ emitted' = [emitted EXCEPT ![k] = @ + 1]
            /\ pricing' = pricing
        BY <3>3 DEF EmitUnacknowledged
      <4> QED BY <3>1, <4>1 DEF Steady, Announced
    <3> QED BY <1>9, <3>2, <3>3
  <2> QED BY <1>5, <1>9, <2>1 DEF EmitPrice, EmitUnacknowledged, dbVars, lossVars
<1>10. CASE UNCHANGED vars
  BY <1>5, <1>10, SteadyIs DEF vars, dbVars, lossVars
<1> QED BY <1>1, <1>2, <1>3, <1>4, <1>6, <1>7, <1>8, <1>9, <1>10 DEF Next, Progress, Handled

\* A record's price is announced once, but for what nobody confirmed, whoever
\* repeats its message and whatever dies: never before the record is stored,
\* and always, in the end, unless its creator failed or died with the event.
THEOREM AnnouncedOnceHolds == Spec => []AnnouncedOnce
<1>1. Init => OneCreator
  BY DEF Init, OneCreator, Announced
<1>2. IInv /\ OneCreator => AnnouncedOnce
  <2> SUFFICES ASSUME IInv, OneCreator, NEW k \in Keys
               PROVE  /\ Announced(k) \in {0, 1} /\ (Announced(k) = 1 => k \in table)
                      /\ k \in table \ silent => Announced(k) = 1 \/ Announcing(k)
    BY DEF AnnouncedOnce, Announced
  <2> QED BY DEF OneCreator, Announcing, Creator
<1>3. Spec => []IInv
  BY Invariant
<1> QED BY <1>1, <1>2, <1>3, NextAnnounces, PTL DEF Spec

-----------------------------------------------------------------------------
(* Complete tasks have their results. *)

\* One copy is replaced by one that is elsewhere.
Replaced(c, d, at) == copies' = (copies \ {c}) \cup {d} /\ d.at = at /\ d.body = c.body

\* Moving a copy replaces it.
LEMMA MovedReplaces ==
  ASSUME Reasonable, IInv, NEW c \in copies, NEW at \in Places, copies' = Moved(c, at)
  PROVE  \E d : Replaced(c, d, at)
<1>1. PICK d : d = [c EXCEPT !.at = at]
  OBVIOUS
<1>2. CopyOf(c)
  BY EveryCopy DEF GoodCopy
<1>3. d.body = c.body /\ d.at = at
  BY <1>1, <1>2, MovedCopy
<1> QED BY <1>1, <1>3 DEF Replaced, Moved

\* Savers that are exchanged one for one are no more than they were.
LEMMA FewerSavers ==
  ASSUME Exchanged({"saved", "linked"}), NEW t, IsFiniteSet(Savers(t))
  PROVE  IsFiniteSet(Savers(t)') /\ Cardinality(Savers(t)') <= Cardinality(Savers(t))
         /\ Cardinality(Savers(t)) \in Nat /\ Cardinality(Savers(t)') \in Nat
<1>0. Cardinality(Savers(t)) \in Nat
  BY FS_CardinalityType
<1>1. PICK c, g : \A e \in copies' :
        \/ e \in copies \/ e.at \notin {"saved", "linked"}
        \/ e = g /\ c \in copies /\ c \notin copies' /\ c.at = g.at /\ c.body = g.body
  BY DEF Exchanged
<1>2. CASE c \in Savers(t) /\ c \notin copies'
  <2>1. Savers(t)' \subseteq (Savers(t) \ {c}) \cup {g}
    BY <1>1, <1>2 DEF Savers
  <2>2. IsFiniteSet(Savers(t) \ {c}) /\ Cardinality(Savers(t) \ {c}) = Cardinality(Savers(t)) - 1
    BY <1>2, FS_RemoveElement
  <2>3. /\ IsFiniteSet((Savers(t) \ {c}) \cup {g})
        /\ Cardinality((Savers(t) \ {c}) \cup {g}) <= Cardinality(Savers(t))
        /\ Cardinality((Savers(t) \ {c}) \cup {g}) \in Nat
    <3>1. /\ IsFiniteSet((Savers(t) \ {c}) \cup {g})
          /\ \/ Cardinality((Savers(t) \ {c}) \cup {g}) = Cardinality(Savers(t) \ {c})
             \/ Cardinality((Savers(t) \ {c}) \cup {g}) = Cardinality(Savers(t) \ {c}) + 1
      BY <2>2, FS_AddElement
    <3>2. Cardinality(Savers(t) \ {c}) \in Nat
      BY <2>2, FS_CardinalityType
    <3> QED BY <1>0, <2>2, <3>1, <3>2
  <2>4. IsFiniteSet(Savers(t)') /\ Cardinality(Savers(t)') <= Cardinality((Savers(t) \ {c}) \cup {g})
    BY <2>1, <2>3, FS_Subset
  <2>5. Cardinality(Savers(t)') \in Nat
    BY <2>4, FS_CardinalityType
  <2> QED BY <1>0, <2>3, <2>4, <2>5
<1>3. CASE ~(c \in Savers(t) /\ c \notin copies')
  <2>1. Savers(t)' \subseteq Savers(t)
    BY <1>1, <1>3 DEF Savers
  <2>2. IsFiniteSet(Savers(t)') /\ Cardinality(Savers(t)') <= Cardinality(Savers(t))
    BY <2>1, FS_Subset
  <2> QED BY <1>0, <2>2, FS_CardinalityType
<1> QED BY <1>2, <1>3

\* Steps that neither save, associate nor complete.
LEMMA QuietLinks ==
  ASSUME IInv, Linked, Exchanged({"saved", "linked"}),
         \A t \in Tasks : /\ tasks'[t].linked = tasks[t].linked /\ tasks'[t].results = tasks[t].results
                          /\ tasks'[t].status = "COMPLETED" => tasks[t].status = "COMPLETED"
  PROVE  Linked'
<1> SUFFICES ASSUME NEW t \in Tasks PROVE LinkedOne(t)'
  BY DEF Linked
<1>1. /\ IsFiniteSet(Savers(t)) /\ tasks[t].linked + Cardinality(Savers(t)) <= tasks[t].results
      /\ tasks[t].status = "COMPLETED" => tasks[t].linked >= 1
      /\ \A c \in copies : c.at = "linked" /\ c.body = t => tasks[t].linked >= 1
  BY DEF Linked, LinkedOne
<1>2. /\ IsFiniteSet(Savers(t)') /\ Cardinality(Savers(t)') <= Cardinality(Savers(t))
      /\ Cardinality(Savers(t)) \in Nat /\ Cardinality(Savers(t)') \in Nat
  BY <1>1, FewerSavers
<1>3. tasks[t].linked \in Nat /\ tasks[t].results \in Nat
  BY DEF IInv, Types
<1>4. \A e \in copies' : e.at = "linked" /\ e.body = t => \E c \in copies : c.at = "linked" /\ c.body = t
  BY DEF Exchanged
<1> QED BY <1>1, <1>2, <1>3, <1>4 DEF LinkedOne

\* Steps of a task that is handled well.  It is the worker that has saved a
\* set of results who associates it, whoever else has meanwhile saved another.
LEMMA TaskLinks ==
  ASSUME Reasonable, IInv, Linked, NEW c \in copies,
         Initiate(c) \/ SaveResults(c) \/ Associate(c) \/ Complete(c)
  PROVE  Linked'
<1>1. c.body \in Tasks
  <2>1. WellPlaced(c) /\ c.body \in load
    BY EveryCopy DEF GoodCopy
  <2>2. IsTask(c.body)
    BY <2>1 DEF WellPlaced, Initiate, SaveResults, Associate, Complete
  <2>3. load \in Loads
    BY DEF IInv, Types
  <2> QED BY <2>1, <2>2, <2>3 DEF Tasks
<1>2. PICK t : t = c.body
  OBVIOUS
<1>3. /\ tasks[t] \in [status : Statuses, results : Nat, linked : Nat] /\ LinkedOne(t)
      /\ tasks \in [Tasks -> [status : Statuses, results : Nat, linked : Nat]]
  BY <1>1, <1>2 DEF IInv, Types, Linked
<1>4. Cardinality(Savers(t)) \in Nat
  BY <1>3, FS_CardinalityType DEF LinkedOne
<1>5. ASSUME NEW s \in Tasks, s # t PROVE LinkedOne(s)'
  <2>1. PICK d : \E at : Replaced(c, d, at)
    <3>1. PICK at \in {"processing", "saved", "linked", "done"} : copies' = Moved(c, at)
      BY DEF Initiate, SaveResults, Associate, Complete
    <3> QED BY <3>1, MovedReplaces DEF Places, Ended
  <2>2. tasks'[s] = tasks[s]
    BY <1>2, <1>3, <1>5 DEF Initiate, SaveResults, Associate, Complete
  <2>3. \A e \in copies' : e.body = s => e \in copies
    BY <1>2, <1>5, <2>1 DEF Replaced
  <2>4. Savers(s)' = Savers(s)
    BY <1>2, <1>5, <2>1 DEF Replaced, Savers
  <2>5. LinkedOne(s)
    BY DEF Linked
  <2> QED BY <2>2, <2>3, <2>4, <2>5 DEF LinkedOne
<1>6. CASE Initiate(c)
  <2>1. PICK d : Replaced(c, d, "processing")
    BY <1>6, MovedReplaces DEF Initiate, Places
  <2>2. Savers(t)' = Savers(t)
    BY <1>6, <2>1 DEF Replaced, Savers, Initiate
  <2>3. tasks'[t].status = "PROCESSING" /\ tasks'[t].linked = tasks[t].linked /\ tasks'[t].results = tasks[t].results
    BY <1>1, <1>2, <1>3, <1>6 DEF Initiate
  <2>4. \A e \in copies' : e.at = "linked" => e \in copies
    BY <2>1 DEF Replaced
  <2>5. LinkedOne(t)'
    BY <1>3, <2>2, <2>3, <2>4 DEF LinkedOne
  <2> QED BY <1>5, <2>5 DEF Linked
<1>7. CASE SaveResults(c)
  <2>1. PICK d : Replaced(c, d, "saved")
    BY <1>7, MovedReplaces DEF SaveResults, Places
  <2>2. Savers(t)' \subseteq Savers(t) \cup {d}
    BY <2>1 DEF Replaced, Savers
  <2>3. /\ IsFiniteSet(Savers(t) \cup {d})
        /\ Cardinality(Savers(t) \cup {d}) <= Cardinality(Savers(t)) + 1
        /\ Cardinality(Savers(t) \cup {d}) \in Nat
    <3>1. IsFiniteSet(Savers(t))
      BY <1>3 DEF LinkedOne
    <3>2. /\ IsFiniteSet(Savers(t) \cup {d})
          /\ \/ Cardinality(Savers(t) \cup {d}) = Cardinality(Savers(t))
             \/ Cardinality(Savers(t) \cup {d}) = Cardinality(Savers(t)) + 1
      BY <3>1, FS_AddElement
    <3> QED BY <1>4, <3>2
  <2>4. /\ IsFiniteSet(Savers(t)') /\ Cardinality(Savers(t)') <= Cardinality(Savers(t)) + 1
        /\ Cardinality(Savers(t)') \in Nat
    <3>1. IsFiniteSet(Savers(t)') /\ Cardinality(Savers(t)') <= Cardinality(Savers(t) \cup {d})
      BY <2>2, <2>3, FS_Subset
    <3> QED BY <1>4, <2>3, <3>1, FS_CardinalityType
  <2>5. /\ tasks'[t].status = tasks[t].status /\ tasks'[t].linked = tasks[t].linked
        /\ tasks'[t].results = tasks[t].results + 1
    BY <1>1, <1>2, <1>3, <1>7 DEF SaveResults
  <2>6. \A e \in copies' : e.at = "linked" => e \in copies
    BY <2>1 DEF Replaced
  <2>7. LinkedOne(t)'
    BY <1>3, <1>4, <2>4, <2>5, <2>6 DEF LinkedOne
  <2> QED BY <1>5, <2>7 DEF Linked
<1>8. CASE Associate(c)
  <2>1. PICK d : Replaced(c, d, "linked")
    BY <1>8, MovedReplaces DEF Associate, Places
  <2>2. Savers(t)' = Savers(t) \ {c} /\ c \in Savers(t)
    BY <1>2, <1>8, <2>1 DEF Replaced, Savers, Associate
  <2>3. IsFiniteSet(Savers(t)') /\ Cardinality(Savers(t)') = Cardinality(Savers(t)) - 1
    BY <1>3, <2>2, FS_RemoveElement DEF LinkedOne
  <2>4. /\ tasks'[t].results = tasks[t].results /\ tasks'[t].linked = tasks[t].linked + 1
    BY <1>1, <1>2, <1>3, <1>8 DEF Associate
  <2>5. LinkedOne(t)'
    BY <1>3, <1>4, <2>3, <2>4 DEF LinkedOne
  <2> QED BY <1>5, <2>5 DEF Linked
<1>9. CASE Complete(c)
  <2>1. PICK d : Replaced(c, d, "done")
    BY <1>9, MovedReplaces DEF Complete, Places, Ended
  <2>2. Savers(t)' = Savers(t)
    BY <1>9, <2>1 DEF Replaced, Savers, Complete
  <2>3. tasks'[t].linked = tasks[t].linked /\ tasks'[t].results = tasks[t].results /\ tasks[t].linked >= 1
    BY <1>1, <1>2, <1>3, <1>9 DEF Complete, LinkedOne
  <2>4. LinkedOne(t)'
    BY <1>3, <2>2, <2>3 DEF LinkedOne
  <2> QED BY <1>5, <2>4 DEF Linked
<1> QED BY <1>6, <1>7, <1>8, <1>9

\* Every step keeps the results with their task.
LEMMA NextLinks == IInv /\ Linked /\ [Next]_vars => Linked'
<1> SUFFICES ASSUME IInv, Linked, [Next]_vars PROVE Linked'
  OBVIOUS
<1>0. Reasonable
  BY ReasonableAssumption
<1>1. ASSUME UNCHANGED tasks, \A e \in copies' : e \in copies \/ e.at \notin {"saved", "linked"} PROVE Linked'
  <2>1. Exchanged({"saved", "linked"})
    BY <1>1 DEF Exchanged
  <2> QED BY <1>1, <2>1, QuietLinks
<1>2. ASSUME NEW c \in copies, Initiate(c) \/ SaveResults(c) \/ Associate(c) \/ Complete(c) PROVE Linked'
  BY <1>0, <1>2, TaskLinks
<1>3. ASSUME NEW c \in copies,
             \/ RetryPeriodEnds(c) \/ Acknowledge(c) \/ Flush(c) \/ Unconfirmed(c) \/ Fails(c) \/ TaskFails(c)
             \/ \E w \in Workers : Deliver(w, c)
      PROVE  Linked'
  <2>1. Turned(c, Quiet)
    BY <1>0, <1>3, QuietTurns
  <2>2. "saved" \notin Quiet /\ "linked" \notin Quiet
    BY DEF Quiet
  <2>3. \A e \in copies' : e \in copies \/ e.at \notin {"saved", "linked"}
    BY <2>1, <2>2 DEF Turned
  <2>4. tasks' = tasks \/ tasks' = [tasks EXCEPT ![c.body].status = "ERROR"]
    BY <1>3 DEF RetryPeriodEnds, Acknowledge, Flush, Unconfirmed, Fails, TaskFails, Deliver, dbVars
  <2>5. \A t \in Tasks : /\ tasks'[t].linked = tasks[t].linked /\ tasks'[t].results = tasks[t].results
                         /\ tasks'[t].status = "COMPLETED" => tasks[t].status = "COMPLETED"
    BY <2>4 DEF IInv, Types
  <2>6. Exchanged({"saved", "linked"})
    BY <2>3 DEF Exchanged
  <2> QED BY <2>5, <2>6, QuietLinks
<1>4. ASSUME NEW c \in copies, FindOrCreate(c) \/ Announce(c) PROVE Linked'
  <2>1. PICK at \in {"found", "created", "announced", "event kept", "done"} : copies' = Moved(c, at)
    BY <1>4 DEF FindOrCreate, Announce
  <2>2. at \in Places
    BY DEF Places, Ended, KeptPlaces, KeptEvents
  <2>3. \E d : Replaced(c, d, at)
    BY <1>0, <2>1, <2>2, MovedReplaces
  <2>4. \A e \in copies' : e \in copies \/ e.at \notin {"saved", "linked"}
    BY <2>3 DEF Replaced
  <2> QED BY <1>1, <1>4, <2>4 DEF FindOrCreate, Announce, dbVars
<1>5. ASSUME NEW c \in copies, AcknowledgeStale(c) PROVE Linked'
  <2>1. Exchanged(Special)
    BY <1>0, <1>5, StaleExchanges
  <2>2. PICK d, g : \A e \in copies' :
          \/ e \in copies \/ e.at \notin Special
          \/ e = g /\ d \in copies /\ d \notin copies' /\ d.at = g.at /\ d.body = g.body
    BY <2>1 DEF Exchanged
  <2>3. \A x : x \in {"saved", "linked"} => x \in Special
    BY DEF Special
  <2>4. \A e \in copies' :
          \/ e \in copies \/ e.at \notin {"saved", "linked"}
          \/ e = g /\ d \in copies /\ d \notin copies' /\ d.at = g.at /\ d.body = g.body
    BY <2>2, <2>3
  <2>5. Exchanged({"saved", "linked"})
    BY <2>4 DEF Exchanged
  <2>6. tasks' = tasks
    BY <1>5 DEF AcknowledgeStale, dbVars
  <2> QED BY <2>5, <2>6, QuietLinks
<1>6. ASSUME NEW w \in Workers, Disconnect(w) \/ Die(w) PROVE Linked'
  <2>1. \A e \in copies' : e \in copies \/ e \in QueuedAgain(w)
    BY <1>6 DEF Disconnect, Die
  <2>2. \A e \in copies' : e \in copies \/ e.at \notin {"saved", "linked"}
    BY <1>0, <2>1, AgainIsQueued
  <2> QED BY <1>1, <1>6, <2>2 DEF Disconnect, Die, dbVars
<1>7. ASSUME NEW b \in load, PublishRecord(b) \/ SendTask(b) PROVE Linked'
  <2>1. PICK d : d = Copy(b, 1, "queue")
    OBVIOUS
  <2>2. d.at = "queue"
    BY <2>1 DEF Copy
  <2>3. copies' = copies \cup {d} /\ UNCHANGED tasks
    BY <1>7, <2>1 DEF PublishRecord, SendTask, dbVars
  <2> QED BY <1>1, <2>2, <2>3
<1>8. ASSUME NEW t \in load, CreateTask(t) PROVE Linked'
  <2>1. \A s \in Tasks : /\ tasks'[s].linked = tasks[s].linked /\ tasks'[s].results = tasks[s].results
                         /\ tasks'[s].status = "COMPLETED" => tasks[s].status = "COMPLETED"
    BY <1>8 DEF CreateTask, IInv, Types
  <2>2. Exchanged({"saved", "linked"})
    BY <1>8 DEF CreateTask, Exchanged
  <2> QED BY <2>1, <2>2, QuietLinks
<1>9. ASSUME NEW k \in Keys, EmitPrice(k) \/ EmitUnacknowledged(k) PROVE Linked'
  BY <1>1, <1>9 DEF EmitPrice, EmitUnacknowledged, dbVars
<1>10. ASSUME NEW w \in Workers, Connect(w) PROVE Linked'
  BY <1>1, <1>10 DEF Connect, dbVars
<1>11. CASE UNCHANGED vars
  BY <1>1, <1>11 DEF vars, dbVars
<1> QED BY <1>2, <1>3, <1>4, <1>5, <1>6, <1>7, <1>8, <1>9, <1>10, <1>11 DEF Next, Progress, Work

\* Whoever is told that a task is complete finds its results by their
\* exchanges, though several workers may have written some at once.
THEOREM CompleteTasksHaveResultsHolds == Spec => []CompleteTasksHaveResults
<1>1. Init => Linked
  <2> SUFFICES ASSUME Init, NEW t \in Tasks PROVE LinkedOne(t)
    BY DEF Linked
  <2>1. Savers(t) = {}
    BY DEF Init, Savers
  <2>2. tasks[t].linked = 0 /\ tasks[t].results = 0 /\ tasks[t].status = "none"
    BY DEF Init
  <2> QED BY <2>1, <2>2, FS_EmptySet DEF LinkedOne, Init
<1>2. IInv /\ Linked => CompleteTasksHaveResults
  <2> SUFFICES ASSUME IInv, Linked, NEW t \in Tasks, Answer(t) = "COMPLETED"
               PROVE  tasks[t].linked \in 1..tasks[t].results
    BY DEF CompleteTasksHaveResults
  <2>1. LinkedOne(t) /\ tasks[t].linked \in Nat /\ tasks[t].results \in Nat
    BY DEF Linked, IInv, Types
  <2>2. Cardinality(Savers(t)) \in Nat
    BY <2>1, FS_CardinalityType DEF LinkedOne
  <2> QED BY <2>1, <2>2 DEF LinkedOne, Answer
<1>3. Spec => []IInv
  BY Invariant
<1> QED BY <1>1, <1>2, <1>3, NextLinks, PTL DEF Spec

-----------------------------------------------------------------------------
(* Collection: what there is to store.  A historical scheduler goes through *)
(* its cycles, and back where it is to repeat some.                         *)

CONSTANTS Jobs, Minute, Intervals, Horizon, MaxFetches, MaxFaults
VARIABLES
  job, now, interval, cron, cycle, bounds, ops, asked, reload, repeat, windows, lost, resolved, faults

Coll == INSTANCE Collection

\* The durations and counts of the configuration are positive.
Configured ==
  /\ Minute \in Nat \ {0} /\ Intervals \subseteq Nat \ {0}
  /\ \A j \in Jobs : IF j.kind = "historical"
       THEN j.minutes \in Nat \ {0} /\ j.operationLimit \in Nat \ {0} /\ j.reloadCyclesBackoff \in Nat \ {0}
       ELSE j.interval \in Nat \ {0}

\* What cycle c is about.
Bounds(c) ==
  [start |-> c * job.operationLimit,
   end |-> c * job.operationLimit + IF c >= Coll!TotalCycles - 1 THEN Coll!LastCycleLimit ELSE job.operationLimit]
Window(c) == [start |-> Bounds(c).start * Minute, end |-> Bounds(c).end * Minute]

\* Beyond the last cycle an operation fetches that once more.
Fetched(c) == Coll!MinOf(c, Coll!TotalCycles - 1)

Ops(at) == {op \in ops : op.at = at}

\* A cycle is accounted for by one operation.
Answered(c) ==
  \/ Coll!InCycle(c) \subseteq Coll!Recorded
  \/ Coll!InCycle(c) \subseteq Coll!Lost
  \/ \E op \in Ops("fetching") : op.cycle = c
  \/ c \in repeat

OpOK(op) ==
  /\ DOMAIN op = {"at", "cycle", "last", "window"}
  /\ op.at \in {"batch", "scheduled", "fetching"} /\ op.cycle \in 0..Coll!TotalCycles
  /\ op.at = "batch" => op.cycle = cycle
  /\ op.at = "scheduled" => /\ cycle = Coll!MinOf(op.cycle + 1, Coll!TotalCycles) /\ bounds = Bounds(Fetched(op.cycle))
                            /\ op.last => cycle = Coll!TotalCycles
  /\ op.at = "fetching" => op.window = Window(Fetched(op.cycle))

\* The last operation has been sent, or has ended.
LastSent == resolved \/ \E op \in Ops("fetching") : op.last

\* A cycle c whose answer may be a backoff is not too far behind.
Behind(c) == cycle <= c + job.reloadCyclesBackoff /\ (Ops("batch") # {} => cycle < c + job.reloadCyclesBackoff)

HistoryTypes ==
  /\ Minute \in Nat \ {0}
  /\ job.minutes \in Nat \ {0} /\ job.operationLimit \in Nat \ {0} /\ job.reloadCyclesBackoff \in Nat \ {0}
  /\ cycle \in 0..Coll!TotalCycles /\ repeat \subseteq 0..Coll!TotalCycles
  /\ cycle = Coll!TotalCycles => bounds = Bounds(Coll!TotalCycles - 1)
  /\ \A op \in ops : OpOK(op)
  /\ \A o, p \in ops : o.at # "fetching" /\ p.at # "fetching" => o = p
  /\ \A w \in windows : \E c \in 0..(Coll!TotalCycles - 1) : w = Window(c)
  /\ reload # "none" => ops = Ops("fetching") /\ cron = Coll!Off

\* No operation is too far behind the counter to go back to.
NotFar ==
  /\ \A op \in Ops("scheduled") \cup Ops("fetching") : Behind(op.cycle)
  /\ \A c \in repeat : Behind(c)

\* RangeCollected, by the cycle.
Passed == \A c \in 0..(cycle - 1) : Answered(c) \/ \E op \in Ops("scheduled") : op.cycle = c
Due == \A c \in repeat : asked \/ cycle <= c \/ \E op \in ops : op.cycle = c
Whole == LastSent => \A c \in 0..(Coll!TotalCycles - 1) : Answered(c)

History == HistoryTypes /\ NotFar /\ Passed /\ Due /\ Whole

HistoryInv == Coll!Historical => History

-----------------------------------------------------------------------------
(* Cycles and minutes. *)

LEMMA Quotient ==
  ASSUME NEW n \in Nat, NEW d \in Nat \ {0}
  PROVE  /\ n \div d \in Nat /\ n % d \in 0..(d - 1)
         /\ n = d * (n \div d) + (n % d)
OBVIOUS

LEMMA QuotientIs ==
  ASSUME NEW d \in Nat \ {0}, NEW k \in Nat, NEW e \in 0..(d - 1), NEW n \in Nat, n = d * k + e
  PROVE  n \div d = k /\ n % d = e
<1>1. PICK q \in Nat : q = n \div d
  BY Quotient
<1>2. PICK r \in 0..(d - 1) : r = n % d
  BY Quotient
<1>3. n = d * q + r
  BY <1>1, <1>2, Quotient
<1>4. d * (q - k) = e - r
  BY <1>3
<1>5. q - k = 0
  <2>1. CASE q - k >= 1
    <3>1. d * (q - k) >= d
      BY <2>1
    <3> QED BY <1>4, <3>1
  <2>2. CASE q - k <= -1
    <3>1. d * (q - k) <= -d
      BY <2>2
    <3> QED BY <1>4, <3>1
  <2> QED BY <2>1, <2>2
<1> QED BY <1>1, <1>2, <1>3, <1>5

\* All the cycles but the last have as many minutes as there may be, and together
\* with the last they have them all.
LEMMA CycleCount ==
  ASSUME job.minutes \in Nat \ {0}, job.operationLimit \in Nat \ {0},
         NEW T, T = Coll!TotalCycles, NEW L, L = job.operationLimit
  PROVE  /\ T \in Nat \ {0} /\ Coll!LastCycleLimit \in 1..L
         /\ (T - 1) * L + Coll!LastCycleLimit = job.minutes
<1>1. PICK n \in Nat \ {0} : n = job.minutes
  OBVIOUS
<1>2. PICK q \in Nat : q = n \div L
  BY <1>1, Quotient
<1>3. PICK r \in 0..(L - 1) : r = n % L
  BY <1>1, Quotient
<1>4. n = L * q + r
  BY <1>1, <1>2, <1>3, Quotient
<1>5. T = (n + L - 1) \div L /\ Coll!LastCycleLimit = (IF r = 0 THEN L ELSE r)
  BY <1>1, <1>3 DEF Coll!TotalCycles, Coll!Ceil, Coll!LastCycleLimit
<1>6. L \in Nat \ {0} /\ n + L - 1 \in Nat
  BY <1>1
<1>7. CASE r = 0
  <2>1. n + L - 1 = L * q + (L - 1) /\ L - 1 \in 0..(L - 1)
    BY <1>4, <1>6, <1>7
  <2>2. T = q /\ Coll!LastCycleLimit = L
    BY <1>5, <1>6, <1>7, <2>1, QuotientIs
  <2>3. q # 0
    BY <1>4, <1>7
  <2>4. (q - 1) * L = L * q - L
    BY <1>6
  <2> QED BY <1>1, <1>4, <1>6, <1>7, <2>2, <2>3, <2>4
<1>8. CASE r # 0
  <2>1. L * (q + 1) = L * q + L /\ q + 1 \in Nat /\ r - 1 \in 0..(L - 1) /\ r \in 1..L
    BY <1>6, <1>8
  <2>2. n + L - 1 = L * (q + 1) + (r - 1)
    BY <1>4, <1>6, <2>1
  <2>3. T = q + 1
    <3>1. PICK k \in Nat, e \in 0..(L - 1), m \in Nat : k = q + 1 /\ e = r - 1 /\ m = n + L - 1
      BY <1>6, <2>1
    <3>2. L \in Nat \ {0} /\ m = L * k + e
      BY <1>6, <2>2, <3>1
    <3>3. m \div L = k
      BY ONLY <3>1, <3>2, QuotientIs
    <3> QED BY <1>5, <3>1, <3>3
  <2>4. (T - 1) * L = L * q
    BY <1>6, <2>3
  <2> QED BY <1>1, <1>4, <1>5, <1>8, <2>1, <2>3, <2>4
<1> QED BY <1>7, <1>8

\* The minutes of a cycle are those of its window ...
LEMMA CycleBounds ==
  ASSUME job.minutes \in Nat \ {0}, job.operationLimit \in Nat \ {0}, NEW c \in 0..(Coll!TotalCycles - 1)
  PROVE  /\ Bounds(c).start \in Nat /\ Bounds(c).end \in Nat /\ Bounds(c).start < Bounds(c).end
         /\ Bounds(c).end <= job.minutes
         /\ Coll!InCycle(c) = {m * Minute : m \in Bounds(c).start..(Bounds(c).end - 1)}
<1>1. PICK T \in Nat \ {0} : T = Coll!TotalCycles
  BY CycleCount
<1>2. PICK L \in Nat \ {0} : L = job.operationLimit
  OBVIOUS
<1>3. PICK last \in 1..L : last = Coll!LastCycleLimit /\ (T - 1) * L + last = job.minutes
  BY <1>1, <1>2, CycleCount
<1>4. c \in 0..(T - 1)
  BY <1>1
<1>5. Bounds(c).start = c * L /\ Bounds(c).end = c * L + (IF c >= T - 1 THEN last ELSE L)
  BY <1>1, <1>2, <1>3 DEF Bounds
<1>6. c * L \in Nat /\ (c + 1) * L = c * L + L
  <2>1. PICK n \in Nat : n = c
    BY <1>4
  <2>2. n * L \in Nat /\ (n + 1) * L = n * L + L
    BY <1>2
  <2> QED BY <2>1, <2>2
<1>7. Bounds(c).end = Coll!MinOf((c + 1) * L, job.minutes)
  <2>1. CASE c = T - 1
    BY <1>3, <1>4, <1>5, <1>6, <2>1 DEF Coll!MinOf
  <2>2. CASE c < T - 1
    <3>1. PICK k \in Nat : T - 1 = c + 1 + k
      <4>1. T - 1 - (c + 1) \in Nat /\ T - 1 = c + 1 + (T - 1 - (c + 1))
        BY <1>1, <1>4, <2>2
      <4> QED BY <4>1
    <3>2. (T - 1) * L = (c + 1) * L + k * L /\ k * L \in Nat
      BY <1>2, <1>4, <3>1
    <3> QED BY <1>2, <1>3, <1>4, <1>5, <1>6, <2>2, <3>2 DEF Coll!MinOf
  <2> QED BY <1>1, <1>4, <2>1, <2>2
<1>8. Bounds(c).end <= job.minutes /\ Bounds(c).end \in Nat
  BY <1>3, <1>5, <1>6, <1>7 DEF Coll!MinOf
<1>9. Coll!InCycle(c) = {m * Minute : m \in Bounds(c).start..(Bounds(c).end - 1)}
  BY <1>2, <1>5, <1>7 DEF Coll!InCycle
<1> QED BY <1>3, <1>4, <1>5, <1>6, <1>8, <1>9

\* ... which are the candles that begin in it, ...
LEMMA WindowBegins ==
  ASSUME Minute \in Nat \ {0}, NEW first \in Nat, NEW end \in Nat, NEW m \in first..(end - 1)
  PROVE  m * Minute \in Coll!Begins(first * Minute, end * Minute)
<1>1. PICK k \in Nat \ {0} : k = Minute
  OBVIOUS
<1>2. PICK i \in Nat : m = first + i
  <2>1. m - first \in Nat /\ m = first + (m - first)
    OBVIOUS
  <2> QED BY <2>1
<1>3. PICK j \in Nat : end = m + 1 + j
  <2>1. end - m - 1 \in Nat /\ end = m + 1 + (end - m - 1)
    OBVIOUS
  <2> QED BY <2>1
<1>4. m * k = first * k + i * k /\ end * k = m * k + k + j * k /\ i * k \in Nat /\ j * k \in Nat /\ first * k \in Nat
  BY <1>1, <1>2, <1>3
<1>5. m * k \in (first * k)..(end * k - 1)
  BY <1>1, <1>4
<1>6. PICK n \in Nat, zero \in 0..(k - 1) : n = m * k /\ zero = 0
  BY <1>1, <1>4
<1>7. m \in Nat /\ n = k * m + zero
  BY <1>1, <1>6
<1>8. n % k = zero
  BY ONLY <1>1, <1>6, <1>7, QuotientIs
<1> QED BY <1>1, <1>5, <1>6, <1>8 DEF Coll!Begins

\* ... and those that the exchange answers with.
LEMMA WindowCharts ==
  ASSUME Coll!Historical, Minute \in Nat \ {0}, NEW first \in Nat, NEW end \in Nat, first < end,
         NEW w, w = [start |-> first * Minute, end |-> end * Minute]
  PROVE  Coll!Charts(w) = {m * Minute : m \in first..(end - 1)}
<1>1. PICK k \in Nat \ {0} : k = Minute
  OBVIOUS
<1>2. PICK n \in Nat \ {0} : end = first + n
  <2>1. end - first \in Nat \ {0} /\ end = first + (end - first)
    OBVIOUS
  <2> QED BY <2>1
<1>3. Coll!Timeframe(w) = k
  BY <1>1 DEF Coll!Timeframe
<1>4. w.start = first * k /\ w.end = first * k + n * k /\ first * k \in Nat /\ n * k \in Nat
  BY <1>1, <1>2
<1>5. \A j \in Nat : Coll!Ceil(j * k, k) = j
  <2> SUFFICES ASSUME NEW j \in Nat PROVE Coll!Ceil(j * k, k) = j
    OBVIOUS
  <2>1. PICK m \in Nat, e \in 0..(k - 1) : m = j * k + k - 1 /\ e = k - 1
    BY <1>1
  <2>2. m = k * j + e
    BY <1>1, <2>1
  <2>3. m \div k = j
    BY ONLY <1>1, <2>1, <2>2, QuotientIs
  <2> QED BY <2>1, <2>3 DEF Coll!Ceil
<1>6. Coll!Limit(w) = n
  <2>1. w.end - w.start = n * k
    BY <1>4
  <2> QED BY <1>3, <1>5, <2>1 DEF Coll!Limit
<1>7. Coll!Ceil(w.start, k) = first
  BY <1>4, <1>5
<1>8. Coll!FetchOHLCV(Coll!Timeframe(w), w.start, Coll!Limit(w)) = {k * (first + i) : i \in 0..(n - 1)}
  BY <1>3, <1>6, <1>7 DEF Coll!FetchOHLCV
<1>9. ASSUME NEW i \in 0..(n - 1)
      PROVE  k * (first + i) >= w.start /\ k * (first + i) <= w.end /\ k * (first + i) = (first + i) * k
  <2>1. PICK j \in Nat : n = i + j
    <3>1. n - i \in Nat /\ n = i + (n - i)
      OBVIOUS
    <3> QED BY <3>1
  <2>2. /\ k * (first + i) = first * k + i * k /\ n * k = i * k + j * k
        /\ i * k \in Nat /\ j * k \in Nat /\ (first + i) * k = first * k + i * k
    BY <1>1, <2>1
  <2> QED BY <1>4, <2>2
<1>10. Coll!Charts(w) = {k * (first + i) : i \in 0..(n - 1)}
  BY <1>8, <1>9 DEF Coll!Charts
<1>11. \A i \in 0..(n - 1) : first + i \in first..(end - 1)
  BY <1>2
<1>12. \A m \in first..(end - 1) : m - first \in 0..(n - 1) /\ first + (m - first) = m
  BY <1>2
<1>13. \A t \in Coll!Charts(w) : t \in {m * k : m \in first..(end - 1)}
  BY <1>9, <1>10, <1>11
<1>14. \A m \in first..(end - 1) : m * k \in Coll!Charts(w)
  <2> SUFFICES ASSUME NEW m \in first..(end - 1) PROVE m * k \in Coll!Charts(w)
    OBVIOUS
  <2>1. PICK i \in 0..(n - 1) : first + i = m
    BY <1>12
  <2>2. k * (first + i) = m * k
    BY <1>9, <2>1
  <2> QED BY <1>10, <2>2
<1> QED BY <1>1, <1>13, <1>14

LEMMA CycleCharts ==
  ASSUME Coll!Historical, HistoryTypes, NEW c \in 0..(Coll!TotalCycles - 1)
  PROVE  /\ Coll!Charts(Window(c)) = Coll!InCycle(c)
         /\ Coll!InCycle(c) \subseteq Coll!Begins(Window(c).start, Window(c).end)
         /\ Coll!InCycle(c) \subseteq {m * Minute : m \in 0..(job.minutes - 1)}
<1>1. PICK first \in Nat, end \in Nat : first = Bounds(c).start /\ end = Bounds(c).end
  BY CycleBounds DEF HistoryTypes
<1>2. first < end /\ end <= job.minutes /\ Coll!InCycle(c) = {m * Minute : m \in first..(end - 1)}
  BY <1>1, CycleBounds DEF HistoryTypes
<1>3. PICK w : w = Window(c)
  OBVIOUS
<1>4. w = [start |-> first * Minute, end |-> end * Minute] /\ Minute \in Nat \ {0} /\ job.minutes \in Nat
  BY <1>1, <1>3 DEF Window, HistoryTypes
<1>5. Coll!Charts(w) = {m * Minute : m \in first..(end - 1)}
  BY <1>2, <1>4, WindowCharts
<1>6. \A m \in first..(end - 1) : m * Minute \in Coll!Begins(w.start, w.end)
  BY <1>4, WindowBegins
<1>7. first..(end - 1) \subseteq 0..(job.minutes - 1)
  BY <1>2, <1>4
<1> QED BY <1>2, <1>3, <1>5, <1>6, <1>7


-----------------------------------------------------------------------------
(* Steps. *)

\* What a cycle is about stays as it is.
LEMMA JobKept ==
  ASSUME job' = job
  PROVE  /\ Coll!Historical' = Coll!Historical /\ Coll!TotalCycles' = Coll!TotalCycles
         /\ \A c : /\ Bounds(c)' = Bounds(c) /\ Window(c)' = Window(c)
                   /\ Coll!InCycle(c)' = Coll!InCycle(c) /\ Fetched(c)' = Fetched(c)
BY DEF Coll!Historical, Coll!TotalCycles, Bounds, Window, Coll!InCycle, Fetched, Coll!LastCycleLimit,
  Coll!Ceil, Coll!MinOf

\* What has been recorded and what has been lost stays so.
LEMMA RecordsKept ==
  ASSUME job' = job, windows \subseteq windows', lost \subseteq lost'
  PROVE  Coll!Recorded \subseteq Coll!Recorded' /\ Coll!Lost \subseteq Coll!Lost'
<1>1. \A w : Coll!Charts(w)' = Coll!Charts(w)
  BY DEF Coll!Charts, Coll!Timeframe, Coll!Limit, Coll!FetchOHLCV, Coll!Historical, Coll!Ceil
<1>2. Coll!Recorded' = UNION {Coll!Charts(w) : w \in windows'}
  BY <1>1 DEF Coll!Recorded
<1>3. Coll!Lost' = UNION {Coll!Begins(w.start, w.end) : w \in lost'}
  BY DEF Coll!Lost, Coll!Begins
<1> QED BY <1>2, <1>3 DEF Coll!Recorded, Coll!Lost

\* An answer is kept where the operation or the mark in repeat that gives it is.
LEMMA AnswersKept ==
  ASSUME job' = job, windows \subseteq windows', lost \subseteq lost', NEW c, Answered(c),
         \A op \in Ops("fetching") : op.cycle = c => Answered(c)' \/ op \in ops',
         c \in repeat => Answered(c)' \/ c \in repeat'
  PROVE  Answered(c)'
<1>1. Coll!Recorded \subseteq Coll!Recorded' /\ Coll!Lost \subseteq Coll!Lost' /\ Coll!InCycle(c)' = Coll!InCycle(c)
  BY JobKept, RecordsKept
<1>2. ASSUME NEW op \in Ops("fetching"), op.cycle = c, op \in ops' PROVE Answered(c)'
  BY <1>2 DEF Answered, Ops
<1> QED BY <1>1, <1>2 DEF Answered

LEMMA HistInit ==
  ASSUME Configured, Coll!Init PROVE HistoryInv
<1> SUFFICES ASSUME Coll!Historical PROVE History
  BY DEF HistoryInv
<1>1. job \in Jobs /\ job.minutes \in Nat \ {0} /\ job.operationLimit \in Nat \ {0} /\ job.reloadCyclesBackoff \in Nat \ {0}
  BY DEF Coll!Init, Configured, Coll!Historical
<1>2. Coll!TotalCycles \in Nat \ {0}
  BY <1>1, CycleCount
<1> QED BY <1>1, <1>2
  DEF Coll!Init, Configured, History, HistoryTypes, NotFar, Passed, Due, Whole, Ops, LastSent

\* Operations that are not fetching are one.
LEMMA CronHistory ==
  ASSUME Coll!Historical, History, Coll!CronRuns PROVE History'
<1> DEFINE new == [at |-> "batch", cycle |-> cycle, last |-> FALSE, window |-> Coll!Nothing]
<1>1. /\ UNCHANGED <<job, cycle, bounds, asked, reload, repeat, windows, lost, resolved, cron>> /\ ops' = ops \cup {new}
      /\ Coll!Scheduled = {} /\ Coll!InTime /\ cron # Coll!Off /\ \A op \in ops : op.at # "batch"
  BY DEF Coll!CronRuns
<1>2. \A op \in ops : op.at = "fetching"
  BY <1>1 DEF Coll!Scheduled, History, HistoryTypes, OpOK
<1>3. Ops("scheduled")' = {} /\ Ops("fetching")' = ops /\ Ops("fetching") = ops /\ Ops("scheduled") = {}
  BY <1>1, <1>2 DEF Ops
<1>4. ASSUME NEW c, Answered(c) PROVE Answered(c)'
  <2>1. job' = job /\ windows \subseteq windows' /\ lost \subseteq lost' /\ repeat' = repeat /\ Ops("fetching") \subseteq ops'
    BY <1>1, <1>3
  <2> QED BY <1>4, <2>1, AnswersKept
<1>5. HistoryTypes'
  <2>1. ASSUME NEW op \in ops PROVE OpOK(op)'
    <3>1. OpOK(op)
      BY DEF History, HistoryTypes
    <3> QED BY <1>1, <1>2, <3>1, JobKept DEF OpOK
  <2>2. OpOK(new)'
    BY <1>1, JobKept DEF OpOK, History, HistoryTypes
  <2>3. \A op \in ops' : OpOK(op)'
    BY <1>1, <2>1, <2>2
  <2>4. \A o, p \in ops' : o.at # "fetching" /\ p.at # "fetching" => o = p
    BY <1>1, <1>2
  <2>5. \A w \in windows' : \E c \in 0..(Coll!TotalCycles - 1)' : w = Window(c)'
    BY <1>1, JobKept DEF History, HistoryTypes
  <2> HIDE DEF new
  <2> QED BY <1>1, <2>3, <2>4, <2>5, JobKept DEF History, HistoryTypes
<1>6. \A c : (\E op \in ops : op.cycle = c) \/ c \in repeat => cycle < c + job.reloadCyclesBackoff
  BY <1>1 DEF Coll!InTime
<1>7. ASSUME NEW c \in 0..Coll!TotalCycles, cycle < c + job.reloadCyclesBackoff PROVE Behind(c)'
  <2>1. cycle \in Int /\ job.reloadCyclesBackoff \in Int /\ c \in Int
    BY CycleCount DEF History, HistoryTypes
  <2> QED BY <1>1, <1>7, <2>1 DEF Behind
<1>8. LastSent' => LastSent
  BY <1>1, <1>3 DEF LastSent
<1>9. NotFar'
  <2>1. \A op \in ops : op.cycle \in 0..Coll!TotalCycles
    BY DEF History, HistoryTypes, OpOK
  <2>2. repeat \subseteq 0..Coll!TotalCycles
    BY DEF History, HistoryTypes
  <2> QED BY <1>1, <1>3, <1>6, <1>7, <2>1, <2>2 DEF NotFar
<1>10. Passed' /\ Due'
  BY <1>1, <1>3, <1>4 DEF History, Passed, Due
<1>11. Whole'
  BY <1>1, <1>4, <1>8, JobKept DEF History, Whole
<1> QED BY <1>5, <1>9, <1>10, <1>11 DEF History

LEMMA RunHistory ==
  ASSUME Coll!Historical, History, Coll!RunOperations PROVE History'
<1>1. PICK op \in ops :
        /\ op.at = "batch"
        /\ ops' = (ops \ {op}) \cup
             {[op EXCEPT !.at = "scheduled", !.cycle = cycle, !.last = Coll!Historical /\ Coll!IsFinalCycle]}
        /\ Coll!UpdateIntervalBounds
        /\ UNCHANGED <<job, now, interval, asked, reload, repeat, windows, lost, resolved, faults>>
  BY DEF Coll!RunOperations
<1>2. PICK new : new = [op EXCEPT !.at = "scheduled", !.cycle = cycle, !.last = Coll!Historical /\ Coll!IsFinalCycle]
  OBVIOUS
<1>3. OpOK(op) /\ op.cycle = cycle /\ DOMAIN op = {"at", "cycle", "last", "window"}
  BY <1>1 DEF History, HistoryTypes, OpOK
<1>4. /\ new.at = "scheduled" /\ new.cycle = cycle /\ (new.last => Coll!IsFinalCycle)
      /\ DOMAIN new = {"at", "cycle", "last", "window"}
  <2>1. PICK final \in BOOLEAN : final = (Coll!Historical /\ Coll!IsFinalCycle)
    OBVIOUS
  <2>2. new = [op EXCEPT !.at = "scheduled", !.cycle = cycle, !.last = final]
    BY <1>2, <2>1
  <2>3. final => Coll!IsFinalCycle
    BY <2>1
  <2> QED BY <1>3, <2>2, <2>3
<1>5. ops' = (ops \ {op}) \cup {new}
  BY <1>1, <1>2
<1>6. \A o \in ops : o # op => o.at = "fetching"
  BY <1>1 DEF History, HistoryTypes
<1>7. Ops("scheduled")' = {new} /\ Ops("fetching")' = Ops("fetching") /\ Ops("batch")' = {} /\ Ops("scheduled") = {}
      /\ Ops("batch") # {}
  BY <1>1, <1>4, <1>5, <1>6 DEF Ops
<1>8. ASSUME NEW c, Answered(c) PROVE Answered(c)'
  <2>1. job' = job /\ windows \subseteq windows' /\ lost \subseteq lost' /\ repeat' = repeat /\ Ops("fetching") \subseteq ops'
    BY <1>1, <1>7 DEF Ops
  <2> QED BY <1>8, <2>1, AnswersKept
<1>9. PICK T \in Nat \ {0} : T = Coll!TotalCycles /\ Coll!TotalCycles' = T
  BY <1>1, CycleCount, JobKept DEF History, HistoryTypes
<1>10. PICK k \in 0..T : k = cycle
  BY <1>9 DEF History, HistoryTypes
<1>11. IF k = T THEN cycle' = k /\ bounds' = bounds ELSE cycle' = k + 1 /\ bounds' = Bounds(k)
  <2>1. Coll!IsFinalCycle <=> k >= T - 1
    BY <1>9, <1>10 DEF Coll!IsFinalCycle
  <2>2. CASE k = T
    BY <1>1, <1>9, <1>10, <2>2 DEF Coll!UpdateIntervalBounds
  <2>3. CASE k # T
    <3>1. ~(k >= T)
      BY <1>9, <1>10, <2>3
    <3>2. /\ bounds' = [start |-> k * job.operationLimit,
                        end |-> k * job.operationLimit
                                  + IF Coll!IsFinalCycle THEN Coll!LastCycleLimit ELSE job.operationLimit]
          /\ cycle' = k + 1
      BY <1>1, <1>9, <1>10, <3>1 DEF Coll!UpdateIntervalBounds
    <3> QED BY <1>9, <2>1, <2>3, <3>2 DEF Bounds
  <2> QED BY <2>2, <2>3
<1>12. cycle' = Coll!MinOf(k + 1, T) /\ bounds' = Bounds(Coll!MinOf(k, T - 1)) /\ cycle' \in 0..T
       /\ (cycle' = T => bounds' = Bounds(T - 1))
  <2>1. k = T => bounds = Bounds(T - 1)
    BY <1>9, <1>10 DEF History, HistoryTypes
  <2> QED BY <1>9, <1>10, <1>11, <2>1 DEF Coll!MinOf
<1>13. HistoryTypes'
  <2>1. ASSUME NEW o \in ops, o # op PROVE OpOK(o)'
    <3>1. OpOK(o) /\ o.at = "fetching"
      BY <1>6, <2>1 DEF History, HistoryTypes
    <3> QED BY <1>1, <3>1, JobKept DEF OpOK
  <2>2. OpOK(new)'
    <3>1. new.last => cycle' = T
      <4>1. Coll!IsFinalCycle => k >= T - 1
        BY <1>9, <1>10 DEF Coll!IsFinalCycle
      <4>2. k >= T - 1 => Coll!MinOf(k + 1, T) = T
        BY <1>9, <1>10 DEF Coll!MinOf
      <4> QED BY <1>4, <1>12, <4>1, <4>2
    <3>2. Fetched(new.cycle)' = Coll!MinOf(k, T - 1) /\ \A c : Bounds(c)' = Bounds(c)
      BY <1>1, <1>4, <1>9, <1>10, JobKept DEF Fetched
    <3> QED BY <1>4, <1>9, <1>10, <1>12, <3>1, <3>2 DEF OpOK
  <2>3. \A o \in ops' : OpOK(o)'
    BY <1>5, <2>1, <2>2
  <2>4. \A o, p \in ops' : o.at # "fetching" /\ p.at # "fetching" => o = p
    BY <1>5, <1>6
  <2>5. \A w \in windows' : \E c \in 0..(Coll!TotalCycles - 1)' : w = Window(c)'
    BY <1>1, JobKept DEF History, HistoryTypes
  <2>6. (cycle = Coll!TotalCycles => bounds = Bounds(Coll!TotalCycles - 1))' /\ (cycle \in 0..Coll!TotalCycles)'
    BY <1>1, <1>9, <1>12, JobKept
  <2>7. reload' = "none"
    BY <1>1 DEF History, HistoryTypes, Ops
  <2> QED BY <1>1, <2>3, <2>4, <2>5, <2>6, <2>7, JobKept DEF History, HistoryTypes
<1>14. PICK b \in Nat \ {0} : b = job.reloadCyclesBackoff
  BY DEF History, HistoryTypes
<1>15. ASSUME NEW c \in 0..T, k < c + b \/ c = k PROVE Behind(c)'
  <2>1. cycle' <= c + b
    BY <1>10, <1>11, <1>14, <1>15
  <2> QED BY <1>1, <1>7, <1>14, <2>1 DEF Behind
<1>16. NotFar'
  <2>1. \A o \in Ops("fetching") : o.cycle \in 0..T
    BY <1>9 DEF History, HistoryTypes, OpOK, Ops
  <2>2. repeat \subseteq 0..T
    BY <1>9 DEF History, HistoryTypes
  <2>3. (\A o \in Ops("fetching") : k < o.cycle + b) /\ (\A c \in repeat : k < c + b)
    BY <1>7, <1>10, <1>14 DEF History, NotFar, Behind
  <2>4. \A o \in Ops("fetching") : Behind(o.cycle)'
    BY <1>15, <2>1, <2>3
  <2>5. \A c \in repeat : Behind(c)'
    BY <1>15, <2>2, <2>3
  <2>6. Behind(new.cycle)'
    BY <1>4, <1>10, <1>15
  <2> QED BY <1>1, <1>7, <2>4, <2>5, <2>6 DEF NotFar
<1>17. Passed'
  <2> SUFFICES ASSUME NEW c \in 0..(cycle' - 1) PROVE Answered(c)' \/ new.cycle = c
    BY <1>7 DEF Passed
  <2>1. CASE c = k
    BY <1>4, <1>10, <2>1
  <2>2. CASE c # k
    <3>1. c \in 0..(cycle - 1)
      BY <1>10, <1>11, <2>2
    <3>2. Answered(c)
      BY <1>7, <3>1 DEF History, Passed
    <3> QED BY <1>8, <3>2
  <2> QED BY <2>1, <2>2
<1>18. Due'
  <2> SUFFICES ASSUME NEW c \in repeat, ~asked
               PROVE  cycle' <= c \/ \E o \in ops' : o.cycle = c
    BY <1>1 DEF Due
  <2>1. c \in 0..T
    BY <1>9 DEF History, HistoryTypes
  <2>2. k <= c \/ \E o \in ops : o.cycle = c
    BY <1>10 DEF History, Due
  <2>3. CASE c = k
    BY <1>4, <1>5, <1>10, <2>3
  <2>4. CASE k < c
    BY <1>10, <1>11, <2>1, <2>4
  <2>5. CASE c < k
    BY <1>3, <1>5, <1>10, <2>1, <2>2, <2>5
  <2> QED BY <1>10, <2>1, <2>3, <2>4, <2>5
<1>19. Whole'
  <2>1. LastSent' => LastSent
    BY <1>1, <1>7 DEF LastSent
  <2> QED BY <1>8, <1>9, <2>1 DEF History, Whole
<1> QED BY <1>13, <1>16, <1>17, <1>18, <1>19 DEF History

LEMMA OperateHistory ==
  ASSUME Coll!Historical, History, Coll!Operate PROVE History'
<1>1. PICK op \in Coll!Scheduled :
        /\ ops' = (ops \ {op}) \cup {[op EXCEPT !.at = "fetching", !.window = Coll!FormatInterval(Coll!IntervalBounds)]}
        /\ UNCHANGED <<job, now, interval, cron, cycle, bounds, asked, reload, repeat, windows, lost, resolved, faults>>
  BY DEF Coll!Operate
<1>2. PICK new : new = [op EXCEPT !.at = "fetching", !.window = Coll!FormatInterval(Coll!IntervalBounds)]
  OBVIOUS
<1>3. op \in ops /\ op.at = "scheduled" /\ OpOK(op)
  BY <1>1 DEF Coll!Scheduled, History, HistoryTypes
<1>4. /\ new.at = "fetching" /\ new.cycle = op.cycle /\ new.last = op.last
      /\ DOMAIN new = {"at", "cycle", "last", "window"}
      /\ new.window = [start |-> bounds.start * Minute, end |-> bounds.end * Minute]
  BY <1>2, <1>3 DEF OpOK, Coll!FormatInterval, Coll!IntervalBounds
<1>5. ops' = (ops \ {op}) \cup {new}
  BY <1>1, <1>2
<1>6. \A o \in ops : o # op => o.at = "fetching"
  BY <1>3 DEF History, HistoryTypes
<1>7. Ops("scheduled")' = {} /\ Ops("fetching")' = Ops("fetching") \cup {new} /\ Ops("batch")' = {} /\ Ops("scheduled") = {op}
      /\ new \in Ops("fetching")'
  BY <1>3, <1>4, <1>5, <1>6 DEF Ops
<1>8. ASSUME NEW c, Answered(c) PROVE Answered(c)'
  <2>1. job' = job /\ windows \subseteq windows' /\ lost \subseteq lost' /\ repeat' = repeat /\ Ops("fetching") \subseteq ops'
    BY <1>1, <1>7 DEF Ops
  <2> QED BY <1>8, <2>1, AnswersKept
<1>9. HistoryTypes'
  <2>1. ASSUME NEW o \in ops, o # op PROVE OpOK(o)'
    <3>1. OpOK(o) /\ o.at = "fetching"
      BY <1>6, <2>1 DEF History, HistoryTypes
    <3> QED BY <1>1, <3>1, JobKept DEF OpOK
  <2>2. OpOK(new)'
    <3>1. new.window = Window(Fetched(new.cycle))
      BY <1>3, <1>4 DEF OpOK, Window
    <3> QED BY <1>1, <1>3, <1>4, <3>1, JobKept DEF OpOK
  <2>3. \A o \in ops' : OpOK(o)'
    BY <1>5, <2>1, <2>2
  <2>4. \A o, p \in ops' : o.at # "fetching" /\ p.at # "fetching" => o = p
    BY <1>4, <1>5, <1>6
  <2>5. \A w \in windows' : \E c \in 0..(Coll!TotalCycles - 1)' : w = Window(c)'
    BY <1>1, JobKept DEF History, HistoryTypes
  <2>6. reload' = "none"
    BY <1>1, <1>3 DEF History, HistoryTypes, Ops
  <2> QED BY <1>1, <2>3, <2>4, <2>5, <2>6, JobKept DEF History, HistoryTypes
<1>10. \A c : Behind(c) => Behind(c)'
  BY <1>1, <1>7 DEF Behind
<1>11. NotFar'
  BY <1>1, <1>4, <1>7, <1>10 DEF History, NotFar
<1>12. \A c : c = op.cycle => Answered(c)'
  BY <1>4, <1>7 DEF Answered
<1>13. Passed'
  <2> SUFFICES ASSUME NEW c \in 0..(cycle - 1) PROVE Answered(c)'
    BY <1>1 DEF Passed
  <2> QED BY <1>7, <1>8, <1>12 DEF History, Passed
<1>14. Due'
  BY <1>1, <1>4, <1>5 DEF History, Due
<1>15. Whole'
  <2> SUFFICES ASSUME LastSent', NEW c \in 0..(Coll!TotalCycles - 1) PROVE Answered(c)'
    BY <1>1, JobKept DEF Whole
  <2>1. CASE LastSent
    BY <1>8, <2>1 DEF History, Whole
  <2>2. CASE ~LastSent
    <3>1. op.last
      BY <1>1, <1>4, <1>7, <2>2 DEF LastSent
    <3>2. cycle = Coll!TotalCycles
      BY <1>3, <3>1 DEF OpOK
    <3> QED BY <1>7, <1>8, <1>12, <3>2 DEF History, Passed
  <2> QED BY <2>1, <2>2
<1> QED BY <1>9, <1>11, <1>13, <1>14, <1>15 DEF History

\* An operation ends: its cycle is answered or about to be repeated.
LEMMA EndedHistory ==
  ASSUME Coll!Historical, History, NEW op \in Ops("fetching"),
         ops' = ops \ {op}, resolved' = (resolved \/ op.last), UNCHANGED <<job, cron, cycle, bounds>>,
         windows \subseteq windows', lost \subseteq lost',
         \A w \in windows' : \E c \in 0..(Coll!TotalCycles - 1) : w = Window(c),
         \A c \in 0..(Coll!TotalCycles - 1) : c = op.cycle => Answered(c)',
         repeat \subseteq repeat' \cup {op.cycle}, repeat' \subseteq repeat \cup {op.cycle},
         op.cycle \in repeat' => asked',
         asked => asked',
         reload' = reload
  PROVE  History'
<1>1. op \in ops /\ op.at = "fetching" /\ OpOK(op) /\ op.cycle \in 0..Coll!TotalCycles
  BY DEF Ops, History, HistoryTypes, OpOK
<1>2. /\ Ops("scheduled")' = Ops("scheduled") /\ Ops("batch")' = Ops("batch")
      /\ Ops("fetching")' = Ops("fetching") \ {op}
  BY <1>1 DEF Ops
<1>3. Coll!TotalCycles \in Nat \ {0} /\ cycle \in 0..Coll!TotalCycles
  BY CycleCount DEF History, HistoryTypes
<1>4. ASSUME NEW c \in 0..(Coll!TotalCycles - 1), Answered(c) PROVE Answered(c)'
  <2>1. CASE c = op.cycle
    BY <2>1
  <2>2. CASE c # op.cycle
    <3>1. c \in repeat => c \in repeat'
      BY <2>2
    <3>2. \A o \in Ops("fetching") : o.cycle = c => o \in ops'
      BY <2>2 DEF Ops
    <3>3. job' = job
      OBVIOUS
    <3> QED BY ONLY <1>4, <3>1, <3>2, <3>3, windows \subseteq windows', lost \subseteq lost', AnswersKept
  <2> QED BY <2>1, <2>2
<1>5. HistoryTypes'
  <2>1. ASSUME NEW o \in ops PROVE OpOK(o)'
    <3>1. OpOK(o)
      BY DEF History, HistoryTypes
    <3> QED BY <3>1, JobKept DEF OpOK
  <2>2. \A o, p \in ops' : o.at # "fetching" /\ p.at # "fetching" => o = p
    BY DEF History, HistoryTypes
  <2>3. \A w \in windows' : \E c \in 0..(Coll!TotalCycles - 1)' : w = Window(c)'
    BY JobKept
  <2>4. repeat' \subseteq 0..Coll!TotalCycles
    BY <1>1 DEF History, HistoryTypes
  <2>5. reload' # "none" => ops' = Ops("fetching")' /\ cron' = Coll!Off
    BY <1>2 DEF History, HistoryTypes
  <2> QED BY <2>1, <2>2, <2>3, <2>4, <2>5, JobKept DEF History, HistoryTypes
<1>6. \A c : Behind(c)' <=> Behind(c)
  BY <1>2 DEF Behind
<1>7. NotFar'
  BY <1>2, <1>6 DEF History, NotFar
<1>8. Passed'
  <2>1. 0..(cycle - 1) \subseteq 0..(Coll!TotalCycles - 1)
    BY <1>3
  <2> QED BY <1>2, <1>4, <2>1 DEF History, Passed
<1>9. Due'
  <2> SUFFICES ASSUME NEW c \in repeat', ~asked'
               PROVE  cycle <= c \/ \E o \in ops' : o.cycle = c
    BY DEF Due
  <2>1. c # op.cycle /\ c \in repeat
    OBVIOUS
  <2> QED BY <2>1 DEF History, Due
<1>10. Whole'
  <2>1. LastSent' => LastSent
    BY <1>2 DEF LastSent
  <2> QED BY <1>4, <2>1, JobKept DEF History, Whole
<1> QED BY <1>5, <1>7, <1>8, <1>9, <1>10 DEF History

LEMMA AnsweredHistory ==
  ASSUME Coll!Historical, History, NEW op \in ops, Coll!Publish(op) \/ Coll!FetchFails(op) \/ Coll!RateLimitExceeded(op)
  PROVE  History'
<1>1. op \in Ops("fetching") /\ OpOK(op) /\ op.window = Window(Fetched(op.cycle)) /\ op.cycle \in 0..Coll!TotalCycles
  BY DEF Coll!Publish, Coll!FetchFails, Coll!RateLimitExceeded, Coll!Ended, Ops, History, HistoryTypes, OpOK
<1>2. ops' = ops \ {op} /\ resolved' = (resolved \/ op.last) /\ UNCHANGED <<job, cron, cycle, bounds>>
  BY DEF Coll!Publish, Coll!FetchFails, Coll!RateLimitExceeded, Coll!Ended
<1>3. PICK T \in Nat \ {0} : T = Coll!TotalCycles
  BY CycleCount DEF History, HistoryTypes
<1>4. Fetched(op.cycle) \in 0..(T - 1)
  BY <1>1, <1>3 DEF Fetched, Coll!MinOf
<1>5. ASSUME NEW c \in 0..(T - 1), c = op.cycle
      PROVE  /\ op.window = Window(c) /\ Coll!Charts(op.window)' = Coll!InCycle(c)'
             /\ Coll!InCycle(c)' \subseteq Coll!Begins(op.window.start, op.window.end)'
  <2>1. Fetched(c) = c
    BY <1>3 DEF Fetched, Coll!MinOf
  <2>2. op.window = Window(c)
    BY <1>1, <1>5, <2>1
  <2>3. Coll!Charts(Window(c)) = Coll!InCycle(c) /\ Coll!InCycle(c) \subseteq Coll!Begins(Window(c).start, Window(c).end)
    BY <1>3, CycleCharts DEF History
  <2>4. \A w : Coll!Charts(w)' = Coll!Charts(w) /\ Coll!Begins(w.start, w.end)' = Coll!Begins(w.start, w.end)
    BY <1>2
      DEF Coll!Charts, Coll!Timeframe, Coll!Limit, Coll!FetchOHLCV, Coll!Historical, Coll!Ceil,
        Coll!Begins
  <2> QED BY <1>2, <2>2, <2>3, <2>4, JobKept
<1>6. \A w \in windows : \E c \in 0..(T - 1) : w = Window(c)
  BY <1>3 DEF History, HistoryTypes
<1>7. CASE Coll!Publish(op)
  <2>1. windows' = windows \cup {op.window} /\ repeat' = repeat \ {op.cycle} /\ asked' = asked /\ reload' = reload /\ lost' = lost
    BY <1>7 DEF Coll!Publish
  <2>2. ASSUME NEW c \in 0..(T - 1), c = op.cycle PROVE Answered(c)'
    <3>1. Coll!Charts(op.window)' \subseteq Coll!Recorded'
      BY <2>1 DEF Coll!Recorded
    <3> QED BY <1>5, <2>2, <3>1 DEF Answered
  <2>3. \A w \in windows' : \E c \in 0..(T - 1) : w = Window(c)
    BY <1>1, <1>4, <1>6, <2>1
  <2> QED BY <1>1, <1>2, <1>3, <2>1, <2>2, <2>3, EndedHistory
<1>8. CASE Coll!FetchFails(op)
  <2>1. lost' = lost \cup {op.window} /\ repeat' = repeat \ {op.cycle} /\ asked' = asked /\ reload' = reload /\ windows' = windows
    BY <1>8 DEF Coll!FetchFails
  <2>2. ASSUME NEW c \in 0..(T - 1), c = op.cycle PROVE Answered(c)'
    <3>1. Coll!Begins(op.window.start, op.window.end)' \subseteq Coll!Lost'
      BY <2>1 DEF Coll!Lost
    <3> QED BY <1>5, <2>2, <3>1 DEF Answered
  <2> QED BY <1>1, <1>2, <1>3, <1>6, <2>1, <2>2, EndedHistory
<1>9. CASE Coll!RateLimitExceeded(op)
  <2>1. /\ asked' = TRUE /\ reload' = reload
        /\ lost' = lost /\ windows' = windows /\ repeat' = repeat \cup {op.cycle}
    BY <1>9 DEF Coll!RateLimitExceeded
  <2>2. ASSUME NEW c \in 0..(T - 1), c = op.cycle PROVE Answered(c)'
    BY <2>1, <2>2 DEF Answered
  <2> QED BY <1>1, <1>2, <1>3, <1>6, <2>1, <2>2, EndedHistory
<1> QED BY <1>7, <1>8, <1>9

LEMMA StopHistory ==
  ASSUME Coll!Historical, History, Coll!Stop PROVE History'
<1>1. /\ reload' # "none" /\ cron' = Coll!Off /\ ops' = Ops("fetching") /\ cycle' = Coll!BackoffCycles /\ lost' = lost
      /\ UNCHANGED <<job, now, interval, bounds, repeat, windows, resolved>>
  BY DEF Coll!Stop, Ops
<1>2. Ops("scheduled")' = {} /\ Ops("batch")' = {} /\ Ops("fetching")' = Ops("fetching") /\ \A op \in ops' : op.at = "fetching"
  BY <1>1 DEF Ops
<1>3. PICK T \in Nat \ {0} : T = Coll!TotalCycles
  BY CycleCount DEF History, HistoryTypes
<1>4. PICK k \in 0..T, b \in Nat \ {0} : k = cycle /\ b = job.reloadCyclesBackoff
  BY <1>3 DEF History, HistoryTypes
<1>5. cycle' = (IF k < b THEN 0 ELSE k - b)
  BY <1>1, <1>4 DEF Coll!BackoffCycles, Coll!MinOf
<1>6. cycle' \in 0..T /\ cycle' # T /\ cycle' <= k
  BY <1>3, <1>4, <1>5
<1>7. ASSUME NEW c, Answered(c) PROVE Answered(c)'
  <2>1. job' = job /\ windows \subseteq windows' /\ lost \subseteq lost' /\ repeat' = repeat /\ Ops("fetching") \subseteq ops'
    BY <1>1
  <2> QED BY <1>7, <2>1, AnswersKept
<1>8. HistoryTypes'
  <2>1. ASSUME NEW o \in ops' PROVE OpOK(o)'
    <3>1. OpOK(o) /\ o.at = "fetching"
      BY <1>1, <2>1 DEF Ops, History, HistoryTypes
    <3> QED BY <1>1, <3>1, JobKept DEF OpOK
  <2>2. \A w \in windows' : \E c \in 0..(Coll!TotalCycles - 1)' : w = Window(c)'
    BY <1>1, JobKept DEF History, HistoryTypes
  <2> QED BY <1>1, <1>2, <1>3, <1>6, <2>1, <2>2, JobKept DEF History, HistoryTypes
<1>9. ASSUME NEW c \in 0..T, Behind(c) PROVE cycle' <= c /\ Behind(c)'
  <2>1. k <= c + b
    BY <1>4, <1>9 DEF Behind
  <2>2. cycle' <= c /\ cycle' <= c + b
    BY <1>4, <1>5, <2>1
  <2> QED BY <1>1, <1>2, <1>4, <2>2 DEF Behind
<1>10. (\A op \in ops : op.cycle \in 0..T) /\ repeat \subseteq 0..T
  BY <1>3 DEF History, HistoryTypes, OpOK
<1>11. NotFar'
  <2>1. \A op \in Ops("fetching") : Behind(op.cycle)'
    <3>1. \A op \in Ops("fetching") : op.cycle \in 0..T /\ Behind(op.cycle)
      BY <1>10 DEF Ops, History, NotFar
    <3> QED BY <1>9, <3>1
  <2>2. \A c \in repeat : Behind(c)'
    BY <1>9, <1>10 DEF History, NotFar
  <2> QED BY <1>1, <1>2, <2>1, <2>2 DEF NotFar
<1>12. Passed'
  <2> SUFFICES ASSUME NEW c \in 0..(cycle' - 1) PROVE Answered(c)'
    BY DEF Passed
  <2>1. c \in 0..T /\ c < cycle' /\ c \in 0..(cycle - 1)
    <3>1. PICK n \in 0..T : n = cycle' /\ n <= k
      BY <1>6
    <3>2. c \in 0..(n - 1)
      BY <3>1
    <3>3. n \in Int /\ k \in Int /\ T \in Int /\ n <= k /\ k <= T
      BY <3>1
    <3>4. \A d \in 0..(n - 1) : d \in 0..T /\ d < n /\ d \in 0..(k - 1)
      BY ONLY <3>3
    <3>5. c \in 0..T /\ c < n /\ c \in 0..(k - 1)
      BY ONLY <3>2, <3>4
    <3> QED BY <1>4, <3>1, <3>5
  <2>2. CASE \E op \in Ops("scheduled") : op.cycle = c
    <3>1. Behind(c)
      BY <2>2 DEF History, NotFar
    <3> QED BY <1>6, <1>9, <2>1, <3>1
  <2>3. CASE Answered(c)
    BY <1>7, <2>3
  <2> QED BY <2>1, <2>2, <2>3 DEF History, Passed
<1>13. Due'
  BY <1>1, <1>9, <1>10 DEF History, NotFar, Due
<1>14. Whole'
  <2>1. LastSent' => LastSent
    BY <1>1, <1>2 DEF LastSent
  <2> QED BY <1>1, <1>7, <2>1, JobKept DEF History, Whole
<1> QED BY <1>8, <1>11, <1>12, <1>13, <1>14 DEF History

LEMMA StartHistory ==
  ASSUME Coll!Historical, History, Coll!Start PROVE History'
<1>1. /\ reload' = "none" /\ cron' = Coll!Never
      /\ UNCHANGED <<job, cycle, bounds, ops, asked, repeat, windows, lost, resolved>>
  BY DEF Coll!Start
<1>2. \A at : Ops(at)' = Ops(at)
  BY <1>1 DEF Ops
<1>3. ASSUME NEW c, Answered(c) PROVE Answered(c)'
  <2>1. job' = job /\ windows \subseteq windows' /\ lost \subseteq lost' /\ repeat' = repeat /\ Ops("fetching") \subseteq ops'
    BY <1>1 DEF Ops
  <2> QED BY <1>3, <2>1, AnswersKept
<1>4. HistoryTypes'
  <2>1. \A op \in ops : OpOK(op)' <=> OpOK(op)
    BY <1>1, JobKept DEF OpOK
  <2> QED BY <1>1, <2>1, JobKept DEF History, HistoryTypes
<1>5. \A c : Behind(c)' <=> Behind(c)
  BY <1>1, <1>2 DEF Behind
<1>6. NotFar' /\ Passed'
  BY <1>1, <1>2, <1>3, <1>5 DEF History, NotFar, Passed
<1>7. Due'
  BY <1>1 DEF History, Due
<1>8. Whole'
  <2>1. LastSent' => LastSent
    BY <1>1, <1>2 DEF LastSent
  <2> QED BY <1>1, <1>3, <2>1, JobKept DEF History, Whole
<1> QED BY <1>4, <1>6, <1>7, <1>8 DEF History

LEMMA HistoryStep ==
  ASSUME HistoryInv, [Coll!Next]_Coll!vars PROVE HistoryInv'
<1> SUFFICES ASSUME Coll!Historical' PROVE History'
  BY DEF HistoryInv
<1>1. CASE Coll!Next
  <2>1. job' = job
    BY <1>1
      DEF Coll!Next, Coll!CronRuns, Coll!RunOperations, Coll!Operate, Coll!Stop, Coll!Start,
        Coll!Publish, Coll!FetchFails, Coll!RateLimitExceeded
  <2>2. Coll!Historical /\ History
    BY <2>1, JobKept DEF HistoryInv
  <2> QED BY <1>1, <2>2, CronHistory, RunHistory, OperateHistory, StopHistory, StartHistory, AnsweredHistory
    DEF Coll!Next
<1>2. CASE UNCHANGED Coll!vars
  <2>1. UNCHANGED <<job, cron, cycle, bounds, ops, asked, reload, repeat, windows, lost, resolved>>
    BY <1>2 DEF Coll!vars
  <2>2. History
    BY <2>1, JobKept DEF HistoryInv
  <2>3. \A at : Ops(at)' = Ops(at)
    BY <2>1 DEF Ops
  <2>4. \A c : (Answered(c) => Answered(c)') /\ (Behind(c) => Behind(c)')
    <3>1. Coll!Recorded \subseteq Coll!Recorded' /\ Coll!Lost \subseteq Coll!Lost'
      BY <2>1, RecordsKept
    <3> QED BY <2>1, <2>3, <3>1, JobKept DEF Answered, Behind
  <2>5. HistoryTypes'
    <3>1. \A op : OpOK(op) => OpOK(op)'
      BY <2>1, JobKept DEF OpOK
    <3> QED BY <2>1, <2>2, <2>3, <3>1, JobKept DEF History, HistoryTypes
  <2>6. NotFar' /\ Passed' /\ Due'
    BY <2>1, <2>2, <2>3, <2>4 DEF History, NotFar, Passed, Due
  <2>7. Whole'
    BY <2>1, <2>2, <2>3, <2>4, JobKept DEF History, Whole, LastSent
  <2> QED BY <2>5, <2>6, <2>7 DEF History
<1> QED BY <1>1, <1>2

\* A cycle that is answered is accounted for.
LEMMA AnsweredAccounted ==
  ASSUME Coll!Historical, HistoryTypes, NEW c \in 0..(Coll!TotalCycles - 1), Answered(c)
  PROVE  Coll!Accounted(c)
<1>1. CASE \E op \in Ops("fetching") : op.cycle = c
  <2>1. PICK op \in Ops("fetching") : op.cycle = c
    BY <1>1
  <2>2. op \in ops /\ op.at = "fetching" /\ op.window = Window(Fetched(c))
    BY <2>1 DEF Ops, HistoryTypes, OpOK
  <2>3. Fetched(c) = c
    <3>1. Coll!TotalCycles \in Nat
      BY CycleCount DEF HistoryTypes
    <3> QED BY <3>1 DEF Fetched, Coll!MinOf
  <2>4. Coll!Charts(op.window) = Coll!InCycle(c)
    BY <2>2, <2>3, CycleCharts
  <2>5. Coll!InCycle(c) \subseteq Coll!Fetching
    BY <2>2, <2>4 DEF Coll!Fetching
  <2> QED BY <2>5 DEF Coll!Accounted
<1>2. CASE ~\E op \in Ops("fetching") : op.cycle = c
  BY <1>2 DEF Answered, Coll!Accounted
<1> QED BY <1>1, <1>2

LEMMA HistoryRange ==
  ASSUME HistoryInv PROVE Coll!RangeCollected
<1> SUFFICES ASSUME Coll!Historical, History
             PROVE  /\ \A c \in 0..(cycle - 1) : Coll!Accounted(c) \/ \E op \in Coll!Scheduled : op.cycle = c
                    /\ \A c \in repeat : asked \/ cycle <= c \/ \E op \in ops : op.cycle = c
                    /\ Coll!Recorded \subseteq {m * Minute : m \in 0..(job.minutes - 1)}
                    /\ resolved => \A c \in 0..(Coll!TotalCycles - 1) : Coll!Accounted(c)
  BY DEF HistoryInv, Coll!RangeCollected
<1>1. \A c \in 0..(Coll!TotalCycles - 1) : Answered(c) => Coll!Accounted(c)
  BY AnsweredAccounted DEF History
<1>2. Ops("scheduled") = Coll!Scheduled
  BY DEF Ops, Coll!Scheduled
<1>3. 0..(cycle - 1) \subseteq 0..(Coll!TotalCycles - 1)
  <2>1. Coll!TotalCycles \in Nat /\ cycle \in 0..Coll!TotalCycles
    BY CycleCount DEF History, HistoryTypes
  <2> QED BY <2>1
<1>4. \A w \in windows : Coll!Charts(w) \subseteq {m * Minute : m \in 0..(job.minutes - 1)}
  <2> SUFFICES ASSUME NEW w \in windows PROVE Coll!Charts(w) \subseteq {m * Minute : m \in 0..(job.minutes - 1)}
    OBVIOUS
  <2>1. PICK c \in 0..(Coll!TotalCycles - 1) : w = Window(c)
    BY DEF History, HistoryTypes
  <2> QED BY <2>1, CycleCharts DEF History
<1>5. \A c \in 0..(cycle - 1) : Coll!Accounted(c) \/ \E op \in Coll!Scheduled : op.cycle = c
  BY <1>1, <1>2, <1>3 DEF History, Passed
<1>6. \A c \in repeat : asked \/ cycle <= c \/ \E op \in ops : op.cycle = c
  BY DEF History, Due
<1>7. Coll!Recorded \subseteq {m * Minute : m \in 0..(job.minutes - 1)}
  BY <1>4 DEF Coll!Recorded
<1>8. resolved => \A c \in 0..(Coll!TotalCycles - 1) : Coll!Accounted(c)
  BY <1>1 DEF History, Whole, LastSent
<1> QED BY <1>5, <1>6, <1>7, <1>8

\* Every cycle that the counter of RestrictedHistoricalScheduler has passed is
\* recorded, on its way, lost to an error, or about to be repeated by a backoff,
\* however many minutes and cycles there are; and no candle outside of the range is.
THEOREM RangeCollectedHolds == ASSUME Configured PROVE Coll!Spec => []Coll!RangeCollected
<1>1. Coll!Init => HistoryInv
  BY HistInit
<1>2. HistoryInv /\ [Coll!Next]_Coll!vars => HistoryInv'
  BY HistoryStep
<1>3. HistoryInv => Coll!RangeCollected
  BY HistoryRange
<1> QED BY <1>1, <1>2, <1>3, PTL DEF Coll!Spec

-----------------------------------------------------------------------------
(* In real time.  Windows follow each other up to an edge. *)

ToFetch == \E op \in ops : op.at # "fetching"
Collected == windows \cup {op.window : op \in Ops("fetching")}
Pieces == Collected \cup lost

Tiled(edge) ==
  /\ edge <= now - Minute
  /\ (IF ToFetch THEN now - interval ELSE Coll!LastRun) - Minute <= edge
  /\ \A p \in Pieces : p.start \in Int /\ p.end \in Int /\ -Minute <= p.start /\ p.end <= edge
  /\ \A p \in Collected : \A t \in p.start..(edge - 1) : \E q \in Pieces : t \in q.start..(q.end - 1)

RealtimeTypes ==
  /\ Minute \in Nat \ {0} /\ interval \in Nat \ {0} /\ now \in Nat
  /\ \A op \in ops : op.at \in {"batch", "scheduled", "fetching"} /\ DOMAIN op = {"at", "cycle", "last", "window"}
  /\ \A o, p \in ops : o.at # "fetching" /\ p.at # "fetching" => o = p
  /\ ToFetch => cron = now /\ interval <= now /\ Coll!LastRun = now
  /\ reload # "none" => ~ToFetch /\ cron = Coll!Off

Realtime == RealtimeTypes /\ \E edge \in Int : Tiled(edge)

RealtimeInv == ~Coll!Historical => Realtime

LEMMA CeilIs ==
  ASSUME NEW n \in Int, NEW d \in Nat \ {0}, NEW q, q = Coll!Ceil(n, d)
  PROVE  q \in Int /\ d * q >= n /\ d * q <= n + d - 1
<1>1. PICK m \in Int : m = n + d - 1
  OBVIOUS
<1>2. PICK k \in Int : k = m \div d
  OBVIOUS
<1>3. d * k <= m /\ m < d * k + d
  BY <1>2
<1> QED BY <1>1, <1>2, <1>3 DEF Coll!Ceil

LEMMA Multiple ==
  ASSUME NEW n \in Int, NEW d \in Nat \ {0}, n % d = 0
  PROVE  \E k \in Int : n = d * k
<1>1. PICK k \in Int : k = n \div d
  OBVIOUS
<1>2. n = d * k + (n % d)
  BY <1>1
<1> QED BY <1>2

LEMMA Factor ==
  ASSUME NEW d \in Nat \ {0}, NEW a \in Int, NEW b \in Int, d * a < d * b
  PROVE  a < b
<1> SUFFICES ASSUME a >= b PROVE d * a >= d * b
  OBVIOUS
<1>1. PICK k \in Nat : a = b + k
  <2>1. a - b \in Nat /\ a = b + (a - b)
    OBVIOUS
  <2> QED BY <2>1
<1>2. d * a = d * b + d * k /\ d * k \in Nat
  BY <1>1
<1> QED BY <1>2

\* A window of time: an exchange answers with every candle that begins in it.
LEMMA ChartsBegin ==
  ASSUME Minute \in Nat \ {0}, NEW w, w.start \in Int, w.end \in Int,
         NEW t \in Coll!Begins(w.start, w.end)
  PROVE  t \in Coll!Charts(w)
<1>1. PICK from \in Int, to \in Int, M \in Nat \ {0} : from = w.start /\ to = w.end /\ M = Minute
  OBVIOUS
<1>2. t \in Int /\ from <= t /\ t < to /\ t % M = 0
  BY <1>1 DEF Coll!Begins
<1>3. PICK frame \in Nat \ {0} : frame = Coll!Timeframe(w) /\ (frame = M \/ frame = 1)
  BY <1>1 DEF Coll!Timeframe
<1>4. PICK k \in Int : t = frame * k
  <2>1. CASE frame = 1
    BY <1>2, <2>1
  <2>2. CASE frame = M
    BY <1>2, <2>2, Multiple
  <2> QED BY <1>3, <2>1, <2>2
<1>5. PICK first \in Int : first = Coll!Ceil(from, frame) /\ frame * first >= from /\ frame * first <= from + frame - 1
  BY CeilIs
<1>6. PICK limit \in Int : limit = Coll!Ceil(to - from, frame) /\ frame * limit >= to - from
  <2>1. PICK length \in Int : length = to - from
    OBVIOUS
  <2> QED BY <2>1, CeilIs
<1>7. first <= k
  <2>1. frame * (k + 1) = frame * k + frame /\ frame * first \in Int
    OBVIOUS
  <2>2. frame * first < frame * (k + 1)
    BY <1>2, <1>4, <1>5, <2>1
  <2>3. PICK l \in Int : l = k + 1
    OBVIOUS
  <2>4. first < l
    BY <2>2, <2>3, Factor
  <2> QED BY <2>3, <2>4
<1>8. k - first < limit
  <2>1. PICK i \in Int : i = k - first
    OBVIOUS
  <2>2. frame * i = frame * k - frame * first /\ frame * first \in Int /\ frame * k \in Int /\ frame * limit \in Int
    BY <2>1
  <2>3. frame * i < frame * limit
    BY <1>2, <1>4, <1>5, <1>6, <2>2
  <2>4. i < limit
    BY <2>3, Factor
  <2> QED BY <2>1, <2>4
<1>9. PICK i \in 0..(limit - 1) : k = first + i
  <2>1. k - first \in 0..(limit - 1) /\ k = first + (k - first)
    BY <1>7, <1>8
  <2> QED BY <2>1
<1>10. t \in Coll!FetchOHLCV(frame, from, limit)
  BY <1>4, <1>5, <1>9 DEF Coll!FetchOHLCV
<1>11. Coll!Limit(w) = limit
  BY <1>1, <1>3, <1>6 DEF Coll!Limit
<1> QED BY <1>1, <1>2, <1>3, <1>10, <1>11 DEF Coll!Charts

\* It answers with none after that if the timeframe is short enough.
LEMMA ChartsEnd ==
  ASSUME Minute \in Nat \ {0}, NEW w, w.start \in Int, w.end \in Int,
         Coll!Timeframe(w) = 1 \/ (w.end - w.start) % Minute = 0, NEW t \in Coll!Charts(w)
  PROVE  t < w.end
<1>1. PICK from \in Int, to \in Int, M \in Nat \ {0} : from = w.start /\ to = w.end /\ M = Minute
  OBVIOUS
<1>2. PICK frame \in Nat \ {0} : frame = Coll!Timeframe(w) /\ (frame = M \/ frame = 1)
  BY <1>1 DEF Coll!Timeframe
<1>3. PICK length \in Int : length = to - from
  OBVIOUS
<1>4. PICK k \in Int : length = frame * k
  <2>1. CASE frame = 1
    BY <1>3, <2>1
  <2>2. CASE frame = M /\ frame # 1
    <3>1. length % M = 0
      <4>1. Coll!Timeframe(w) # 1
        BY <1>2, <2>2
      <4> QED BY <1>1, <1>3, <4>1
    <3> QED BY <2>2, <3>1, Multiple
  <2> QED BY <1>2, <2>1, <2>2
<1>5. PICK first \in Int : first = Coll!Ceil(from, frame) /\ frame * first <= from + frame - 1
  BY CeilIs
<1>6. PICK limit \in Int : limit = Coll!Ceil(length, frame) /\ frame * limit <= length + frame - 1
  BY CeilIs
<1>7. limit <= k
  <2>1. PICK l \in Int : l = k + 1
    OBVIOUS
  <2>2. frame * l = frame * k + frame /\ frame * limit \in Int
    BY <2>1
  <2>3. frame * limit < frame * l
    BY <1>4, <1>6, <2>2
  <2>4. limit < l
    BY <2>3, Factor
  <2> QED BY <2>1, <2>4
<1>8. Coll!Limit(w) = limit
  BY <1>1, <1>2, <1>3, <1>6 DEF Coll!Limit
<1>9. PICK i \in 0..(limit - 1) : t = frame * (first + i)
  BY <1>1, <1>2, <1>5, <1>8 DEF Coll!Charts, Coll!FetchOHLCV
<1>10. PICK j \in Nat : k = i + 1 + j
  <2>1. k - i - 1 \in Nat /\ k = i + 1 + (k - i - 1)
    BY <1>7
  <2> QED BY <2>1
<1>11. frame * (first + i) = frame * first + frame * i /\ frame * k = frame * i + frame + frame * j
       /\ frame * j \in Nat /\ frame * first \in Int /\ frame * i \in Int
  BY <1>10
<1> QED BY <1>1, <1>3, <1>4, <1>5, <1>9, <1>11

\* The least and the greatest of a set that has bounds.
LEMMA LeastNatural ==
  ASSUME NEW S, S \subseteq Nat, S # {} PROVE \E n \in S : \A m \in S : n <= m
<1>1. PICK n \in S : \A m \in S : <<m, n>> \notin OpToRel(<, Nat)
  BY NatLessThanWellFounded, WFMin
<1>2. \A m \in S : ~(m < n)
  BY <1>1 DEF OpToRel
<1> QED BY <1>2

LEMMA LeastNumber ==
  ASSUME NEW S, S # {}, NEW least \in Int, \A x \in S : x \in Int /\ x >= least
  PROVE  Coll!Min(S) \in S
<1> DEFINE N == {x - least : x \in S}
<1>1. N \subseteq Nat /\ N # {}
  OBVIOUS
<1>2. PICK n \in N : \A m \in N : n <= m
  BY <1>1, LeastNatural
<1>3. PICK x \in S : n = x - least
  OBVIOUS
<1>4. \A y \in S : x <= y
  <2> SUFFICES ASSUME NEW y \in S PROVE x <= y
    OBVIOUS
  <2>1. n <= y - least
    BY <1>2
  <2> QED BY <1>3, <2>1
<1> QED BY <1>4 DEF Coll!Min

LEMMA GreatestNumber ==
  ASSUME NEW S, S # {}, NEW greatest \in Int, \A x \in S : x \in Int /\ x <= greatest
  PROVE  Coll!Max(S) \in S
<1> DEFINE N == {greatest - x : x \in S}
<1>1. N \subseteq Nat /\ N # {}
  OBVIOUS
<1>2. PICK n \in N : \A m \in N : n <= m
  BY <1>1, LeastNatural
<1>3. PICK x \in S : n = greatest - x
  OBVIOUS
<1>4. \A y \in S : x >= y
  <2> SUFFICES ASSUME NEW y \in S PROVE x >= y
    OBVIOUS
  <2>1. n <= greatest - y
    BY <1>2
  <2> QED BY <1>3, <2>1
<1> QED BY <1>4 DEF Coll!Max

\* A window that begins at the edge, or before, moves it on to its end.
LEMMA EdgeMoves ==
  ASSUME NEW edge \in Int, Tiled(edge), Minute \in Nat, NEW p, Pieces' = Pieces \cup {p}, Collected' \subseteq Collected \cup {p},
         NEW to \in Int, p.start \in Int, p.end \in Int, p.end <= to, -Minute <= p.start, p.start <= edge, edge <= to,
         p.end = to, to <= now' - Minute, (IF ToFetch THEN now - interval ELSE Coll!LastRun)' - Minute <= to
  PROVE  Tiled(to)'
<1>1. \A q \in Pieces' : q.start \in Int /\ q.end \in Int /\ -Minute <= q.start /\ q.end <= to
  <2>1. \A q \in Pieces : q.start \in Int /\ q.end \in Int /\ -Minute <= q.start /\ q.end <= edge
    BY DEF Tiled
  <2> QED BY <2>1
<1>2. ASSUME NEW q \in Collected', NEW t \in q.start..(to - 1)
      PROVE  \E r \in Pieces' : t \in r.start..(r.end - 1)
  <2>1. q \in Pieces'
    BY <1>2 DEF Pieces
  <2>2. q.start \in Int /\ t \in Int /\ q.start <= t /\ t < to
    BY <1>1, <1>2, <2>1
  <2>3. CASE p.start <= t
    <3>1. t \in p.start..(p.end - 1) /\ p \in Pieces'
      BY <2>2, <2>3
    <3> QED BY <3>1
  <2>4. CASE t < p.start
    <3>1. q \in Collected /\ t \in q.start..(edge - 1)
      BY <1>2, <2>2, <2>4
    <3>2. PICK r \in Pieces : t \in r.start..(r.end - 1)
      BY <3>1 DEF Tiled
    <3> QED BY <3>2
  <2> QED BY <2>2, <2>3, <2>4
<1> QED BY <1>1, <1>2 DEF Tiled

\* The edge stays where nobody starts to wait or to fetch.
LEMMA EdgeStays ==
  ASSUME NEW edge \in Int, Tiled(edge), Pieces' = Pieces, Collected' \subseteq Collected, edge <= now' - Minute,
         (IF ToFetch THEN now - interval ELSE Coll!LastRun)' - Minute <= edge
  PROVE  Tiled(edge)'
BY DEF Tiled

\* The runs of an interval.
LEMMA Runs ==
  ASSUME NEW i \in Nat \ {0}, NEW n \in Nat
  PROVE  /\ i * (n \div i) \in Nat /\ i * (n \div i) <= n /\ n < i * (n \div i) + i
         /\ \A t \in n..(i * (n \div i) + i - 1) : t \div i = n \div i
<1>1. PICK k \in Nat : k = n \div i
  BY Quotient
<1>2. PICK e \in 0..(i - 1) : e = n % i
  BY Quotient
<1>3. n = i * k + e /\ i * k \in Nat
  BY <1>1, <1>2, Quotient
<1>4. ASSUME NEW t \in n..(i * k + i - 1) PROVE t \div i = k
  <2>1. PICK d \in 0..(i - 1) : t = i * k + d
    <3>1. t - i * k \in 0..(i - 1) /\ t = i * k + (t - i * k)
      BY <1>3
    <3> QED BY <3>1
  <2>2. t \in Nat
    BY <1>3, <2>1
  <2> QED BY <2>1, <2>2, QuotientIs
<1> QED BY <1>1, <1>3, <1>4

LEMMA LastRunIs ==
  ASSUME RealtimeTypes
  PROVE  /\ Coll!LastRun \in Nat /\ Coll!LastRun <= now /\ now < Coll!NextRun /\ Coll!NextRun = Coll!LastRun + interval
BY Runs DEF RealtimeTypes, Coll!LastRun, Coll!NextRun

LEMMA InitRealtime ==
  ASSUME Configured, Coll!Init PROVE RealtimeInv
<1> SUFFICES ASSUME ~Coll!Historical PROVE Realtime
  BY DEF RealtimeInv
<1>1. Pieces = {} /\ Collected = {} /\ ~ToFetch /\ now = 0
  BY DEF Coll!Init, Pieces, Collected, ToFetch, Ops
<1>2. RealtimeTypes
  BY <1>1 DEF Coll!Init, Configured, Coll!Historical, RealtimeTypes
<1>3. PICK M \in Nat : M = Minute
  BY <1>2 DEF RealtimeTypes
<1>4. Coll!LastRun \in Nat /\ Coll!LastRun <= 0
  BY <1>1, <1>2, LastRunIs
<1>5. Tiled(-M)
  BY <1>1, <1>3, <1>4 DEF Tiled
<1> QED BY <1>2, <1>5 DEF Realtime

\* The next run comes before the interval after the edge is over.
LEMMA CronRealtime ==
  ASSUME ~Coll!Historical, Realtime, Coll!CronRuns PROVE Realtime'
<1> DEFINE new == [at |-> "batch", cycle |-> cycle, last |-> FALSE, window |-> Coll!Nothing]
<1>1. /\ UNCHANGED <<job, interval, reload, windows, lost>> /\ ops' = ops \cup {new}
      /\ Coll!Scheduled = {} /\ cron # Coll!Off /\ \A op \in ops : op.at # "batch"
      /\ now' = Coll!NextRun /\ cron' = now'
  BY DEF Coll!CronRuns
<1>2. ~ToFetch
  BY <1>1 DEF Coll!Scheduled, ToFetch, Realtime, RealtimeTypes
<1>3. PICK i \in Nat \ {0}, n \in Nat, l \in Nat :
        i = interval /\ n = now /\ l = Coll!LastRun /\ now' = l + i /\ n < l + i
  BY <1>1, LastRunIs DEF Realtime, RealtimeTypes
<1>4. Pieces' = Pieces /\ Collected' = Collected /\ ToFetch'
  <2>1. Ops("fetching")' = Ops("fetching") /\ new \in ops' /\ new.at # "fetching"
    BY <1>1 DEF Ops
  <2> QED BY <1>1, <2>1 DEF Pieces, Collected, ToFetch
<1>5. Coll!LastRun' = now'
  <2>1. PICK k \in Nat : k = n \div i /\ l = i * k
    BY <1>3, Quotient DEF Coll!LastRun
  <2>2. PICK m \in Nat : m = l + i /\ m = i * (k + 1) + 0
    <3>1. i * (k + 1) = i * k + i
      OBVIOUS
    <3> QED BY <2>1, <3>1
  <2>3. PICK c \in Nat : c = k + 1
    OBVIOUS
  <2>4. m \div i = c
    BY <2>2, <2>3, QuotientIs
  <2> QED BY <1>1, <1>3, <2>2, <2>3, <2>4 DEF Coll!LastRun
<1>6. RealtimeTypes'
  <2>1. \A op \in ops' : op.at \in {"batch", "scheduled", "fetching"} /\ DOMAIN op = {"at", "cycle", "last", "window"}
    BY <1>1 DEF Realtime, RealtimeTypes
  <2>2. \A o, p \in ops' : o.at # "fetching" /\ p.at # "fetching" => o = p
    BY <1>1, <1>2 DEF ToFetch
  <2>3. reload' = "none"
    BY <1>1 DEF Realtime, RealtimeTypes
  <2>4. now' \in Nat /\ interval' <= now'
    BY <1>1, <1>3
  <2> HIDE DEF new
  <2> QED BY <1>1, <1>5, <2>1, <2>2, <2>3, <2>4 DEF Realtime, RealtimeTypes
<1>7. PICK edge \in Int : Tiled(edge)
  BY DEF Realtime
<1>8. PICK M \in Nat : M = Minute
  BY DEF Realtime, RealtimeTypes
<1>9. edge <= n - M /\ l - M <= edge
  BY <1>2, <1>3, <1>7, <1>8 DEF Tiled
<1>10. edge <= now' - Minute /\ now' - interval' - Minute <= edge
  BY <1>1, <1>3, <1>8, <1>9
<1>11. Tiled(edge)'
  BY <1>4, <1>7, <1>10, EdgeStays
<1> QED BY <1>6, <1>11 DEF Realtime

\* What is waiting goes on to wait.
LEMMA RunRealtime ==
  ASSUME ~Coll!Historical, Realtime, Coll!RunOperations PROVE Realtime'
<1>1. PICK op \in ops :
        /\ op.at = "batch"
        /\ ops' = (ops \ {op}) \cup
             {[op EXCEPT !.at = "scheduled", !.cycle = cycle, !.last = Coll!Historical /\ Coll!IsFinalCycle]}
        /\ UNCHANGED <<job, now, interval, cron, reload, windows, lost>>
  BY DEF Coll!RunOperations
<1>2. PICK new : new = [op EXCEPT !.at = "scheduled", !.cycle = cycle, !.last = Coll!Historical /\ Coll!IsFinalCycle]
  OBVIOUS
<1>3. DOMAIN op = {"at", "cycle", "last", "window"}
  BY DEF Realtime, RealtimeTypes
<1>4. new.at = "scheduled" /\ DOMAIN new = {"at", "cycle", "last", "window"} /\ ops' = (ops \ {op}) \cup {new}
  BY <1>1, <1>2, <1>3
<1>5. ToFetch /\ ToFetch' /\ Pieces' = Pieces /\ Collected' = Collected
  BY <1>1, <1>4 DEF ToFetch, Pieces, Collected, Ops
<1>6. \A o \in ops : o # op => o.at = "fetching"
  BY <1>1 DEF Realtime, RealtimeTypes
<1>7. RealtimeTypes'
  BY <1>1, <1>4, <1>5, <1>6 DEF Realtime, RealtimeTypes, Coll!LastRun
<1>8. \A edge \in Int : Tiled(edge) => Tiled(edge)'
  BY <1>1, <1>5 DEF Tiled
<1> QED BY <1>7, <1>8 DEF Realtime

\* The window that waits begins at the edge, or before.
LEMMA WaitingWindow ==
  ASSUME ~Coll!Historical, RealtimeTypes, ToFetch, NEW edge \in Int, Tiled(edge),
         NEW p, p = Coll!FormatInterval(Coll!IntervalBounds)
  PROVE  /\ p.start \in Int /\ p.end \in Int /\ p.end = now - Minute
         /\ -Minute <= p.start /\ p.start <= edge /\ edge <= p.end
<1>1. cron = now /\ interval <= now
  BY DEF RealtimeTypes
<1>2. p = [start |-> now - interval - Minute, end |-> now - Minute]
  BY <1>1 DEF Coll!FormatInterval, Coll!IntervalBounds
<1>3. now - interval - Minute <= edge /\ edge <= now - Minute
  BY DEF Tiled
<1>4. PICK M \in Nat \ {0}, i \in Nat \ {0}, n \in Nat : M = Minute /\ i = interval /\ n = now
  BY DEF RealtimeTypes
<1>5. i <= n /\ n - i - M <= edge /\ edge <= n - M
  BY <1>1, <1>3, <1>4
<1>6. p.start = n - i - M /\ p.end = n - M
  BY <1>2, <1>4
<1> QED BY <1>4, <1>5, <1>6

LEMMA OperateRealtime ==
  ASSUME ~Coll!Historical, Realtime, Coll!Operate PROVE Realtime'
<1>1. PICK op \in Coll!Scheduled :
        /\ ops' = (ops \ {op}) \cup {[op EXCEPT !.at = "fetching", !.window = Coll!FormatInterval(Coll!IntervalBounds)]}
        /\ UNCHANGED <<job, now, interval, cron, reload, windows, lost>>
  BY DEF Coll!Operate
<1>2. PICK p : p = Coll!FormatInterval(Coll!IntervalBounds)
  OBVIOUS
<1>3. PICK new : new = [op EXCEPT !.at = "fetching", !.window = p]
  OBVIOUS
<1>4. op \in ops /\ op.at = "scheduled" /\ DOMAIN op = {"at", "cycle", "last", "window"}
  BY <1>1 DEF Coll!Scheduled, Realtime, RealtimeTypes
<1>5. new.at = "fetching" /\ new.window = p /\ DOMAIN new = {"at", "cycle", "last", "window"}
      /\ ops' = (ops \ {op}) \cup {new}
  BY <1>1, <1>2, <1>3, <1>4
<1>6. \A o \in ops : o # op => o.at = "fetching"
  BY <1>4 DEF Realtime, RealtimeTypes
<1>7. ToFetch /\ ~ToFetch'
  BY <1>4, <1>5, <1>6 DEF ToFetch
<1>8. Pieces' = Pieces \cup {p} /\ Collected' = Collected \cup {p}
  <2>1. Ops("fetching")' = Ops("fetching") \cup {new}
    BY <1>4, <1>5 DEF Ops
  <2> QED BY <1>1, <1>5, <2>1 DEF Pieces, Collected
<1>9. RealtimeTypes' /\ Coll!LastRun' = now'
  BY <1>1, <1>5, <1>6, <1>7 DEF Realtime, RealtimeTypes, Coll!LastRun
<1>10. PICK edge \in Int : Tiled(edge)
  BY DEF Realtime
<1>11. /\ p.start \in Int /\ p.end \in Int /\ p.end = now - Minute
       /\ -Minute <= p.start /\ p.start <= edge /\ edge <= p.end
  BY <1>2, <1>7, <1>10, WaitingWindow DEF Realtime
<1>12. PICK to \in Int : to = p.end /\ to = now' - Minute
  BY <1>1, <1>11
<1>13. Tiled(to)'
  <2>1. Minute \in Nat /\ (IF ToFetch THEN now - interval ELSE Coll!LastRun)' - Minute' <= to
    BY <1>1, <1>7, <1>9, <1>12 DEF RealtimeTypes
  <2> QED BY <1>8, <1>10, <1>11, <1>12, <2>1, EdgeMoves
<1> QED BY <1>9, <1>13 DEF Realtime

LEMMA EndedRealtime ==
  ASSUME ~Coll!Historical, Realtime, NEW op \in ops, Coll!Publish(op) \/ Coll!FetchFails(op) \/ Coll!RateLimitExceeded(op)
  PROVE  Realtime'
<1>1. op.at = "fetching" /\ ops' = ops \ {op} /\ UNCHANGED <<job, now, interval, cron, reload>>
  BY DEF Coll!Publish, Coll!FetchFails, Coll!RateLimitExceeded, Coll!Ended
<1>2. ToFetch' <=> ToFetch
  BY <1>1 DEF ToFetch
<1>3. Ops("fetching")' = Ops("fetching") \ {op} /\ op \in Ops("fetching")
  BY <1>1 DEF Ops
<1>4. windows' \cup lost' = windows \cup lost \cup {op.window}
  BY DEF Coll!Publish, Coll!FetchFails, Coll!RateLimitExceeded
<1>5. Pieces' = Pieces
  BY <1>3, <1>4 DEF Pieces, Collected
<1>6. Collected' \subseteq Collected
  BY <1>3 DEF Coll!Publish, Coll!FetchFails, Coll!RateLimitExceeded, Collected
<1>7. RealtimeTypes' /\ Coll!LastRun' = Coll!LastRun
  BY <1>1, <1>2 DEF Realtime, RealtimeTypes, Coll!LastRun
<1>8. PICK edge \in Int : Tiled(edge)
  BY DEF Realtime
<1>9. Tiled(edge)'
  BY <1>1, <1>2, <1>5, <1>6, <1>7, <1>8 DEF Tiled
<1> QED BY <1>7, <1>9 DEF Realtime

LEMMA StopRealtime ==
  ASSUME ~Coll!Historical, Realtime, Coll!Stop PROVE Realtime'
<1>1. /\ reload' # "none" /\ cron' = Coll!Off /\ ops' = Ops("fetching")
      /\ now' \in now..(Coll!NextRun - 1) /\ UNCHANGED <<job, interval, windows>>
      /\ lost' = IF ops' = ops THEN lost ELSE lost \cup {Coll!FormatInterval(Coll!IntervalBounds)}
  BY DEF Coll!Stop, Ops
<1>2. ~ToFetch' /\ Ops("fetching")' = Ops("fetching") /\ Collected' = Collected
  BY <1>1 DEF ToFetch, Ops, Collected
<1>3. ops' = ops <=> ~ToFetch
  BY <1>1 DEF ToFetch, Ops
<1>4. PICK i \in Nat \ {0}, n \in Nat, M \in Nat, l \in Nat : i = interval /\ n = now /\ M = Minute /\ l = Coll!LastRun
  BY LastRunIs DEF Realtime, RealtimeTypes
<1>5. l <= n /\ Coll!NextRun = l + i
  BY <1>4, LastRunIs DEF Realtime
<1>6. PICK t \in Nat : t = now' /\ n <= t /\ t < l + i
  <2>1. now' \in n..(l + i - 1)
    BY <1>1, <1>4, <1>5
  <2> QED BY <2>1
<1>7. Coll!LastRun' = l
  <2>1. l = i * (n \div i)
    BY <1>4 DEF Coll!LastRun
  <2>2. t \in n..(i * (n \div i) + i - 1)
    BY <1>6, <2>1
  <2>3. t \div i = n \div i
    BY <2>2, Runs
  <2> QED BY <1>1, <1>4, <1>6, <2>1, <2>3 DEF Coll!LastRun
<1>8. RealtimeTypes'
  BY <1>1, <1>2, <1>6 DEF Realtime, RealtimeTypes, Ops
<1>9. PICK edge \in Int : Tiled(edge)
  BY DEF Realtime
<1>10. edge <= n - M /\ (ToFetch \/ l - M <= edge)
  BY <1>4, <1>9 DEF Tiled
<1>11. CASE ~ToFetch
  <2>1. Pieces' = Pieces
    BY <1>1, <1>2, <1>3, <1>11 DEF Pieces
  <2>2. edge <= t - M /\ l - M <= edge
    <3>1. l - M <= edge /\ edge <= n - M
      BY <1>10, <1>11
    <3>2. n <= t
      BY <1>6
    <3> QED BY <3>1, <3>2
  <2>3. edge <= now' - Minute /\ (IF ToFetch THEN now - interval ELSE Coll!LastRun)' - Minute <= edge
    BY <1>2, <1>4, <1>6, <1>7, <2>2
  <2>4. Tiled(edge)'
    BY <1>2, <1>9, <2>1, <2>3, EdgeStays
  <2> QED BY <1>8, <2>4 DEF Realtime
<1>12. CASE ToFetch
  <2>1. PICK p : p = Coll!FormatInterval(Coll!IntervalBounds)
    OBVIOUS
  <2>2. Pieces' = Pieces \cup {p}
    BY <1>1, <1>2, <1>3, <1>12, <2>1 DEF Pieces
  <2>3. /\ p.start \in Int /\ p.end \in Int /\ p.end = now - Minute
        /\ -Minute <= p.start /\ p.start <= edge /\ edge <= p.end
    BY <1>9, <1>12, <2>1, WaitingWindow DEF Realtime
  <2>4. PICK to \in Int : to = p.end /\ to = n - M
    BY <1>4, <2>3
  <2>5. to <= t - M /\ l - M <= to
    <3>1. n <= t /\ l <= n
      BY <1>5, <1>6
    <3>2. to = n - M
      BY <2>4
    <3> QED BY <3>1, <3>2
  <2>6. to <= now' - Minute /\ (IF ToFetch THEN now - interval ELSE Coll!LastRun)' - Minute <= to
    BY <1>2, <1>4, <1>6, <1>7, <2>5
  <2>7. Minute \in Nat /\ p.end <= to /\ p.end = to /\ edge <= to
    BY <1>4, <2>3, <2>4
  <2>8. Tiled(to)'
    BY <1>2, <1>9, <2>2, <2>3, <2>6, <2>7, EdgeMoves
  <2> QED BY <1>8, <2>8 DEF Realtime
<1> QED BY <1>11, <1>12

\* What lies between the runs of a reload is lost; if the new interval begins
\* earlier, its first window overlaps with the last one.
LEMMA StartRealtime ==
  ASSUME Intervals \subseteq Nat \ {0}, ~Coll!Historical, Realtime, Coll!Start PROVE Realtime'
<1>1. /\ reload # "none" /\ reload' = "none" /\ now' \in {now} \cup now..Horizon
      /\ interval' \in Intervals \/ interval' = interval
      /\ lost' = lost \cup {w \in {Coll!Between} : w.start < w.end}
      /\ UNCHANGED <<job, ops, windows>>
  BY DEF Coll!Start
<1>2. ~ToFetch /\ ~ToFetch' /\ Collected' = Collected
  BY <1>1 DEF Realtime, RealtimeTypes, ToFetch, Ops, Collected
<1>3. PICK n \in Nat, M \in Nat, l \in Nat : n = now /\ M = Minute /\ l = Coll!LastRun /\ l <= n
  BY LastRunIs DEF Realtime, RealtimeTypes
<1>4. PICK t \in Nat : t = now' /\ n <= t
  BY <1>1, <1>3
<1>5. RealtimeTypes'
  <2>1. interval' \in Nat \ {0} /\ now' \in Nat
    BY <1>1, <1>4 DEF Realtime, RealtimeTypes
  <2> QED BY <1>1, <1>2, <2>1 DEF Realtime, RealtimeTypes
<1>6. PICK m \in Nat : m = Coll!LastRun' /\ m <= t
  <2>1. PICK i \in Nat \ {0} : i = interval'
    BY <1>5 DEF RealtimeTypes
  <2>2. i * (t \div i) \in Nat /\ i * (t \div i) <= t
    BY Runs
  <2> QED BY <1>4, <2>1, <2>2 DEF Coll!LastRun
<1>7. PICK edge \in Int : Tiled(edge) /\ edge <= n - M /\ l - M <= edge
  BY <1>2, <1>3 DEF Realtime, Tiled
<1>8. PICK p : p = Coll!Between
  OBVIOUS
<1>9. p.start = l - M /\ p.end = m - M
  BY <1>3, <1>6, <1>8 DEF Coll!Between, Coll!FormatInterval
<1>10. p.start \in Int /\ p.end \in Int /\ -M <= p.start /\ p.start <= edge
  BY <1>7, <1>9
<1>11. CASE m - M <= edge
  <2>1. \A q \in Pieces' : q \in Pieces \/ q = p
    BY <1>1, <1>2, <1>8 DEF Pieces
  <2>2. Pieces \subseteq Pieces'
    BY <1>1, <1>2 DEF Pieces
  <2>3. p.end <= edge /\ -Minute <= p.start
    BY <1>3, <1>9, <1>10, <1>11
  <2>4. \A q \in Pieces' : q.start \in Int /\ q.end \in Int /\ -Minute <= q.start /\ q.end <= edge
    BY <1>7, <1>10, <2>1, <2>3 DEF Tiled
  <2>5. \A q \in Collected' : \A u \in q.start..(edge - 1) : \E r \in Pieces' : u \in r.start..(r.end - 1)
    BY <1>2, <1>7, <2>2 DEF Tiled
  <2>6. edge <= t - M /\ m - M <= edge
    <3>1. n <= t
      BY <1>4
    <3> QED BY <1>7, <1>11, <3>1
  <2>7. edge <= now' - Minute /\ (IF ToFetch THEN now - interval ELSE Coll!LastRun)' - Minute <= edge
    BY <1>2, <1>3, <1>4, <1>6, <2>6
  <2>8. Tiled(edge)'
    BY <2>4, <2>5, <2>7 DEF Tiled
  <2> QED BY <1>5, <2>8 DEF Realtime
<1>12. CASE edge < m - M
  <2>1. PICK to \in Int : to = m - M
    OBVIOUS
  <2>2. Pieces' = Pieces \cup {p}
    <3>1. p.start < p.end
      BY <1>7, <1>9, <1>12
    <3> QED BY <1>1, <1>2, <1>8, <3>1 DEF Pieces
  <2>3. to <= t - M /\ m - M <= to
    <3>1. m <= t
      BY <1>6
    <3> QED BY <2>1, <3>1
  <2>4. to <= now' - Minute /\ (IF ToFetch THEN now - interval ELSE Coll!LastRun)' - Minute <= to
    BY <1>2, <1>3, <1>4, <1>6, <2>3
  <2>5. Minute \in Nat /\ -Minute <= p.start /\ p.end = to /\ p.end <= to /\ edge <= to
    BY <1>3, <1>9, <1>10, <1>12, <2>1
  <2>6. Tiled(to)'
    BY <1>2, <1>7, <1>10, <2>2, <2>4, <2>5, EdgeMoves
  <2> QED BY <1>5, <2>6 DEF Realtime
<1>13. m - M <= edge \/ edge < m - M
  OBVIOUS
<1> QED BY <1>11, <1>12, <1>13

LEMMA RealtimeStep ==
  ASSUME Configured, RealtimeInv, [Coll!Next]_Coll!vars PROVE RealtimeInv'
<1> SUFFICES ASSUME ~Coll!Historical' PROVE Realtime'
  BY DEF RealtimeInv
<1>1. CASE Coll!Next
  <2>1. job' = job
    BY <1>1
      DEF Coll!Next, Coll!CronRuns, Coll!RunOperations, Coll!Operate, Coll!Stop, Coll!Start,
        Coll!Publish, Coll!FetchFails, Coll!RateLimitExceeded
  <2>2. ~Coll!Historical /\ Realtime /\ Intervals \subseteq Nat \ {0}
    BY <2>1 DEF RealtimeInv, Coll!Historical, Configured
  <2> QED BY <1>1, <2>2, CronRealtime, RunRealtime, OperateRealtime, StopRealtime, StartRealtime, EndedRealtime
    DEF Coll!Next
<1>2. CASE UNCHANGED Coll!vars
  <2>1. UNCHANGED <<job, now, interval, cron, ops, reload, windows, lost>>
    BY <1>2 DEF Coll!vars
  <2>2. Realtime
    BY <2>1 DEF RealtimeInv, Coll!Historical
  <2>3. (ToFetch' <=> ToFetch) /\ Pieces' = Pieces /\ Collected' = Collected /\ Coll!LastRun' = Coll!LastRun
    BY <2>1 DEF ToFetch, Pieces, Collected, Ops, Coll!LastRun
  <2>4. RealtimeTypes'
    BY <2>1, <2>2, <2>3 DEF Realtime, RealtimeTypes
  <2>5. \A edge \in Int : Tiled(edge) => Tiled(edge)'
    BY <2>1, <2>3 DEF Tiled
  <2> QED BY <2>2, <2>4, <2>5 DEF Realtime
<1> QED BY <1>1, <1>2

LEMMA RealtimeGapless ==
  ASSUME RealtimeInv PROVE Coll!GaplessAndFinal
<1> DEFINE from == Coll!Min({w.start : w \in windows})
           to == Coll!Max({w.end : w \in windows})
<1> SUFFICES ASSUME ~Coll!Historical, Realtime, windows # {}
             PROVE  /\ Coll!Begins(from, to) \ Coll!Recorded \subseteq Coll!Fetching \cup Coll!Lost
                    /\ \A t \in Coll!Recorded : t + Minute <= now
                    /\ \A v, w \in windows :
                         v.end <= w.start /\ (Coll!Timeframe(v) = 1 \/ (v.end - v.start) % Minute = 0) =>
                           Coll!Charts(v) \cap Coll!Charts(w) = {}
  BY DEF RealtimeInv, Coll!GaplessAndFinal
<1>1. PICK edge \in Int : Tiled(edge)
  BY DEF Realtime
<1>2. PICK M \in Nat \ {0}, n \in Nat : M = Minute /\ n = now /\ edge <= n - M
  BY <1>1 DEF Realtime, RealtimeTypes, Tiled
<1>3. \A p \in Pieces : p.start \in Int /\ p.end \in Int /\ -M <= p.start /\ p.end <= edge
  BY <1>1, <1>2 DEF Tiled
<1>4. windows \subseteq Collected /\ Collected \subseteq Pieces
  BY DEF Pieces, Collected
<1>5. \A w \in windows : \A t \in Coll!Charts(w) : t \in Int /\ w.start <= t /\ t <= w.end
  <2> SUFFICES ASSUME NEW w \in windows, NEW t \in Coll!Charts(w) PROVE t \in Int /\ w.start <= t /\ t <= w.end
    OBVIOUS
  <2>1. PICK frame \in Nat \ {0} : frame = Coll!Timeframe(w)
    BY <1>2 DEF Coll!Timeframe
  <2>2. PICK first \in Int : first = Coll!Ceil(w.start, frame)
    BY <1>3, <1>4, CeilIs
  <2>3. PICK i \in Int : t = frame * (first + i)
    BY <2>1, <2>2 DEF Coll!Charts, Coll!FetchOHLCV
  <2>4. frame * (first + i) \in Int
    OBVIOUS
  <2> QED BY <2>3, <2>4 DEF Coll!Charts
<1>6. Coll!Begins(from, to) \ Coll!Recorded \subseteq Coll!Fetching \cup Coll!Lost
  <2>1. from \in {w.start : w \in windows}
    <3>1. PICK S : S = {w.start : w \in windows}
      OBVIOUS
    <3>2. S # {} /\ -M \in Int /\ \A x \in S : x \in Int /\ x >= -M
      BY <1>3, <1>4, <3>1
    <3>3. Coll!Min(S) \in S
      BY <3>2, LeastNumber
    <3> QED BY <3>1, <3>3
  <2>2. to \in {w.end : w \in windows}
    <3>1. PICK S : S = {w.end : w \in windows}
      OBVIOUS
    <3>2. S # {} /\ edge \in Int /\ \A x \in S : x \in Int /\ x <= edge
      BY <1>3, <1>4, <3>1
    <3>3. Coll!Max(S) \in S
      BY <3>2, GreatestNumber
    <3> QED BY <3>1, <3>3
  <2>3. PICK v \in Collected : from = v.start
    BY <1>4, <2>1
  <2>4. from \in Int /\ to \in Int /\ to <= edge
    BY <1>3, <1>4, <2>2, <2>3
  <2> HIDE DEF from, to
  <2> SUFFICES ASSUME NEW t \in Coll!Begins(from, to) PROVE t \in Coll!Recorded \cup Coll!Fetching \cup Coll!Lost
    OBVIOUS
  <2>5. t \in Int /\ from <= t /\ t < to /\ t % Minute = 0
    BY <2>4 DEF Coll!Begins
  <2>6. t \in v.start..(edge - 1)
    BY <2>3, <2>4, <2>5
  <2>7. PICK q \in Pieces : t \in q.start..(q.end - 1)
    BY <1>1, <2>6 DEF Tiled
  <2>8. t \in Coll!Begins(q.start, q.end) /\ q.start \in Int /\ q.end \in Int
    BY <1>3, <2>5, <2>7 DEF Coll!Begins
  <2>9. t \in Coll!Charts(q)
    BY <1>2, <2>8, ChartsBegin
  <2> QED BY <2>7, <2>8, <2>9 DEF Pieces, Collected, Ops, Coll!Recorded, Coll!Fetching, Coll!Lost
<1>7. \A t \in Coll!Recorded : t + Minute <= now
  <2> SUFFICES ASSUME NEW w \in windows, NEW t \in Coll!Charts(w) PROVE t + Minute <= now
    BY DEF Coll!Recorded
  <2>1. t \in Int /\ t <= w.end /\ w.end \in Int /\ w.end <= edge
    BY <1>3, <1>4, <1>5
  <2>2. t + M <= n
    BY <1>2, <2>1
  <2> QED BY <1>2, <2>2
<1>8. ASSUME NEW v \in windows, NEW w \in windows, v.end <= w.start,
             Coll!Timeframe(v) = 1 \/ (v.end - v.start) % Minute = 0
      PROVE  Coll!Charts(v) \cap Coll!Charts(w) = {}
  <2> SUFFICES ASSUME NEW t \in Coll!Charts(v), t \in Coll!Charts(w) PROVE FALSE
    OBVIOUS
  <2>1. v.start \in Int /\ v.end \in Int /\ w.start \in Int
    BY <1>3, <1>4
  <2>2. t < v.end
    BY <1>2, <1>8, <2>1, ChartsEnd
  <2>3. t \in Int /\ w.start <= t
    BY <1>5
  <2> QED BY <1>8, <2>1, <2>2, <2>3
<1> QED BY <1>6, <1>7, <1>8

\* What a realtime scheduler records has no gaps but what was lost, whatever the
\* interval and however often it changes; no candle is recorded before it is complete
\* and none twice if its timeframe is not longer than the interval.
THEOREM GaplessAndFinalHolds == ASSUME Configured PROVE Coll!Spec => []Coll!GaplessAndFinal
<1>1. Coll!Init => RealtimeInv
  BY InitRealtime
<1>2. RealtimeInv /\ [Coll!Next]_Coll!vars => RealtimeInv'
  BY RealtimeStep
<1>3. RealtimeInv => Coll!GaplessAndFinal
  BY RealtimeGapless
<1> QED BY <1>1, <1>2, <1>3, PTL DEF Coll!Spec

=============================================================================
