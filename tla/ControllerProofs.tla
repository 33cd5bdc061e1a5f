-------------------------- MODULE ControllerProofs --------------------------
(* What the controller's loops keep, for any number of jobs, dispatchers,    *)
(* workers, clients, crashes, snapshots and disk errors, in local and in     *)
(* master mode.                                                              *)
EXTENDS ControllerProperties, JobManagerLemmas

(* Every dispatcher with a batch is inside it. *)
InBatch == \A d \in Dispatcher : disp[d].pc # "pop" => disp[d].n <= Len(disp[d].batch)

(* The state being written by snapshotLoop is one the manager has been in. *)
SaverIsPast == saver.pc # "idle" => phase = "running" /\ Later(saver.data, jm)

SnapIsPast == phase # "down" => Later(snap, jm)

IInv ==
    /\ TypeOK
    /\ InBatch
    /\ Sound(jm, Claimed)
    /\ SnapIsPast
    /\ SaverIsPast

-----------------------------------------------------------------------------
LEMMA SoundMonotone ==
    ASSUME NEW m, NEW S, NEW T, S \subseteq T, Sound(m, S) PROVE Sound(m, T)
  BY DEF Sound, NoneStranded

LEMMA LaterReflexive == ASSUME NEW m PROVE Later(m, m)
  BY DEF Later

(* The log stays a sequence of events. *)
LEMMA LogsType ==
    ASSUME wal \in Seq(Event), NEW t \in EventType, NEW q \in Seq(Job)
    PROVE  Logs(t, q) \subseteq Seq(Event)
  <1> DEFINE e == [i \in DOMAIN q |-> [type |-> t, job |-> q[i]]]
  <1>1. e \in [1 .. Len(q) -> Event] /\ Len(q) \in Nat
    BY DEF Event
  <1>2. e \in Seq(Event)
    BY <1>1
  <1> HIDE DEF e
  <1>3. wal \o e \in Seq(Event)
    BY <1>2
  <1>4. Logs(t, q) \subseteq {wal, wal \o e}
    BY DEF Logs, e
  <1> QED BY <1>3, <1>4

LEMMA LogsOne ==
    ASSUME wal \in Seq(Event), NEW t \in EventType, NEW j \in Job
    PROVE  Logs(t, <<j>>) \subseteq Seq(Event)
  <1>1. <<j>> \in Seq(Job)
    OBVIOUS
  <1> QED BY <1>1, LogsType

(* The part of a batch that Enqueue accepts is of jobs the manager does not  *)
(* know.                                                                     *)
LEMMA AcceptedFresh ==
    ASSUME NEW m, NEW q \in Seq(Job), NEW n \in 0 .. Len(q), Accepts(m, q, n)
    PROVE  /\ SubSeq(q, 1, n) \in Seq(Job)
           /\ \A j \in Elems(SubSeq(q, 1, n)) : ~ Known(m, j)
  <1> DEFINE p == SubSeq(q, 1, n)
  <1>1. p \in Seq(Job) /\ Len(p) = n /\ \A i \in 1 .. n : p[i] = q[i]
    BY SubSeqProperties
  <1>2. \A i \in 1 .. n : ~ Known(m, q[i])
    BY DEF Accepts
  <1> HIDE DEF p
  <1>3. \A j \in Elems(p) : ~ Known(m, j)
    BY <1>1, <1>2 DEF Elems
  <1> QED BY <1>1, <1>3 DEF p

(* A failed attempt of a known job. *)
LEMMA FailedSound ==
    ASSUME NEW m, NEW S, Sound(m, S), NEW j \in Job, Known(m, j)
    PROVE  Sound(Failed(m, j), S) /\ Later(m, Failed(m, j))
  <1> DEFINE b == BumpAttempt(m, j)
  <1>1. Sound(b, S) /\ Later(m, b) /\ b.status = m.status
    BY BumpAttemptSound
  <1>2. CanMarkDead(b, j)
    BY <1>1 DEF CanMarkDead, Known
  <1> HIDE DEF b
  <1>3. Sound(MarkDead(b, j), S) /\ Later(m, MarkDead(b, j))
    BY <1>1, <1>2, MarkDeadSound, LaterTransitive
  <1>4. CanFinish(b, j) => Sound(Requeue(b, j), S) /\ Later(m, Requeue(b, j))
    BY <1>1, RequeueSound, LaterTransitive
  <1> QED BY <1>1, <1>3, <1>4 DEF Failed, b

(* An event replayed without an error. *)
LEMMA ReplayedSound ==
    ASSUME NEW m, NEW S, Sound(m, S), NEW e \in Event, ~ ReplayFails(m, e)
    PROVE  Sound(Replayed(m, e), S) /\ Later(m, Replayed(m, e))
  <1>1. e.job \in Job /\ e.type \in EventType /\ {e.job} \in SUBSET Job
    BY DEF Event
  <1>2. CASE e.type = "ENQUEUE"
    BY <1>2, LaterReflexive DEF Replayed
  <1>3. CASE e.type = "DISPATCH"
    <2>1. /\ Sound(MarkInFlight(m, {e.job}), S \ {e.job})
          /\ Later(m, MarkInFlight(m, {e.job}))
      BY <1>1, MarkInFlightSound
    <2>2. Sound(MarkInFlight(m, {e.job}), S)
      BY <2>1, SoundMonotone
    <2> QED BY <1>3, <2>1, <2>2, LaterReflexive DEF Replayed
  <1>4. CASE e.type = "ACK"
    <2>1. CASE e.job \in m.completed
      BY <1>4, <2>1, LaterReflexive DEF Replayed
    <2>2. CASE e.job \notin m.completed
      <3>1. CanFinish(m, e.job)
        BY <1>4, <2>2 DEF ReplayFails
      <3> QED BY <1>1, <1>4, <2>2, <3>1, MarkCompletedSound DEF Replayed
    <2> QED BY <2>1, <2>2
  <1>5. CASE e.type \in {"RETRY", "TIMEOUT"}
    <2>1. CanFinish(m, e.job)
      BY <1>5 DEF ReplayFails
    <2>2. Replayed(m, e) = Requeue(m, e.job)
      BY <1>5 DEF Replayed
    <2> QED BY <1>1, <2>1, <2>2, RequeueSound
  <1>6. CASE e.type = "DEAD"
    <2>1. CanMarkDead(m, e.job)
      BY <1>6 DEF ReplayFails
    <2> QED BY <1>1, <1>6, <2>1, MarkDeadSound DEF Replayed
  <1> QED BY <1>1, <1>2, <1>3, <1>4, <1>5, <1>6 DEF EventType

-----------------------------------------------------------------------------
(* Where the steps of a dispatcher leave it. *)
LEMMA AdvanceType ==
    ASSUME disp \in [Dispatcher -> DispState], InBatch,
           NEW d \in Dispatcher, NEW pc \in DispStep, disp[d].pc # "pop", Advance(d, pc)
    PROVE  /\ disp' \in [Dispatcher -> DispState] /\ InBatch'
           /\ \A e \in Dispatcher \ {d} : disp'[e] = disp[e]
           /\ disp'[d].pc \in {disp[d].pc, pc}
           /\ disp'[d].pc # "pop" => disp'[d].batch = disp[d].batch
  <1> DEFINE s == disp[d]
             next == Advanced(s, pc)
  <1>1. s \in DispState /\ s.pc # "pop" /\ s.n <= Len(s.batch)
    BY DEF InBatch
  <1>2. disp' = [disp EXCEPT ![d] = next]
    BY DEF Advance
  <1> HIDE DEF s
  <1>3. s.n \in Nat \ {0} /\ s.batch \in Seq(Job) /\ Len(s.batch) \in Nat
    BY <1>1 DEF DispState
  <1>4. CASE s.n < Len(s.batch)
    <2>1. /\ next \in DispState /\ next.n <= Len(next.batch)
          /\ next.pc = s.pc /\ next.batch = s.batch
      <3> DEFINE n == s.n + 1
      <3>1. n \in Nat \ {0} /\ n <= Len(s.batch)
        BY <1>3, <1>4
      <3>2. next = [s EXCEPT !.n = n]
        BY <1>4 DEF Advanced
      <3> HIDE DEF n, next
      <3>3. next \in DispState /\ next.n = n /\ next.pc = s.pc /\ next.batch = s.batch
        BY <1>1, <3>1, <3>2 DEF DispState
      <3> QED BY <3>1, <3>3
    <2> HIDE DEF next
    <2> QED BY <1>2, <2>1 DEF InBatch, s
  <1>5. CASE ~ (s.n < Len(s.batch)) /\ pc = "pop"
    <2>1. next = IdleDispatcher /\ next \in DispState /\ next.pc = "pop"
      BY <1>5 DEF DispState, DispStep, IdleDispatcher, Advanced
    <2> HIDE DEF next
    <2> QED BY <1>2, <1>5, <2>1 DEF InBatch
  <1>6. CASE ~ (s.n < Len(s.batch)) /\ pc # "pop"
    <2>1. next = [s EXCEPT !.pc = pc, !.n = 1]
      BY <1>6 DEF Advanced
    <2>2. next \in DispState /\ next.n = 1 /\ next.pc = pc /\ next.batch = s.batch
      <3> DEFINE t == [s EXCEPT !.pc = pc]
      <3>1. t \in DispState /\ t.pc = pc /\ t.batch = s.batch
        BY <1>1 DEF DispState
      <3>2. next = [t EXCEPT !.n = 1]
        BY <2>1
      <3> HIDE DEF t, next
      <3>3. 1 \in Nat \ {0}
        OBVIOUS
      <3>4. next \in DispState
        BY <3>1, <3>2, <3>3 DEF DispState
      <3>5. next.n = 1 /\ next.pc = t.pc /\ next.batch = t.batch
        BY <3>1, <3>2 DEF DispState
      <3> QED BY <3>1, <3>4, <3>5
    <2>3. 1 <= Len(s.batch)
      BY <1>1, <1>3
    <2> HIDE DEF next
    <2> QED BY <1>2, <1>6, <2>2, <2>3 DEF InBatch, s
  <1> QED BY <1>4, <1>5, <1>6

LEMMA BatchType ==
    ASSUME disp \in [Dispatcher -> DispState], InBatch,
           NEW d \in Dispatcher, disp[d].pc # "pop"
    PROVE  disp[d].batch \in Seq(Job) /\ disp[d].batch[disp[d].n] \in Job
  <1>1. disp[d] \in DispState /\ disp[d].n <= Len(disp[d].batch)
    BY DEF InBatch
  <1>2. disp[d].batch \in Seq(Job) /\ disp[d].n \in 1 .. Len(disp[d].batch)
    BY <1>1 DEF DispState
  <1> QED BY <1>2

(* A dispatcher that takes a batch; the batch is a prefix of the queue. *)
LEMMA NextBatchType ==
    ASSUME jm \in Manager, jm.queue # <<>>
    PROVE  /\ NextBatch \in 0 .. Len(jm.queue)
           /\ Popped(jm, NextBatch) \in Seq(Job)
           /\ 1 <= Len(Popped(jm, NextBatch))
  <1>1. jm.queue \in Seq(Job) /\ Len(jm.queue) \in Nat \ {0}
    BY DEF Manager
  <1>2. NextBatch \in 1 .. Len(jm.queue)
    BY <1>1, ControllerAssumption DEF NextBatch
  <1> HIDE DEF NextBatch
  <1>3. Popped(jm, NextBatch) \in Seq(Job) /\ Len(Popped(jm, NextBatch)) = NextBatch
    BY <1>1, <1>2, SubSeqProperties DEF Popped
  <1> QED BY <1>2, <1>3

LEMMA TakeBatchType ==
    ASSUME disp \in [Dispatcher -> DispState], InBatch, NEW d \in Dispatcher,
           NEW pc \in DispStep, NEW q \in Seq(Job), 1 <= Len(q),
           disp' = [disp EXCEPT ![d] = [pc |-> pc, batch |-> q, n |-> 1]]
    PROVE  disp' \in [Dispatcher -> DispState] /\ InBatch'
  <1> DEFINE s == [pc |-> pc, batch |-> q, n |-> 1]
  <1>1. s \in DispState /\ s.n <= Len(s.batch)
    BY DEF DispState
  <1> HIDE DEF s
  <1>2. disp' = [disp EXCEPT ![d] = s]
    BY DEF s
  <1> QED BY <1>1, <1>2 DEF InBatch

LEMMA IdleTypes ==
    IdleSaver \in SaverState /\ IdleDispatcher \in DispState /\ NewCall \in Call
  BY DEF IdleSaver, SaverState, SnapshotData, NoJobs, Status, IdleDispatcher, DispState,
         DispStep, NewCall, Call, ClientStep

(* A call of EnqueueJobs moves on. *)
LEMMA CallType ==
    ASSUME NEW s \in Call, NEW pc \in ClientStep
    PROVE  [s EXCEPT !.pc = pc] \in Call /\ [s EXCEPT !.n = @ + 1] \in Call
  BY DEF Call

(* The types, leaf by leaf: each step changes a few variables. *)
LEMMA TypeStep ==
    ASSUME TypeOK, InBatch, jm' \in Manager, Next PROVE TypeOK' /\ InBatch'
  <1> USE DEF TypeOK, InBatch
  <1>1. ASSUME NEW c \in Client, EnqueueLog(c) PROVE TypeOK' /\ InBatch'
    <2>1. Batch[c] \in Seq(Job) /\ client[c].n \in Nat \ {0} /\ client[c] \in Call
      BY ControllerAssumption DEF Call
    <2>a. /\ [client[c] EXCEPT !.pc = "add"] \in Call
          /\ [client[c] EXCEPT !.pc = "refused"] \in Call
          /\ [client[c] EXCEPT !.n = @ + 1] \in Call
      BY <2>1, CallType DEF ClientStep
    <2>2. CASE client[c].n > Len(Batch[c])
      <3>1. client' = [client EXCEPT ![c] = [client[c] EXCEPT !.pc = "add"]]
        BY <1>1, <2>2 DEF EnqueueLog
      <3>2. client' \in [Client -> Call]
        BY <3>1, <2>a
      <3> QED BY <1>1, <2>2, <3>2 DEF EnqueueLog, memory, pool
    <2>3. CASE ~ (client[c].n > Len(Batch[c]))
      <3>1. client[c].n \in 1 .. Len(Batch[c])
        BY <2>1, <2>3
      <3>2. Batch[c][client[c].n] \in Job
        BY <2>1, <3>1
      <3>3. wal' \in Seq(Event)
        BY <1>1, <2>3, <3>2, LogsOne DEF EnqueueLog, EventType
      <3>4. client' = IF Refuses
                      THEN [client EXCEPT ![c] = [client[c] EXCEPT !.pc = "refused"]]
                      ELSE [client EXCEPT ![c] = [client[c] EXCEPT !.n = @ + 1]]
        BY <1>1, <2>3 DEF EnqueueLog
      <3>5. client' \in [Client -> Call]
        BY <3>4, <2>a
      <3> QED BY <1>1, <3>3, <3>5 DEF EnqueueLog, memory, pool
    <2> QED BY <2>2, <2>3
  <1>2. ASSUME NEW c \in Client, EnqueueAdd(c) PROVE TypeOK' /\ InBatch'
    <2>1. PICK pc \in ClientStep : client' = [client EXCEPT ![c].pc = pc]
      BY <1>2 DEF EnqueueAdd, ClientStep
    <2>2. client' = [client EXCEPT ![c] = [client[c] EXCEPT !.pc = pc]]
      BY <2>1
    <2>3. client' \in [Client -> Call]
      BY <2>2, CallType
    <2> QED BY <1>2, <2>3 DEF EnqueueAdd, disk, pool
  <1>3. ASSUME NEW d \in Dispatcher, PopBatch(d) PROVE TypeOK' /\ InBatch'
    <2>1. disp' \in [Dispatcher -> DispState] /\ InBatch'
      BY <1>3, NextBatchType, TakeBatchType DEF PopBatch, DispStep
    <2> QED BY <1>3, <2>1 DEF PopBatch, disk, pool
  <1>4. ASSUME NEW d \in Dispatcher, LogDispatch(d) PROVE TypeOK' /\ InBatch'
    <2>1. disp[d].pc # "pop" /\ Advance(d, "mark")
      BY <1>4 DEF LogDispatch
    <2>2. disp' \in [Dispatcher -> DispState] /\ InBatch'
      BY <2>1, AdvanceType DEF DispStep
    <2>3. wal' \in Seq(Event)
      BY <1>4, <2>1, BatchType, LogsOne DEF LogDispatch, EventType
    <2> QED BY <1>4, <2>2, <2>3 DEF LogDispatch, memory, pool
  <1>5. ASSUME NEW d \in Dispatcher, MarkBatch(d) PROVE TypeOK' /\ InBatch'
    <2> DEFINE s == [disp[d] EXCEPT !.pc = "submit"]
    <2>1. s \in DispState /\ s.n = disp[d].n /\ s.batch = disp[d].batch
      BY DEF DispState, DispStep
    <2>2. disp' = [disp EXCEPT ![d] = s] /\ disp[d].pc # "pop"
      BY <1>5 DEF MarkBatch
    <2> HIDE DEF s
    <2>3. disp' \in [Dispatcher -> DispState] /\ InBatch'
      BY <2>1, <2>2
    <2> QED BY <1>5, <2>3 DEF MarkBatch, disk, pool
  <1>6. ASSUME NEW d \in Dispatcher, SubmitTask(d) PROVE TypeOK' /\ InBatch'
    <2>1. disp[d].pc # "pop" /\ Advance(d, "pop")
      BY <1>6 DEF SubmitTask
    <2>2. disp' \in [Dispatcher -> DispState] /\ InBatch'
      BY <2>1, AdvanceType DEF DispStep
    <2>3. taskCh' \in Seq(Job)
      BY <1>6, <2>1, BatchType DEF SubmitTask
    <2> QED BY <1>6, <2>2, <2>3 DEF SubmitTask, memory, disk
  <1>7. ASSUME NEW d \in Dispatcher, Poll(d) PROVE TypeOK' /\ InBatch'
    <2>1. disp' \in [Dispatcher -> DispState] /\ InBatch'
      BY <1>7, NextBatchType, TakeBatchType DEF Poll, PollReply, DispStep
    <2>2. wal' \in Seq(Event)
      BY <1>7, NextBatchType, LogsType DEF Poll, EventType
    <2> QED BY <1>7, <2>1, <2>2 DEF Poll, pool
  <1>8. ASSUME NEW w \in Worker, WorkerTake(w) PROVE TypeOK' /\ InBatch'
    <2>1. Head(taskCh) \in Job /\ Tail(taskCh) \in Seq(Job)
      BY <1>8 DEF WorkerTake
    <2> QED BY <1>8, <2>1 DEF WorkerTake, memory, disk
  <1>9. ASSUME NEW w \in Worker, WorkerFinish(w) PROVE TypeOK' /\ InBatch'
    <2>1. PICK ok \in BOOLEAN :
             resultCh' = IF Len(resultCh) < ChanCap
                         THEN Append(resultCh, [job |-> running[w], ok |-> ok])
                         ELSE resultCh
      BY <1>9 DEF WorkerFinish
    <2>a. [job |-> running[w], ok |-> ok] \in Result
      BY <1>9 DEF WorkerFinish, Result
    <2>b. resultCh' \in Seq(Result)
      BY <2>1, <2>a
    <2>2. running' \in [Worker -> Job \cup {NoJob}]
      BY <1>9 DEF WorkerFinish
    <2> QED BY <1>9, <2>b, <2>2 DEF WorkerFinish, memory, disk
  <1>10. CASE HandleResult
    <2>1. Head(resultCh) \in Result /\ Tail(resultCh) \in Seq(Result)
      BY <1>10 DEF HandleResult
    <2>2. Head(resultCh).job \in Job
      BY <2>1 DEF Result
    <2>3. wal' \in Seq(Event)
      BY <1>10, <2>2, LogsOne DEF HandleResult, EventType
    <2> QED BY <1>10, <2>1, <2>3 DEF HandleResult
  <1>11. CASE AckLost
    <2>1. Tail(resultCh) \in Seq(Result)
      BY <1>11 DEF AckLost
    <2> QED BY <1>11, <2>1 DEF AckLost, memory, disk
  <1>12. ASSUME NEW j \in Job, Timeout(j) PROVE TypeOK' /\ InBatch'
    <2>1. wal' \in Seq(Event)
      BY <1>12, LogsOne DEF Timeout, EventType
    <2>2. used' \in Used
      <3>1. used' = [used EXCEPT !.expired = used.expired + 1] /\ used.expired + 1 \in Nat
        BY <1>12 DEF Timeout, Used
      <3> QED BY <3>1 DEF Used
    <2> QED BY <1>12, <2>1, <2>2 DEF Timeout, pool
  <1>b. ASSUME NEW j \in Job, TimeoutUnsynced(j) PROVE TypeOK' /\ InBatch'
    <2>1. wal' \in Seq(Event)
      BY <1>b, LogsOne DEF TimeoutUnsynced, EventType
    <2>2. used' \in Used
      <3>1. /\ used' = [used EXCEPT !.unsynced = used.unsynced + 1]
            /\ used.unsynced + 1 \in Nat
        BY <1>b DEF TimeoutUnsynced, Used
      <3> QED BY <3>1 DEF Used
    <2> QED BY <1>b, <2>1, <2>2 DEF TimeoutUnsynced, memory, pool
  <1>13. CASE SnapCopy
    <2>1. Snapshot(jm) \in SnapshotData
      BY SnapshotLater
    <2>2. saver' \in SaverState
      BY <1>13, <2>1 DEF SnapCopy, SaverState
    <2>3. used' \in Used
      <3>1. used' = [used EXCEPT !.snap = used.snap + 1] /\ used.snap + 1 \in Nat
        BY <1>13 DEF SnapCopy, Used
      <3> QED BY <3>1 DEF Used
    <2> QED BY <1>13, <2>2, <2>3 DEF SnapCopy, disk, pool
  <1>14. CASE SnapWrite
    <2>1. saver.data \in SnapshotData /\ [saver EXCEPT !.pc = "rotate"] \in SaverState
      BY DEF SaverState
    <2> QED BY <1>14, <2>1, IdleTypes DEF SnapWrite, pool
  <1>15. CASE SnapRotate
    BY <1>15, IdleTypes DEF SnapRotate, pool
  <1>c. CASE RotateEnds
    <2>1. wal' \in {wal, <<>>}
      BY <1>c DEF RotateEnds
    <2>a. <<>> \in Seq(Event)
      OBVIOUS
    <2>2. wal' \in Seq(Event)
      BY <2>1, <2>a, Zenon
    <2>3. writer' \in {"on", "jammed", "rotating", "closed"}
      BY <1>c DEF RotateEnds
    <2>4. saver' \in SaverState
      BY <1>c, IdleTypes DEF RotateEnds
    <2> QED BY <1>c, <2>2, <2>3, <2>4 DEF RotateEnds, pool
  <1>d. CASE WriterJams
    <2>1. used' \in Used
      <3>1. used' = [used EXCEPT !.jam = used.jam + 1] /\ used.jam + 1 \in Nat
        BY <1>d DEF WriterJams, Used
      <3> QED BY <3>1 DEF Used
    <2> QED BY <1>d, <2>1 DEF WriterJams, memory, pool
  <1>16. CASE DiskFails
    <2>1. used' \in Used
      <3>1. used' = [used EXCEPT !.diskErr = used.diskErr + 1] /\ used.diskErr + 1 \in Nat
        BY <1>16 DEF DiskFails, Used
      <3> QED BY <3>1 DEF Used
    <2> QED BY <1>16, <2>1 DEF DiskFails, memory, pool
  <1>a. CASE DiskRecovers
    BY <1>a DEF DiskRecovers, memory, pool
  <1>17. CASE Crash
    <2>1. used' \in Used
      <3>1. used' = [used EXCEPT !.crash = used.crash + 1] /\ used.crash + 1 \in Nat
        BY <1>17 DEF Crash, Used
      <3> QED BY <3>1 DEF Used
    <2>2. client' \in [Client -> Call]
      BY <1>17, IdleTypes DEF Crash
    <2>3. CASE Remote
      BY <1>17, <2>1, <2>2, <2>3, IdleTypes DEF Crash, disk, pool
    <2>4. CASE ~ Remote
      <3>1. /\ disp' = [d \in Dispatcher |-> IdleDispatcher]
            /\ taskCh' = <<>> /\ resultCh' = <<>>
            /\ running' = [w \in Worker |-> NoJob]
        BY <1>17, <2>4 DEF Crash, EmptyPool
      <3>2. disp' \in [Dispatcher -> DispState] /\ InBatch'
        BY <3>1, IdleTypes DEF IdleDispatcher
      <3> QED BY <1>17, <2>1, <2>2, <3>1, <3>2, IdleTypes DEF Crash, disk
    <2> QED BY <2>3, <2>4
  <1>18. CASE LoadSnapshot \/ ReplayEvent \/ StartLoops
    BY <1>18 DEF LoadSnapshot, ReplayEvent, StartLoops, disk, pool
  <1>19. CASE Rest
    BY <1>19 DEF Rest, vars, memory, disk, pool
  <1> QED BY <1>1, <1>2, <1>3, <1>4, <1>5, <1>6, <1>7, <1>8, <1>9, <1>10, <1>11, <1>12,
             <1>13, <1>14, <1>15, <1>16, <1>a, <1>b, <1>c, <1>d, <1>17, <1>18, <1>19 DEF Next

-----------------------------------------------------------------------------
(* A step that leaves every batch and its progress alone claims the same     *)
(* jobs.                                                                     *)
LEMMA ClaimedUnchanged ==
    ASSUME \A d \in Dispatcher :
             disp[d].pc \in {"log", "mark"} =>
               disp'[d].pc \in {"log", "mark"} /\ disp'[d].batch = disp[d].batch
    PROVE  Claimed \subseteq Claimed'
  BY DEF Claimed

(* How each step of the loops takes the manager to a later one, and keeps it *)
(* sound for the jobs then claimed.  Crash and LoadSnapshot start a new one. *)
LEMMA ManagerStep ==
    ASSUME IInv, Next, phase # "down", phase' # "down"
    PROVE  Sound(jm', Claimed') /\ Later(jm, jm')
  <1> USE DEF IInv
  <1>0. TypeOK /\ jm \in Manager
    BY DEF Sound
  <1>1. ASSUME UNCHANGED <<jm, disp>> PROVE Sound(jm', Claimed') /\ Later(jm, jm')
    BY <1>1, LaterReflexive DEF Claimed
  <1>2. ASSUME UNCHANGED jm, Claimed \subseteq Claimed'
        PROVE  Sound(jm', Claimed') /\ Later(jm, jm')
    BY <1>2, LaterReflexive, SoundMonotone
  <1>3. ASSUME NEW c \in Client, EnqueueAdd(c) PROVE Sound(jm', Claimed') /\ Later(jm, jm')
    <2>1. Batch[c] \in Seq(Job) /\ UNCHANGED disp
      BY <1>3, ControllerAssumption DEF EnqueueAdd
    <2>2. PICK n \in 0 .. Len(Batch[c]) :
             Accepts(jm, Batch[c], n) /\ jm' = Enqueue(jm, SubSeq(Batch[c], 1, n))
      BY <1>3 DEF EnqueueAdd
    <2>3. Sound(jm', Claimed) /\ Later(jm, jm')
      BY <2>1, <2>2, AcceptedFresh, EnqueueSound
    <2> QED BY <2>1, <2>3 DEF Claimed
  <1>4. ASSUME NEW d \in Dispatcher, PopBatch(d) PROVE Sound(jm', Claimed') /\ Later(jm, jm')
    <2> DEFINE q == Popped(jm, NextBatch)
    <2>1. NextBatch \in 0 .. Len(jm.queue)
      BY <1>0, <1>4, NextBatchType DEF PopBatch
    <2>2. Sound(jm', Claimed \cup Elems(q)) /\ Later(jm, jm')
      BY <1>4, <2>1, PopSound DEF PopBatch
    <2>3. /\ disp[d].pc = "pop" /\ disp'[d].pc = "log" /\ disp'[d].batch = q
          /\ \A e \in Dispatcher \ {d} : disp'[e] = disp[e]
      BY <1>0, <1>4 DEF PopBatch, TypeOK
    <2> HIDE DEF q
    <2>4. Claimed \cup Elems(q) \subseteq Claimed'
      BY <2>3 DEF Claimed
    <2> QED BY <2>2, <2>4, SoundMonotone
  <1>5. ASSUME NEW d \in Dispatcher, LogDispatch(d) PROVE Sound(jm', Claimed') /\ Later(jm, jm')
    <2>1. disp[d].pc = "log" /\ Advance(d, "mark") /\ UNCHANGED jm
      BY <1>5 DEF LogDispatch, memory
    <2>2. /\ disp'[d].pc \in {"log", "mark"} /\ disp'[d].batch = disp[d].batch
          /\ \A e \in Dispatcher \ {d} : disp'[e] = disp[e]
      BY <1>0, <2>1, AdvanceType DEF TypeOK, DispStep
    <2>3. Claimed \subseteq Claimed'
      BY <2>2, ClaimedUnchanged
    <2> QED BY <1>2, <2>1, <2>3
  <1>6. ASSUME NEW d \in Dispatcher, MarkBatch(d) PROVE Sound(jm', Claimed') /\ Later(jm, jm')
    <2>1. disp[d].pc # "pop"
      BY <1>6 DEF MarkBatch
    <2>2. Elems(disp[d].batch) \in SUBSET Job
      BY <1>0, <2>1, BatchType, ElemsOfJobs DEF TypeOK
    <2>3. Sound(jm', Claimed \ Elems(disp[d].batch)) /\ Later(jm, jm')
      BY <1>6, <2>2, MarkInFlightSound DEF MarkBatch
    <2>4. \A e \in Dispatcher \ {d} : disp'[e] = disp[e]
      BY <1>0, <1>6 DEF MarkBatch, TypeOK
    <2>5. Claimed \ Elems(disp[d].batch) \subseteq Claimed'
      BY <2>4 DEF Claimed
    <2> QED BY <2>3, <2>5, SoundMonotone
  <1>7. ASSUME NEW d \in Dispatcher, SubmitTask(d) PROVE Sound(jm', Claimed') /\ Later(jm, jm')
    <2>1. disp[d].pc = "submit" /\ Advance(d, "pop") /\ UNCHANGED jm
      BY <1>7 DEF SubmitTask, memory
    <2>2. \A e \in Dispatcher \ {d} : disp'[e] = disp[e]
      BY <1>0, <2>1, AdvanceType DEF TypeOK, DispStep
    <2>3. Claimed \subseteq Claimed'
      BY <2>1, <2>2, ClaimedUnchanged
    <2> QED BY <1>2, <2>1, <2>3
  <1>8. ASSUME NEW d \in Dispatcher, Poll(d) PROVE Sound(jm', Claimed') /\ Later(jm, jm')
    <2> DEFINE q == Popped(jm, NextBatch)
               m == PopPending(jm, NextBatch)
    <2>1. NextBatch \in 0 .. Len(jm.queue)
      BY <1>0, <1>8, NextBatchType DEF Poll
    <2>2. Sound(m, Claimed \cup Elems(q)) /\ q \in Seq(Job) /\ Later(jm, m)
      BY <2>1, PopSound
    <2>3. Elems(q) \in SUBSET Job /\ jm' = MarkInFlight(m, Elems(q))
      BY <1>8, <2>2, ElemsOfJobs DEF Poll
    <2>4. /\ disp[d].pc = "pop"
          /\ \A e \in Dispatcher \ {d} : disp'[e] = disp[e]
      BY <1>0, <1>8 DEF Poll, PollReply, TypeOK
    <2> HIDE DEF q, m
    <2>5. Sound(jm', (Claimed \cup Elems(q)) \ Elems(q)) /\ Later(m, jm')
      BY <2>2, <2>3, MarkInFlightSound
    <2>6. Claimed \subseteq Claimed'
      BY <2>4, ClaimedUnchanged
    <2>7. (Claimed \cup Elems(q)) \ Elems(q) \subseteq Claimed'
      BY <2>6
    <2> QED BY <2>2, <2>5, <2>7, SoundMonotone, LaterTransitive
  <1>9. CASE HandleResult
    <2> DEFINE r == Head(resultCh)
    <2>a. r \in Result /\ UNCHANGED disp
      BY <1>0, <1>9 DEF HandleResult, TypeOK
    <2>1. r.job \in Job /\ UNCHANGED disp
      BY <2>a DEF Result
    <2>2. CASE ~ Known(jm, r.job)
      BY <1>1, <1>9, <2>1, <2>2 DEF HandleResult
    <2>3. CASE Known(jm, r.job) /\ r.ok
      BY <1>9, <2>1, <2>3, MarkCompletedSound, LaterReflexive DEF HandleResult, Claimed
    <2>4. CASE Known(jm, r.job) /\ ~ r.ok
      BY <1>9, <2>1, <2>4, FailedSound, BumpAttemptSound DEF HandleResult, Claimed
    <2> QED BY <2>2, <2>3, <2>4
  <1>10. ASSUME NEW j \in Job, Timeout(j) PROVE Sound(jm', Claimed') /\ Later(jm, jm')
    <2>1. Known(jm, j)
      BY <1>10 DEF Timeout, Sound, IndexesAgree, WithStatus, Known
    <2> QED BY <1>10, <2>1, FailedSound DEF Timeout, Claimed
  <1>11. CASE ReplayEvent
    <2>1. CASE pos <= Len(wal) /\ ~ ReplayFails(jm, wal[pos])
      <3>1. wal[pos] \in Event /\ jm' = Replayed(jm, wal[pos]) /\ UNCHANGED disp
        BY <1>0, <1>11, <2>1 DEF ReplayEvent, TypeOK
      <3> QED BY <2>1, <3>1, ReplayedSound DEF Claimed
    <2>2. CASE UNCHANGED jm
      BY <1>1, <1>11, <2>2 DEF ReplayEvent
    <2> QED BY <1>11, <2>1, <2>2 DEF ReplayEvent
  <1>12. CASE StartLoops
    BY <1>12, RequeueInFlightSound DEF StartLoops, Claimed
  <1>13. ASSUME NEW c \in Client, EnqueueLog(c) PROVE UNCHANGED <<jm, disp>>
    BY <1>13 DEF EnqueueLog, memory
  <1>14. ASSUME NEW w \in Worker, WorkerTake(w) \/ WorkerFinish(w) PROVE UNCHANGED <<jm, disp>>
    BY <1>14 DEF WorkerTake, WorkerFinish, memory
  <1>15. CASE AckLost \/ DiskFails \/ DiskRecovers \/ WriterJams
    BY <1>1, <1>15 DEF AckLost, DiskFails, DiskRecovers, WriterJams, memory
  <1>16. CASE SnapCopy \/ SnapWrite \/ SnapRotate \/ RotateEnds
    BY <1>1, <1>16 DEF SnapCopy, SnapWrite, SnapRotate, RotateEnds
  <1>a. ASSUME NEW j \in Job, TimeoutUnsynced(j) PROVE UNCHANGED <<jm, disp>>
    BY <1>a DEF TimeoutUnsynced, memory
  <1>17. CASE Rest
    BY <1>1, <1>17 DEF Rest, vars, memory
  <1>18. ~ Crash /\ ~ LoadSnapshot
    BY DEF Crash, LoadSnapshot
  <1> QED BY <1>1, <1>3, <1>4, <1>5, <1>6, <1>7, <1>8, <1>9, <1>10, <1>11, <1>12, <1>13,
             <1>14, <1>15, <1>16, <1>a, <1>17, <1>18 DEF Next

(* What is on its way to the disk and what is on the disk stay behind the    *)
(* manager.                                                                  *)
LEMMA SnapStep ==
    ASSUME IInv, Next, phase # "down", phase' # "down"
    PROVE  SnapIsPast' /\ SaverIsPast'
  <1> USE DEF IInv
  <1>1. Later(jm, jm')
    BY ManagerStep
  <1>2. Later(snap, jm')
    BY <1>1, LaterTransitive DEF SnapIsPast
  <1>3. saver.pc # "idle" => phase = "running" /\ Later(saver.data, jm')
    BY <1>1, LaterTransitive DEF SaverIsPast
  <1>4. CASE SnapCopy
    <2>1. /\ saver' = [pc |-> "write", data |-> Snapshot(jm)]
          /\ phase' = "running" /\ snap' = snap /\ jm' = jm
      BY <1>4 DEF SnapCopy, disk
    <2>2. Later(Snapshot(jm), jm)
      BY SnapshotLater DEF Sound
    <2> QED BY <1>2, <2>1, <2>2 DEF SnapIsPast, SaverIsPast
  <1>5. CASE SnapWrite
    <2>1. CASE diskDown
      BY <1>2, <1>5, <2>1 DEF SnapWrite, SnapIsPast, SaverIsPast, IdleSaver
    <2>2. CASE ~ diskDown
      <3>1. /\ snap' = saver.data /\ saver.pc = "write" /\ phase' = phase
            /\ saver' = [saver EXCEPT !.pc = "rotate"]
        BY <1>5, <2>2 DEF SnapWrite
      <3>2. saver'.data = saver.data
        BY <3>1 DEF TypeOK, SaverState
      <3> QED BY <1>3, <3>1, <3>2 DEF SnapIsPast, SaverIsPast
    <2> QED BY <2>1, <2>2
  <1>6. CASE SnapRotate \/ RotateEnds
    <2>1. UNCHANGED <<snap, phase>> /\ (saver' = saver \/ saver' = IdleSaver)
      BY <1>6 DEF SnapRotate, RotateEnds
    <2> QED BY <1>2, <1>3, <2>1 DEF SnapIsPast, SaverIsPast, IdleSaver
  <1>7. CASE UNCHANGED <<snap, saver>> /\ (phase = "running" => phase' = "running")
    BY <1>2, <1>3, <1>7 DEF SnapIsPast, SaverIsPast
  <1>8. ~ Crash /\ ~ LoadSnapshot
    BY DEF Crash, LoadSnapshot
  <1>9. Next => \/ SnapCopy \/ SnapWrite \/ SnapRotate \/ RotateEnds \/ Crash \/ LoadSnapshot
                \/ UNCHANGED <<snap, saver>> /\ (phase = "running" => phase' = "running")
    BY DEF Next, EnqueueLog, EnqueueAdd, PopBatch, LogDispatch, MarkBatch, SubmitTask, Poll,
           WorkerTake, WorkerFinish, HandleResult, AckLost, Timeout, TimeoutUnsynced, DiskFails, DiskRecovers,
           WriterJams, ReplayEvent, StartLoops, Rest, memory, disk, vars
  <1> QED BY <1>4, <1>5, <1>6, <1>7, <1>8, <1>9

LEMMA InitInv == Init => IInv
  <1> SUFFICES ASSUME Init PROVE IInv
    OBVIOUS
  <1>1. Sound(jm, {}) /\ jm \in Manager
    BY NewSound DEF Init, Sound
  <1>2. Sound(jm, Claimed)
    BY <1>1, SoundMonotone
  <1>3. TypeOK /\ InBatch
    <2>1. used \in Used /\ snap \in SnapshotData
      BY DEF Init, Used, SnapshotData, NoJobs, Status
    <2>2. /\ disp \in [Dispatcher -> DispState] /\ client \in [Client -> Call]
          /\ saver \in SaverState
      BY IdleTypes DEF Init
    <2>3. InBatch
      BY DEF Init, InBatch, IdleDispatcher
    <2>4. /\ taskCh \in Seq(Job) /\ resultCh \in Seq(Result) /\ wal \in Seq(Event)
          /\ running \in [Worker -> Job \cup {NoJob}] /\ pos \in Nat \ {0}
      BY DEF Init
    <2>5. phase = "down" /\ diskDown \in BOOLEAN /\ writer = "on"
      BY Zenon DEF Init
    <2> QED BY <1>1, <2>1, <2>2, <2>3, <2>4, <2>5 DEF TypeOK
  <1> QED BY <1>2, <1>3 DEF Init, IInv, SnapIsPast, SaverIsPast, IdleSaver

LEMMA StepInv == IInv /\ [Next]_vars => IInv'
  <1> SUFFICES ASSUME IInv, [Next]_vars PROVE IInv'
    OBVIOUS
  <1>1. CASE UNCHANGED vars
    BY <1>1 DEF IInv, TypeOK, InBatch, Claimed, SnapIsPast, SaverIsPast,
                vars, memory, disk, pool
  <1>2. CASE Crash
    <2>1. Sound(jm', {}) /\ jm' \in Manager
      BY <1>2, NewSound DEF Crash, Sound
    <2>2. Sound(jm', Claimed')
      BY <2>1, SoundMonotone
    <2>3. TypeOK' /\ InBatch'
      BY <1>2, <2>1, TypeStep DEF IInv, Next
    <2> QED BY <1>2, <2>2, <2>3 DEF Crash, IInv, SnapIsPast, SaverIsPast, IdleSaver
  <1>3. CASE LoadSnapshot
    <2>1. Sound(jm', {}) /\ Later(snap, jm') /\ jm' \in Manager
      BY <1>3, RestoreSound DEF LoadSnapshot, IInv, TypeOK, Sound
    <2>2. Sound(jm', Claimed')
      BY <2>1, SoundMonotone
    <2>3. TypeOK' /\ InBatch'
      BY <1>3, <2>1, TypeStep DEF IInv, Next
    <2>4. saver.pc = "idle" /\ UNCHANGED <<saver, snap>>
      BY <1>3 DEF LoadSnapshot, IInv, SaverIsPast, disk
    <2> QED BY <2>1, <2>2, <2>3, <2>4 DEF IInv, SnapIsPast, SaverIsPast
  <1>4. CASE Next /\ phase # "down" /\ phase' # "down"
    <2>1. Sound(jm', Claimed') /\ jm' \in Manager
      BY <1>4, ManagerStep DEF Sound
    <2>2. TypeOK' /\ InBatch'
      BY <1>4, <2>1, TypeStep DEF IInv
    <2> QED BY <1>4, <2>1, <2>2, SnapStep DEF IInv
  <1>5. CASE Next /\ phase = "down" /\ ~ LoadSnapshot
    <2>1. \/ AckLost \/ DiskRecovers
          \/ \E d \in Dispatcher : SubmitTask(d)
          \/ \E w \in Worker : WorkerTake(w) \/ WorkerFinish(w)
      BY <1>5 DEF Next, EnqueueLog, EnqueueAdd, PopBatch, LogDispatch, MarkBatch, Poll,
                  HandleResult, Timeout, TimeoutUnsynced, SnapCopy, SnapWrite, SnapRotate,
                  RotateEnds, DiskFails, WriterJams, Crash,
                  ReplayEvent, StartLoops, Rest, AtRest
    <2>2. UNCHANGED <<phase, jm, snap, saver>>
      BY <2>1 DEF AckLost, DiskRecovers, SubmitTask, WorkerTake, WorkerFinish, memory, disk
    <2>3. Claimed \subseteq Claimed'
      <3>1. CASE UNCHANGED disp
        BY <3>1 DEF Claimed
      <3>2. ASSUME NEW d \in Dispatcher, SubmitTask(d) PROVE Claimed \subseteq Claimed'
        <4>1. disp[d].pc = "submit" /\ Advance(d, "pop")
          BY <3>2 DEF SubmitTask
        <4>2. \A e \in Dispatcher \ {d} : disp'[e] = disp[e]
          BY <4>1, AdvanceType DEF IInv, TypeOK, DispStep
        <4> QED BY <4>1, <4>2, ClaimedUnchanged
      <3> QED BY <2>1, <3>1, <3>2 DEF AckLost, DiskRecovers, WorkerTake, WorkerFinish
    <2>4. TypeOK' /\ InBatch'
      BY <1>5, <2>2, TypeStep DEF IInv, Sound
    <2> QED BY <2>2, <2>3, <2>4, SoundMonotone DEF IInv, SnapIsPast, SaverIsPast
  <1>6. Next /\ phase' = "down" /\ phase # "down" => Crash
    BY DEF Next, EnqueueLog, EnqueueAdd, PopBatch, LogDispatch, MarkBatch, SubmitTask, Poll,
           WorkerTake, WorkerFinish, HandleResult, AckLost, Timeout, TimeoutUnsynced, SnapCopy,
           SnapWrite, SnapRotate, RotateEnds, DiskFails, DiskRecovers, WriterJams, LoadSnapshot, ReplayEvent, StartLoops, Rest, vars
  <1> QED BY <1>1, <1>2, <1>3, <1>4, <1>5, <1>6

LEMMA InvHolds == Spec => []IInv
  BY InitInv, StepInv, PTL DEF Spec

-----------------------------------------------------------------------------
(* The variables keep their types. *)
THEOREM ControllerTyped == Spec => []TypeOK
  <1>1. IInv => TypeOK
    BY DEF IInv
  <1> QED BY InvHolds, <1>1, PTL

(* The index maps agree with the statuses whatever the loops, the clients,   *)
(* crashes and recoveries do.                                                *)
THEOREM IndexesConsistent == Spec => []IndexConsistency
  <1>1. IInv => IndexConsistency
    BY DEF IInv, Sound, IndexConsistency
  <1> QED BY InvHolds, <1>1, PTL

(* No pending job is out of reach of the queue and the dispatchers. *)
THEOREM NoJobStranded == Spec => []NoStrandedJob
  <1>1. IInv => NoStrandedJob
    BY DEF IInv, Sound, NoStrandedJob
  <1> QED BY InvHolds, <1>1, PTL

(* The snapshot on disk is never ahead of a running manager. *)
THEOREM SnapshotBehind == Spec => []SnapshotIsPast
  <1>1. IInv => SnapshotIsPast
    BY DEF IInv, SnapIsPast, SnapshotIsPast
  <1> QED BY InvHolds, <1>1, PTL

(* A job that ended stays ended as long as the process lives. *)
THEOREM NoJobRevived == Spec => NoRevival
  <1>1. IInv /\ [Next]_vars =>
           [phase # "down" /\ phase' # "down" => Later(jm, jm')]_vars
    BY ManagerStep
  <1> QED BY InvHolds, <1>1, PTL DEF Spec, NoRevival
=============================================================================
