------------------------ MODULE ControllerClaimProofs ------------------------
(* How often a job is claimed, tried and run, and what the log has of it,    *)
(* for any number of jobs, dispatchers, workers and clients.                 *)
EXTENDS ControllerProofs

Starting == phase \in {"down", "replay"}

Blank(m) == m.queue = <<>> /\ \A j \in Job : ~ Known(m, j)

(* Before the first crash, or as long as no snapshot was taken, the manager  *)
(* starts with nothing: a log without a snapshot replays into no job.        *)
FreshStart ==
    /\ used.crash = 0 /\ Starting => wal = <<>> /\ snap = NoJobs
    /\ Uncut => snap = NoJobs /\ saver.pc = "idle" /\ writer # "rotating"
    /\ AllLogged => ~ Refuses
    /\ (used.crash = 0 \/ Uncut) /\ Starting => Blank(jm)

-----------------------------------------------------------------------------
(* What is counted never goes down, and the conditions of the properties are *)
(* lost for good.                                                            *)
LEMMA UsedGrows ==
    ASSUME TypeOK, Next
    PROVE  /\ Uncut' => Uncut /\ ~ SnapCopy
           /\ AllLogged' => AllLogged /\ Uncut' /\ ~ DiskFails /\ ~ WriterJams
           /\ used'.crash = 0 => used.crash = 0 /\ ~ Crash
           /\ Quiet' => Quiet /\ ~ Crash /\ \A j \in Job : ~ Timeout(j)
  <1>0. used \in Used
    BY DEF TypeOK
  <1> USE DEF Uncut, AllLogged, Quiet, Used
  <1>1. CASE Crash
    <2>1. used' = [used EXCEPT !.crash = used.crash + 1]
      BY <1>1 DEF Crash
    <2>2. ~ SnapCopy /\ ~ DiskFails /\ ~ WriterJams
      BY <1>1 DEF Crash, SnapCopy, DiskFails, WriterJams
    <2> QED BY <1>0, <2>1, <2>2
  <1>2. CASE SnapCopy
    <2>1. used' = [used EXCEPT !.snap = used.snap + 1]
      BY <1>2 DEF SnapCopy
    <2>2. ~ Crash /\ ~ DiskFails /\ ~ WriterJams
      BY <1>2 DEF Crash, SnapCopy, DiskFails, WriterJams, disk, memory
    <2>3. ASSUME NEW j \in Job, Timeout(j) PROVE FALSE
      <3>1. saver' = saver
        BY <2>3 DEF Timeout
      <3>2. saver.pc = "idle" /\ saver' = [pc |-> "write", data |-> Snapshot(jm)]
        BY <1>2 DEF SnapCopy
      <3> QED BY <3>1, <3>2
    <2> QED BY <1>0, <2>1, <2>2, <2>3
  <1>3. CASE DiskFails
    <2>1. used' = [used EXCEPT !.diskErr = used.diskErr + 1]
      BY <1>3 DEF DiskFails
    <2>2. ~ Crash /\ ~ SnapCopy /\ ~ WriterJams /\ \A j \in Job : ~ Timeout(j)
      BY <1>3 DEF Crash, SnapCopy, DiskFails, WriterJams, Timeout, disk
    <2> QED BY <1>0, <2>1, <2>2
  <1>4. CASE WriterJams
    <2>1. used' = [used EXCEPT !.jam = used.jam + 1]
      BY <1>4 DEF WriterJams
    <2>2. ~ Crash /\ ~ SnapCopy /\ ~ DiskFails /\ \A j \in Job : ~ Timeout(j)
      BY <1>4 DEF Crash, SnapCopy, DiskFails, WriterJams, Timeout, disk
    <2> QED BY <1>0, <2>1, <2>2
  <1>5. ASSUME NEW j \in Job, Timeout(j)
        PROVE  /\ (AllLogged' => AllLogged /\ Uncut') /\ (Uncut' => Uncut)
               /\ ~ Quiet'
               /\ used'.crash = 0 => used.crash = 0
               /\ ~ Crash /\ ~ SnapCopy /\ ~ DiskFails /\ ~ WriterJams
    <2>1. used' = [used EXCEPT !.expired = used.expired + 1]
      BY <1>5 DEF Timeout
    <2>2. ~ Crash /\ ~ SnapCopy /\ ~ DiskFails /\ ~ WriterJams
      BY <1>5 DEF Timeout, Crash, SnapCopy, DiskFails, WriterJams
    <2> QED BY <1>0, <2>1, <2>2
  <1>6. ASSUME NEW j \in Job, TimeoutUnsynced(j)
        PROVE  /\ (AllLogged' => AllLogged /\ Uncut') /\ (Uncut' => Uncut)
               /\ Quiet' => Quiet
               /\ used'.crash = 0 => used.crash = 0
    <2>1. used' = [used EXCEPT !.unsynced = used.unsynced + 1]
      BY <1>6 DEF TimeoutUnsynced
    <2> QED BY <1>0, <2>1
  <1>7. \/ Crash \/ SnapCopy \/ DiskFails \/ WriterJams
        \/ \E j \in Job : Timeout(j) \/ TimeoutUnsynced(j)
        \/ used' = used
    BY DEF Next, EnqueueLog, EnqueueAdd, PopBatch, LogDispatch, MarkBatch, SubmitTask, Poll,
           WorkerTake, WorkerFinish, HandleResult, AckLost, SnapWrite, SnapRotate, RotateEnds,
           DiskRecovers, LoadSnapshot, ReplayEvent, StartLoops, Rest, vars
  <1>9. used' = used => (AllLogged' = AllLogged) /\ (Uncut' = Uncut) /\ (Quiet' = Quiet)
    OBVIOUS
  <1>10. AllLogged => Uncut
    OBVIOUS
  <1> HIDE DEF Uncut, AllLogged, Quiet, Used
  <1>8. CASE /\ ~ Crash /\ ~ SnapCopy /\ ~ DiskFails /\ ~ WriterJams
             /\ \A j \in Job : ~ Timeout(j)
    <2>1. (\E j \in Job : TimeoutUnsynced(j)) \/ used' = used
      BY <1>7, <1>8
    <2>2. /\ (AllLogged' => AllLogged /\ Uncut') /\ (Uncut' => Uncut) /\ (Quiet' => Quiet)
          /\ used'.crash = 0 => used.crash = 0
      BY <1>6, <1>9, <1>10, <2>1
    <2> QED BY <1>8, <2>2
  <1> QED BY <1>1, <1>2, <1>3, <1>4, <1>5, <1>8

(* The steps of a process that has not started its loops. *)
LEMMA StartingSteps ==
    ASSUME Next, Starting
    PROVE  \/ Crash \/ LoadSnapshot \/ ReplayEvent
           \/ StartLoops /\ phase' = "running"
           \/ UNCHANGED <<phase, wal, snap, jm>>
  <1>1. \/ Crash \/ LoadSnapshot \/ ReplayEvent \/ StartLoops \/ AckLost \/ DiskRecovers
        \/ \E d \in Dispatcher : SubmitTask(d)
        \/ \E w \in Worker : WorkerTake(w) \/ WorkerFinish(w)
    BY DEF Starting, Next, EnqueueLog, EnqueueAdd, PopBatch, LogDispatch, MarkBatch, Poll,
           HandleResult, Timeout, TimeoutUnsynced, SnapCopy, SnapWrite, SnapRotate,
           RotateEnds, DiskFails, WriterJams, Rest, AtRest
  <1> QED BY <1>1 DEF AckLost, DiskRecovers, SubmitTask, WorkerTake, WorkerFinish, StartLoops,
                      memory, disk

LEMMA StartsAgain ==
    ASSUME Next, Starting', ~ Crash PROVE Starting
  BY DEF Starting, Next, EnqueueLog, EnqueueAdd, PopBatch, LogDispatch, MarkBatch, SubmitTask, Poll,
         WorkerTake, WorkerFinish, HandleResult, AckLost, Timeout, TimeoutUnsynced, SnapCopy,
         SnapWrite, SnapRotate, RotateEnds, DiskFails, DiskRecovers, WriterJams, LoadSnapshot,
         ReplayEvent, StartLoops, Rest, vars

(* Nothing that needs the snapshot, or fails an append, has happened. *)
LEMMA UncutStep ==
    ASSUME TypeOK, FreshStart, Next, Uncut'
    PROVE  snap' = NoJobs /\ saver'.pc = "idle" /\ writer' # "rotating"
  <1>1. ~ SnapCopy /\ snap = NoJobs /\ saver.pc = "idle" /\ writer # "rotating"
    BY UsedGrows DEF FreshStart
  <1>2. ~ SnapWrite /\ ~ SnapRotate /\ ~ RotateEnds
    BY <1>1 DEF SnapWrite, SnapRotate, RotateEnds
  <1>3. CASE Crash
    BY <1>1, <1>3 DEF Crash, IdleSaver
  <1>4. CASE ~ Crash
    <2>1. UNCHANGED <<snap, saver>> /\ writer' \in {writer, "jammed"}
      BY <1>1, <1>2, <1>4
      DEF Next, EnqueueLog, EnqueueAdd, PopBatch, LogDispatch, MarkBatch, SubmitTask, Poll,
          WorkerTake, WorkerFinish, HandleResult, AckLost, Timeout, TimeoutUnsynced,
          DiskFails, DiskRecovers, WriterJams, LoadSnapshot, ReplayEvent, StartLoops, Rest,
          vars, memory, disk
    <2> QED BY <1>1, <2>1
  <1> QED BY <1>3, <1>4

LEMMA LoggedStep ==
    ASSUME TypeOK, FreshStart, Next, AllLogged' PROVE ~ Refuses'
  <1>1. /\ AllLogged /\ Uncut /\ ~ SnapCopy /\ ~ DiskFails /\ ~ WriterJams
        /\ saver.pc = "idle" /\ ~ Refuses
    BY UsedGrows DEF FreshStart
  <1>2. ~ SnapRotate /\ ~ RotateEnds
    BY <1>1 DEF SnapRotate, RotateEnds, Refuses
  <1>3. CASE Crash
    BY <1>1, <1>3 DEF Crash, Refuses
  <1>4. CASE ~ Crash
    <2>1. writer' = writer /\ (diskDown' = diskDown \/ diskDown' = FALSE)
      BY <1>1, <1>2, <1>4
      DEF Next, EnqueueLog, EnqueueAdd, PopBatch, LogDispatch, MarkBatch, SubmitTask, Poll,
          WorkerTake, WorkerFinish, HandleResult, AckLost, Timeout, TimeoutUnsynced, SnapWrite,
          DiskRecovers, LoadSnapshot, ReplayEvent, StartLoops, Rest, vars, memory, disk
    <2> QED BY <1>1, <2>1 DEF Refuses
  <1> QED BY <1>3, <1>4

(* There is one order of no jobs. *)
LEMMA NothingOrdered == ASSUME NEW q \in Orderings({}) PROVE q = <<>>
  <1>1. q \in Seq(Job) /\ Elems(q) = {}
    BY OrderingsElems
  <1>2. DOMAIN q = 1 .. Len(q) /\ Len(q) \in Nat
    BY <1>1
  <1>3. \A i \in 1 .. Len(q) : q[i] \in Elems(q)
    BY <1>2 DEF Elems
  <1>4. Len(q) = 0
    <2>1. ~ (1 \in 1 .. Len(q))
      BY <1>1, <1>3
    <2> QED BY <1>2, <2>1
  <1> QED BY <1>1, <1>4, EmptySeq

(* Nothing comes out of an empty snapshot, ... *)
LEMMA RestoreBlank == ASSUME NEW m \in Restore(NoJobs) PROVE Blank(m)
  <1>1. WithStatus(NoJobs, "pending") = {}
    BY DEF NoJobs, WithStatus
  <1>2. PICK q \in Orderings({}) : m.queue = q /\ m.status = NoJobs.status
    BY <1>1 DEF Restore
  <1>3. q = <<>>
    BY <1>2, NothingOrdered
  <1> QED BY <1>2, <1>3 DEF Blank, Known, NoJobs

(* ... nor out of a log replayed into an empty manager. *)
LEMMA ReplayedBlank ==
    ASSUME NEW m, NEW S, Sound(m, S), Blank(m), NEW e \in Event, ~ ReplayFails(m, e)
    PROVE  Replayed(m, e) = m
  <1>1. \A j \in Job : m.status[j] = "absent"
    BY DEF Blank, Known
  <1>2. e.job \in Job /\ e.type \in EventType /\ m.status[e.job] = "absent"
    BY <1>1 DEF Event
  <1>3. e.job \notin m.completed /\ e.job \notin m.dead
    BY <1>2 DEF Sound, IndexesAgree, WithStatus, Terminal
  <1>4. e.type = "ENQUEUE"
    BY <1>2, <1>3 DEF ReplayFails, CanMarkInFlight, CanFinish, CanMarkDead, Known, EventType
  <1> QED BY <1>4 DEF Replayed

LEMMA FreshInit == Init => FreshStart
  BY DEF Init, FreshStart, Blank, NewJobManager, NoJobs, Known, IdleSaver, Refuses

LEMMA FreshStep == ASSUME IInv, FreshStart, [Next]_vars PROVE FreshStart'
  <1>1. CASE UNCHANGED vars
    BY <1>1 DEF FreshStart, Starting, Uncut, AllLogged, Refuses, Blank, Known, vars, memory, disk
  <1>2. CASE Next
    <2>0. TypeOK /\ Sound(jm, Claimed)
      BY DEF IInv
    <2>1. ASSUME used'.crash = 0, Starting' PROVE wal' = <<>> /\ snap' = NoJobs
      <3>1. used.crash = 0 /\ ~ Crash /\ Starting
        BY <1>2, <2>0, <2>1, UsedGrows, StartsAgain
      <3>2. UNCHANGED <<wal, snap>>
        BY <1>2, <3>1, StartingSteps DEF LoadSnapshot, ReplayEvent, StartLoops, disk
      <3> QED BY <3>1, <3>2 DEF FreshStart
    <2>2. ASSUME used'.crash = 0 \/ Uncut', Starting' PROVE Blank(jm')
      <3>1. CASE Crash
        BY <3>1 DEF Crash, Blank, NewJobManager, NoJobs, Known
      <3>2. CASE ~ Crash
        <4>1. Starting /\ (used.crash = 0 \/ Uncut) /\ Blank(jm)
          BY <1>2, <2>0, <2>2, <3>2, UsedGrows, StartsAgain DEF FreshStart
        <4>2. CASE LoadSnapshot
          BY <4>1, <4>2, RestoreBlank DEF LoadSnapshot, FreshStart
        <4>3. CASE ReplayEvent
          <5>1. CASE UNCHANGED jm
            BY <4>1, <5>1
          <5>2. CASE pos <= Len(wal) /\ ~ ReplayFails(jm, wal[pos]) /\ jm' = Replayed(jm, wal[pos])
            <6>1. wal[pos] \in Event
              BY <2>0, <5>2 DEF TypeOK
            <6> QED BY <2>0, <4>1, <5>2, <6>1, ReplayedBlank
          <5> QED BY <4>3, <5>1, <5>2 DEF ReplayEvent
        <4>4. ~ (StartLoops /\ phase' = "running")
          BY <2>2 DEF Starting
        <4> QED BY <1>2, <3>2, <4>1, <4>2, <4>3, <4>4, StartingSteps
      <3> QED BY <3>1, <3>2
    <2> QED BY <1>2, <2>0, <2>1, <2>2, UncutStep, LoggedStep DEF FreshStart
  <1> QED BY <1>1, <1>2

LEMMA FreshHolds == Spec => []FreshStart
  BY InvHolds, FreshInit, FreshStep, PTL DEF Spec

(* Requeueing the jobs in flight of a blank manager. *)
LEMMA RequeueBlank ==
    ASSUME NEW m, NEW S, Sound(m, S), Blank(m), NEW n \in RequeueInFlight(m)
    PROVE  Blank(n)
  <1>1. /\ m \in Manager /\ m.inFlight = {} /\ m.queue = <<>>
        /\ \A j \in Job : m.status[j] = "absent"
    BY DEF Blank, Known, Sound, IndexesAgree, WithStatus
  <1>2. PICK q \in Orderings({}) :
           n = [m EXCEPT
                  !.status   = [j \in Job |-> IF j \in m.inFlight THEN "pending" ELSE @[j]],
                  !.attempt  = [j \in Job |-> IF j \in m.inFlight THEN @[j] + 1 ELSE @[j]],
                  !.inFlight = {},
                  !.queue    = @ \o q]
    BY <1>1 DEF RequeueInFlight
  <1>3. q = <<>>
    BY <1>2, NothingOrdered
  <1>4. n.queue = <<>> /\ \A j \in Job : n.status[j] = m.status[j]
    BY <1>1, <1>2, <1>3 DEF Manager
  <1> QED BY <1>1, <1>4 DEF Blank, Known

(* A process that begins before the first crash, or whose log was never cut, *)
(* begins blank.                                                             *)
LEMMA BeginsBlank ==
    ASSUME IInv, FreshStart, Next, used'.crash = 0 \/ Uncut', Starting \/ Crash
    PROVE  Blank(jm')
  <1>0. TypeOK /\ Sound(jm, Claimed)
    BY DEF IInv
  <1>1. CASE Starting'
    BY <1>1, FreshStep DEF FreshStart
  <1>2. CASE ~ Starting'
    <2>1. ~ Crash /\ ~ LoadSnapshot
      BY <1>2 DEF Crash, LoadSnapshot, Starting
    <2>2. Starting /\ Blank(jm)
      BY <1>0, <2>1, UsedGrows DEF FreshStart
    <2>3. CASE StartLoops
      BY <1>0, <2>2, <2>3, RequeueBlank DEF StartLoops
    <2>4. CASE ReplayEvent
      <3>1. UNCHANGED jm
        BY <1>2, <2>2, <2>4 DEF ReplayEvent, Starting
      <3> QED BY <2>2, <3>1
    <2>5. ~ UNCHANGED phase
      BY <1>2, <2>2 DEF Starting
    <2> QED BY <2>1, <2>2, <2>3, <2>4, <2>5, StartingSteps
  <1> QED BY <1>1, <1>2

(* The other steps that change the manager. *)
LEMMA LoopSteps ==
    ASSUME Next, ~ Starting, ~ Crash
    PROVE  \/ UNCHANGED jm
           \/ \E c \in Client : EnqueueAdd(c)
           \/ \E d \in Dispatcher : PopBatch(d) \/ MarkBatch(d) \/ Poll(d)
           \/ HandleResult
           \/ \E j \in Job : Timeout(j)
  <1>1. ~ LoadSnapshot /\ ~ ReplayEvent /\ ~ StartLoops
    BY DEF Starting, LoadSnapshot, ReplayEvent, StartLoops
  <1> QED BY <1>1
    DEF Next, EnqueueLog, LogDispatch, SubmitTask, WorkerTake, WorkerFinish, AckLost,
        TimeoutUnsynced, SnapCopy, SnapWrite, SnapRotate, RotateEnds, DiskFails, DiskRecovers,
        WriterJams, Rest, memory, vars

-----------------------------------------------------------------------------
(* Attempts.                                                                 *)
WithinBudget(m) == \A j \in Job : m.status[j] \in Live => m.attempt[j] <= MaxRetry

LEMMA BumpedFailed ==
    ASSUME NEW m \in Manager, NEW j \in Job
    PROVE  LET n == Failed(m, j)
           IN /\ n \in Manager
              /\ \A k \in Job \ {j} : n.status[k] = m.status[k] /\ n.attempt[k] = m.attempt[k]
              /\ \/ /\ m.attempt[j] + 1 >= MaxRetry /\ n.status[j] = "dead"
                    /\ n.queue = m.queue /\ n.dead = m.dead \cup {j}
                 \/ /\ m.attempt[j] + 1 < MaxRetry /\ m.status[j] = "in_flight"
                    /\ n.status[j] = "pending" /\ n.attempt[j] = m.attempt[j] + 2
                    /\ n.queue = Append(m.queue, j) /\ n.dead = m.dead
                 \/ /\ m.attempt[j] + 1 < MaxRetry /\ m.status[j] # "in_flight"
                    /\ n.status[j] = m.status[j] /\ n.attempt[j] = m.attempt[j] + 1
                    /\ n.queue = m.queue /\ n.dead = m.dead
              /\ n.completed = m.completed
  <1> DEFINE b == BumpAttempt(m, j)
             n == Failed(m, j)
  <1>1. /\ b \in Manager /\ b.queue = m.queue /\ b.status = m.status
        /\ b.dead = m.dead /\ b.completed = m.completed
        /\ \A k \in Job : b.attempt[k] = IF k = j THEN m.attempt[k] + 1 ELSE m.attempt[k]
    BY BumpAttemptFields
  <1>2. n = IF b.attempt[j] >= MaxRetry THEN MarkDead(b, j)
            ELSE IF CanFinish(b, j) THEN Requeue(b, j) ELSE b
    BY DEF Failed
  <1>3. m.attempt[j] \in Nat /\ MaxRetry \in Nat /\ b.attempt[j] = m.attempt[j] + 1
    BY <1>1, ControllerAssumption DEF Manager
  <1> HIDE DEF b, n
  <1>4. CASE b.attempt[j] >= MaxRetry
    <2>1. n = MarkDead(b, j)
      BY <1>2, <1>4
    <2>2. /\ n \in Manager /\ n.queue = m.queue /\ n.attempt = b.attempt
          /\ n.completed = m.completed /\ n.dead = m.dead \cup {j}
          /\ \A k \in Job : n.status[k] = IF k = j THEN "dead" ELSE m.status[k]
      BY <1>1, <2>1, MarkDeadFields
    <2>3. \A k \in Job \ {j} : n.status[k] = m.status[k] /\ n.attempt[k] = m.attempt[k]
      BY <1>1, <2>2
    <2>4. n.status[j] = "dead" /\ m.attempt[j] + 1 >= MaxRetry
      BY <1>3, <1>4, <2>2
    <2> QED BY <2>2, <2>3, <2>4 DEF n
  <1>5. CASE b.attempt[j] < MaxRetry /\ CanFinish(b, j)
    <2>1. n = Requeue(b, j) /\ m.status[j] = "in_flight" /\ ~ (b.attempt[j] >= MaxRetry)
      BY <1>1, <1>2, <1>3, <1>5 DEF CanFinish
    <2>2. /\ n \in Manager /\ n.queue = Append(m.queue, j)
          /\ n.completed = m.completed /\ n.dead = m.dead
          /\ \A k \in Job :
               /\ n.status[k] = IF k = j THEN "pending" ELSE m.status[k]
               /\ n.attempt[k] = IF k = j THEN b.attempt[k] + 1 ELSE b.attempt[k]
      BY <1>1, <2>1, RequeueFields
    <2>3. \A k \in Job \ {j} : n.status[k] = m.status[k] /\ n.attempt[k] = m.attempt[k]
      BY <1>1, <2>2
    <2>4. /\ n.status[j] = "pending" /\ n.attempt[j] = m.attempt[j] + 2
          /\ m.attempt[j] + 1 < MaxRetry
      BY <1>3, <1>5, <2>2
    <2> QED BY <2>1, <2>2, <2>3, <2>4 DEF n
  <1>6. CASE b.attempt[j] < MaxRetry /\ ~ CanFinish(b, j)
    <2>1. n = b /\ m.status[j] # "in_flight" /\ ~ (b.attempt[j] >= MaxRetry)
      BY <1>1, <1>2, <1>3, <1>6 DEF CanFinish
    <2> QED BY <1>1, <1>3, <2>1 DEF n
  <1> QED BY <1>3, <1>4, <1>5, <1>6

LEMMA BudgetStep ==
    ASSUME IInv, FreshStart, RetryBudget, [Next]_vars PROVE RetryBudget'
  <1> SUFFICES ASSUME AllLogged' PROVE WithinBudget(jm')
    BY DEF RetryBudget, WithinBudget
  <1>1. CASE UNCHANGED vars
    BY <1>1 DEF RetryBudget, WithinBudget, Uncut, AllLogged, vars, memory
  <1>2. CASE Next /\ (Starting \/ Crash)
    <2>1. Blank(jm')
      BY <1>2, BeginsBlank DEF AllLogged
    <2> QED BY <2>1 DEF Blank, Known, WithinBudget, Live
  <1>3. CASE Next /\ ~ Starting /\ ~ Crash
    <2>0. AllLogged /\ ~ Refuses /\ jm \in Manager /\ WithinBudget(jm) /\ TypeOK
      BY <1>3, UsedGrows DEF IInv, TypeOK, FreshStart, RetryBudget, WithinBudget
    <2>1. ASSUME NEW c \in Client, EnqueueAdd(c) PROVE WithinBudget(jm')
      <3>1. PICK q \in Seq(Job) : jm' = Enqueue(jm, q)
        BY <2>1, ControllerAssumption, ElemsSplit DEF EnqueueAdd
      <3>3. \A k \in Job : \/ jm'.attempt[k] = 0
                           \/ jm'.status[k] = jm.status[k] /\ jm'.attempt[k] = jm.attempt[k]
        BY <2>0, <3>1, EnqueueFields
      <3>4. MaxRetry \in Nat
        BY ControllerAssumption
      <3> QED BY <2>0, <3>3, <3>4 DEF WithinBudget
    <2>2. ASSUME NEW d \in Dispatcher, PopBatch(d) PROVE WithinBudget(jm')
      <3>1. NextBatch \in 0 .. Len(jm.queue) /\ jm' = PopPending(jm, NextBatch)
        BY <2>0, <2>2, NextBatchType DEF PopBatch
      <3>2. jm'.status = jm.status /\ jm'.attempt = jm.attempt
        BY <2>0, <3>1, PopFields
      <3> QED BY <2>0, <3>2 DEF WithinBudget
    <2>3. ASSUME NEW m \in Manager, NEW T \in SUBSET Job, WithinBudget(m)
          PROVE  WithinBudget(MarkInFlight(m, T))
      BY <2>3, MarkInFlightFields DEF WithinBudget, Live
    <2>4. ASSUME NEW d \in Dispatcher, MarkBatch(d) PROVE WithinBudget(jm')
      <3>1. Elems(disp[d].batch) \in SUBSET Job /\ jm' = MarkInFlight(jm, Elems(disp[d].batch))
        BY <2>0, <2>4, ElemsOfJobs DEF TypeOK, DispState, MarkBatch
      <3> QED BY <2>0, <2>3, <3>1
    <2>5. ASSUME NEW d \in Dispatcher, Poll(d) PROVE WithinBudget(jm')
      <3> DEFINE q == Popped(jm, NextBatch)
                 m == PopPending(jm, NextBatch)
      <3>1. NextBatch \in 0 .. Len(jm.queue) /\ q \in Seq(Job) /\ jm' = MarkInFlight(m, Elems(q))
        BY <2>0, <2>5, NextBatchType DEF Poll
      <3>2. m \in Manager /\ m.status = jm.status /\ m.attempt = jm.attempt
        BY <2>0, <3>1, PopFields
      <3> HIDE DEF q, m
      <3>3. Elems(q) \in SUBSET Job /\ WithinBudget(m)
        BY <2>0, <3>1, <3>2, ElemsOfJobs DEF WithinBudget
      <3> QED BY <2>3, <3>1, <3>2, <3>3
    <2>6. ASSUME NEW j \in Job PROVE WithinBudget(Failed(jm, j))
      <3> DEFINE n == Failed(jm, j)
      <3>1. /\ \A k \in Job \ {j} : n.status[k] = jm.status[k] /\ n.attempt[k] = jm.attempt[k]
            /\ \/ n.status[j] = "dead"
               \/ /\ jm.attempt[j] + 1 < MaxRetry
                  /\ \/ n.attempt[j] = jm.attempt[j] + 2
                     \/ n.attempt[j] = jm.attempt[j] + 1
        BY <2>0, BumpedFailed
      <3>2. jm.attempt[j] \in Nat /\ MaxRetry \in Nat
        BY <2>0, ControllerAssumption DEF Manager
      <3> HIDE DEF n
      <3>3. n.status[j] \in Live => n.attempt[j] <= MaxRetry
        BY <3>1, <3>2 DEF Live
      <3>4. WithinBudget(n)
        BY <2>0, <3>1, <3>3 DEF WithinBudget
      <3> QED BY <3>4 DEF n
    <2>7. CASE HandleResult
      <3> DEFINE j == Head(resultCh).job
      <3>1. Head(resultCh) \in Result
        BY <2>0, <2>7 DEF HandleResult, TypeOK
      <3>2. j \in Job
        BY <3>1 DEF Result
      <3>3. jm' = jm \/ jm' = MarkCompleted(jm, j) \/ jm' = Failed(jm, j)
        BY <2>0, <2>7 DEF HandleResult
      <3> HIDE DEF j
      <3>4. CASE jm' = MarkCompleted(jm, j)
        BY <2>0, <3>2, <3>4, MarkCompletedFields DEF WithinBudget, Live
      <3> QED BY <2>0, <2>6, <3>2, <3>3, <3>4
    <2>8. ASSUME NEW j \in Job, Timeout(j) PROVE WithinBudget(jm')
      BY <2>6, <2>8 DEF Timeout
    <2> QED BY <1>3, <2>0, <2>1, <2>2, <2>4, <2>5, <2>7, <2>8, LoopSteps
  <1> QED BY <1>1, <1>2, <1>3

(* No interleaving of retries, timeouts and late results lets a job that may *)
(* still run exceed its attempts.                                            *)
THEOREM RetriesBounded == Spec => []RetryBudget
  <1>1. Init => RetryBudget
    BY DEF Init, RetryBudget, NewJobManager, NoJobs, Live
  <1>2. IInv /\ FreshStart /\ RetryBudget /\ [Next]_vars => RetryBudget'
    BY BudgetStep
  <1> QED BY InvHolds, FreshHolds, <1>1, <1>2, PTL DEF Spec

-----------------------------------------------------------------------------
(* The log.                                                                  *)

(* Where a step of its own leaves a dispatcher. *)
LEMMA AdvanceCases ==
    ASSUME disp \in [Dispatcher -> DispState], InBatch,
           NEW d \in Dispatcher, NEW pc, disp[d].pc # "pop", Advance(d, pc)
    PROVE  LET s == disp[d]
           IN /\ \A e \in Dispatcher \ {d} : disp'[e] = disp[e]
              /\ s.n \in 1 .. Len(s.batch) /\ s.batch \in Seq(Job)
              /\ \/ /\ s.n < Len(s.batch) /\ disp'[d].n = s.n + 1
                    /\ disp'[d].pc = s.pc /\ disp'[d].batch = s.batch
                 \/ /\ s.n = Len(s.batch) /\ pc = "pop" /\ disp'[d] = IdleDispatcher
                 \/ /\ s.n = Len(s.batch) /\ pc # "pop" /\ disp'[d].n = 1
                    /\ disp'[d].pc = pc /\ disp'[d].batch = s.batch
  <1> DEFINE s == disp[d]
             t == Advanced(s, pc)
  <1>1. s \in DispState /\ s.n <= Len(s.batch)
    BY DEF InBatch
  <1>2. disp' = [disp EXCEPT ![d] = t]
    BY DEF Advance
  <1> HIDE DEF s
  <1>3. s.n \in 1 .. Len(s.batch) /\ s.batch \in Seq(Job) /\ Len(s.batch) \in Nat
    BY <1>1 DEF DispState
  <1>4. CASE s.n < Len(s.batch)
    <2>1. t = [s EXCEPT !.n = s.n + 1]
      BY <1>4 DEF Advanced
    <2>2. t.n = s.n + 1 /\ t.pc = s.pc /\ t.batch = s.batch
      BY <1>1, <2>1 DEF DispState
    <2> HIDE DEF t
    <2>3. disp'[d] = t /\ \A e \in Dispatcher \ {d} : disp'[e] = disp[e]
      BY <1>2
    <2> QED BY <1>3, <1>4, <2>2, <2>3 DEF s
  <1>5. CASE s.n = Len(s.batch) /\ pc = "pop"
    <2>1. t = IdleDispatcher
      BY <1>3, <1>5 DEF Advanced
    <2> HIDE DEF t
    <2>3. disp'[d] = t /\ \A e \in Dispatcher \ {d} : disp'[e] = disp[e]
      BY <1>2
    <2> QED BY <1>3, <1>5, <2>1, <2>3 DEF s
  <1>6. CASE s.n = Len(s.batch) /\ pc # "pop"
    <2>1. t = [s EXCEPT !.pc = pc, !.n = 1]
      BY <1>3, <1>6 DEF Advanced
    <2>2. t.n = 1 /\ t.pc = pc /\ t.batch = s.batch
      BY <1>1, <2>1 DEF DispState
    <2> HIDE DEF t
    <2>3. disp'[d] = t /\ \A e \in Dispatcher \ {d} : disp'[e] = disp[e]
      BY <1>2
    <2> QED BY <1>3, <1>6, <2>2, <2>3 DEF s
  <1> QED BY <1>3, <1>4, <1>5, <1>6

LogHas(l, T, j) == \E i \in DOMAIN l : l[i].type \in T /\ l[i].job = j

(* What is logged on the way: the jobs of a call before they are added, and  *)
(* those of a batch before they are marked.                                  *)
Announced ==
    KeepWAL /\ Uncut =>
      /\ \A c \in Client : \A i \in DOMAIN Batch[c] :
           client[c].pc = "add" \/ (client[c].pc = "log" /\ i < client[c].n) =>
             LogHas(wal, {"ENQUEUE"}, Batch[c][i])
      /\ AllLogged => \A d \in Dispatcher : \A i \in DOMAIN disp[d].batch :
           disp[d].pc = "mark" \/ (disp[d].pc = "log" /\ i < disp[d].n) =>
             LogHas(wal, {"DISPATCH"}, disp[d].batch[i])

(* Every status of the manager, with the event that led to it.  WriteAhead   *)
(* says it of a running process; it holds of one that starts as well.        *)
Backed ==
    \A j \in Job :
      /\ Known(jm, j) => LogHas(wal, {"ENQUEUE"}, j)
      /\ AllLogged /\ jm.status[j] = "in_flight" => LogHas(wal, {"DISPATCH"}, j)
      /\ jm.status[j] = "completed" => LogHas(wal, {"ACK"}, j)
      /\ jm.status[j] = "dead" => LogHas(wal, {"DEAD", "TIMEOUT"}, j)

StatusLogged == KeepWAL /\ Uncut => Backed

LEMMA LongerLog ==
    ASSUME NEW l \in Seq(Event), NEW e \in Seq(Event)
    PROVE  /\ l \o e \in Seq(Event) /\ Len(l \o e) = Len(l) + Len(e) /\ Len(l) \in Nat
           /\ \A i \in 1 .. Len(l) : (l \o e)[i] = l[i]
           /\ \A i \in 1 .. Len(e) : (l \o e)[Len(l) + i] = e[i]
  <1> DEFINE s == l \o e
  <1>1. /\ s \in Seq(Event) /\ Len(s) = Len(l) + Len(e) /\ Len(l) \in Nat /\ Len(e) \in Nat
        /\ \A i \in 1 .. Len(l) : s[i] = l[i]
        /\ \A i \in Len(l) + 1 .. Len(s) : s[i] = e[i - Len(l)]
    OBVIOUS
  <1> HIDE DEF s
  <1>2. ASSUME NEW i \in 1 .. Len(e) PROVE s[Len(l) + i] = e[i]
    <2>1. Len(l) + i \in Len(l) + 1 .. Len(s) /\ (Len(l) + i) - Len(l) = i
      BY <1>1
    <2> QED BY <1>1, <2>1
  <1> QED BY <1>1, <1>2 DEF s

(* An append that is refused leaves the log as it was, or longer. *)
LEMMA LogsLonger ==
    ASSUME wal \in Seq(Event), NEW t \in EventType, NEW q \in Seq(Job), wal' \in Logs(t, q)
    PROVE  \A T, j : LogHas(wal, T, j) => LogHas(wal', T, j)
  <1> DEFINE e == [i \in DOMAIN q |-> [type |-> t, job |-> q[i]]]
  <1>1. e \in [1 .. Len(q) -> Event] /\ Len(q) \in Nat
    BY DEF Event
  <1>2. e \in Seq(Event)
    BY <1>1
  <1>3. wal' = wal \o e \/ wal' = wal
    BY DEF Logs
  <1> HIDE DEF e
  <1>4. CASE wal' = wal \o e
    <2>1. DOMAIN wal \subseteq DOMAIN wal' /\ \A i \in DOMAIN wal : wal'[i] = wal[i]
      <3>1. /\ wal' \in Seq(Event) /\ Len(wal') = Len(wal) + Len(e) /\ Len(wal) \in Nat
            /\ \A i \in 1 .. Len(wal) : wal'[i] = wal[i]
        BY <1>2, <1>4, LongerLog
      <3>2. Len(e) \in Nat /\ DOMAIN wal = 1 .. Len(wal) /\ DOMAIN wal' = 1 .. Len(wal')
        BY <1>2, <3>1
      <3> QED BY <3>1, <3>2
    <2> QED BY <2>1 DEF LogHas
  <1>5. CASE wal' = wal
    BY <1>5 DEF LogHas
  <1> QED BY <1>3, <1>4, <1>5

LEMMA LogsLongerByOne ==
    ASSUME wal \in Seq(Event), NEW t \in EventType, NEW j \in Job, wal' \in Logs(t, <<j>>)
    PROVE  \A T, k : LogHas(wal, T, k) => LogHas(wal', T, k)
  <1> DEFINE q == <<j>>
  <1>1. q \in Seq(Job)
    OBVIOUS
  <1> HIDE DEF q
  <1>2. wal' \in Logs(t, q)
    BY DEF q
  <1> QED BY <1>1, <1>2, LogsLonger

(* An append that is not refused. *)
LEMMA Appended ==
    ASSUME wal \in Seq(Event), KeepWAL, ~ Refuses, NEW t \in EventType, NEW q \in Seq(Job),
           wal' \in Logs(t, q)
    PROVE  /\ \A T, j : LogHas(wal, T, j) => LogHas(wal', T, j)
           /\ \A T : t \in T => \A i \in DOMAIN q : LogHas(wal', T, q[i])
  <1> DEFINE e == [i \in DOMAIN q |-> [type |-> t, job |-> q[i]]]
  <1>1. e \in [1 .. Len(q) -> Event] /\ Len(q) \in Nat
    BY DEF Event
  <1>2. /\ e \in Seq(Event) /\ Len(e) = Len(q)
        /\ \A i \in 1 .. Len(q) : e[i].type = t /\ e[i].job = q[i]
    BY <1>1
  <1>3. wal' = wal \o e
    BY DEF Logs, Refuses
  <1> HIDE DEF e
  <1>4. /\ Len(wal) \in Nat /\ DOMAIN wal' = 1 .. Len(wal) + Len(q)
        /\ \A i \in 1 .. Len(wal) : wal'[i] = wal[i]
        /\ \A i \in 1 .. Len(q) : wal'[Len(wal) + i] = e[i]
    <2>1. /\ wal' \in Seq(Event) /\ Len(wal') = Len(wal) + Len(e) /\ Len(wal) \in Nat
          /\ \A i \in 1 .. Len(wal) : wal'[i] = wal[i]
          /\ \A i \in 1 .. Len(e) : wal'[Len(wal) + i] = e[i]
      BY <1>2, <1>3, LongerLog
    <2> QED BY <1>2, <2>1
  <1>5. ASSUME NEW T, NEW j, LogHas(wal, T, j) PROVE LogHas(wal', T, j)
    <2>1. PICK i \in 1 .. Len(wal) : wal[i].type \in T /\ wal[i].job = j
      BY <1>5 DEF LogHas
    <2>2. i \in DOMAIN wal' /\ wal'[i] = wal[i]
      BY <1>1, <1>4
    <2> QED BY <2>1, <2>2 DEF LogHas
  <1>6. ASSUME NEW T, t \in T, NEW i \in DOMAIN q PROVE LogHas(wal', T, q[i])
    <2>1. i \in 1 .. Len(q) /\ Len(wal) + i \in DOMAIN wal'
      BY <1>1, <1>4
    <2>2. wal'[Len(wal) + i].type = t /\ wal'[Len(wal) + i].job = q[i]
      BY <1>2, <1>4, <2>1
    <2> QED BY <1>6, <2>1, <2>2 DEF LogHas
  <1> QED BY <1>5, <1>6

LEMMA AppendedOne ==
    ASSUME wal \in Seq(Event), KeepWAL, ~ Refuses, NEW t \in EventType, NEW j \in Job,
           wal' \in Logs(t, <<j>>)
    PROVE  /\ \A T, k : LogHas(wal, T, k) => LogHas(wal', T, k)
           /\ \A T : t \in T => LogHas(wal', T, j)
  <1> DEFINE q == <<j>>
  <1>1. q \in Seq(Job) /\ 1 \in DOMAIN q /\ q[1] = j
    OBVIOUS
  <1> HIDE DEF q
  <1>2. wal' \in Logs(t, q)
    BY DEF q
  <1>3. /\ \A T, k : LogHas(wal, T, k) => LogHas(wal', T, k)
        /\ \A T : t \in T => \A i \in DOMAIN q : LogHas(wal', T, q[i])
    BY <1>1, <1>2, Appended
  <1>4. ASSUME NEW T, t \in T PROVE LogHas(wal', T, j)
    <2>1. LogHas(wal', T, q[1])
      BY <1>1, <1>3, <1>4
    <2>2. PICK i \in DOMAIN wal' : wal'[i].type \in T /\ wal'[i].job = q[1]
      BY <2>1 DEF LogHas
    <2> QED BY <1>1, <2>2 DEF LogHas
  <1> QED BY <1>3, <1>4

(* As long as no snapshot is taken the log only grows. *)
LEMMA LogGrows ==
    ASSUME IInv, FreshStart, Next, KeepWAL, Uncut'
    PROVE  /\ Uncut /\ (AllLogged' => AllLogged /\ ~ Refuses)
           /\ \A T, j : LogHas(wal, T, j) => LogHas(wal', T, j)
  <1> DEFINE Grows == \A T, j : LogHas(wal, T, j) => LogHas(wal', T, j)
  <1>0. TypeOK /\ wal \in Seq(Event)
    BY DEF IInv, TypeOK
  <1>1. Uncut /\ writer # "rotating" /\ (AllLogged' => AllLogged /\ ~ Refuses)
    BY <1>0, UsedGrows DEF FreshStart
  <1>2. ASSUME UNCHANGED wal PROVE Grows
    BY <1>2 DEF LogHas
  <1> HIDE DEF Grows
  <1>3. ASSUME NEW t \in EventType, NEW j \in Job, wal' \in Logs(t, <<j>>) PROVE Grows
    BY <1>0, <1>3, LogsLongerByOne DEF Grows
  <1>4. ASSUME NEW t \in EventType, NEW q \in Seq(Job), wal' \in Logs(t, q) PROVE Grows
    BY <1>0, <1>4, LogsLonger DEF Grows
  <1>5. ASSUME NEW c \in Client, EnqueueLog(c) PROVE Grows
    <2>1. CASE client[c].n > Len(Batch[c])
      BY <1>2, <1>5, <2>1 DEF EnqueueLog
    <2>2. CASE ~ (client[c].n > Len(Batch[c]))
      <3>1. client[c] \in Call /\ Batch[c] \in Seq(Job)
        BY <1>0, ControllerAssumption DEF TypeOK
      <3>2. client[c].n \in 1 .. Len(Batch[c])
        BY <2>2, <3>1 DEF Call
      <3>3. Batch[c][client[c].n] \in Job /\ wal' \in Logs("ENQUEUE", <<Batch[c][client[c].n]>>)
        BY <1>5, <2>2, <3>1, <3>2 DEF EnqueueLog
      <3> QED BY <1>3, <3>3 DEF EventType
    <2> QED BY <2>1, <2>2
  <1>6. ASSUME NEW d \in Dispatcher, LogDispatch(d) PROVE Grows
    <2>1. disp[d].batch[disp[d].n] \in Job /\ wal' \in Logs("DISPATCH", <<disp[d].batch[disp[d].n]>>)
      BY <1>0, <1>6, BatchType DEF LogDispatch, IInv, TypeOK
    <2> QED BY <1>3, <2>1 DEF EventType
  <1>7. ASSUME NEW d \in Dispatcher, Poll(d) PROVE Grows
    <2>1. Popped(jm, NextBatch) \in Seq(Job) /\ wal' \in Logs("DISPATCH", Popped(jm, NextBatch))
      BY <1>0, <1>7, NextBatchType DEF Poll, TypeOK
    <2> QED BY <1>4, <2>1 DEF EventType
  <1>8. ASSUME HandleResult PROVE Grows
    <2>1. Head(resultCh) \in Result
      BY <1>0, <1>8 DEF HandleResult, TypeOK
    <2>2. Head(resultCh).job \in Job
      BY <2>1 DEF Result
    <2>3. CASE UNCHANGED wal
      BY <1>2, <2>3
    <2>4. CASE ~ UNCHANGED wal
      <3>1. PICK t \in EventType : wal' \in Logs(t, <<Head(resultCh).job>>)
        BY <1>8, <2>4 DEF HandleResult, EventType
      <3> QED BY <1>3, <2>2, <3>1
    <2> QED BY <2>3, <2>4
  <1>9. ASSUME NEW j \in Job, Timeout(j) \/ TimeoutUnsynced(j) PROVE Grows
    <2>1. wal' \in Logs("TIMEOUT", <<j>>)
      BY <1>9 DEF Timeout, TimeoutUnsynced
    <2> QED BY <1>3, <2>1 DEF EventType
  <1>10. ~ RotateEnds
    BY <1>1 DEF RotateEnds
  <1>11. UNCHANGED wal
         \/ (\E c \in Client : EnqueueLog(c))
         \/ (\E d \in Dispatcher : LogDispatch(d) \/ Poll(d))
         \/ HandleResult
         \/ (\E j \in Job : Timeout(j) \/ TimeoutUnsynced(j))
    BY <1>10
    DEF Next, EnqueueAdd, PopBatch, MarkBatch, SubmitTask, WorkerTake, WorkerFinish, AckLost,
        SnapCopy, SnapWrite, SnapRotate, DiskFails, DiskRecovers, WriterJams, Crash,
        LoadSnapshot, ReplayEvent, StartLoops, Rest, disk, vars
  <1>12. Grows
    BY <1>2, <1>5, <1>6, <1>7, <1>8, <1>9, <1>11
  <1> QED BY <1>1, <1>12 DEF Grows

(* Who is on the way. *)
LEMMA AnnouncedStep ==
    ASSUME IInv, FreshStart, Announced, [Next]_vars PROVE Announced'
  <1> DEFINE Calls(c) ==
               \A i \in DOMAIN Batch[c] :
                 client[c].pc = "add" \/ (client[c].pc = "log" /\ i < client[c].n) =>
                   LogHas(wal, {"ENQUEUE"}, Batch[c][i])
             Batches(d) ==
               \A i \in DOMAIN disp[d].batch :
                 disp[d].pc = "mark" \/ (disp[d].pc = "log" /\ i < disp[d].n) =>
                   LogHas(wal, {"DISPATCH"}, disp[d].batch[i])
  <1>1. CASE UNCHANGED vars
    BY <1>1 DEF Announced, LogHas, Uncut, AllLogged, vars, disk
  <1> SUFFICES ASSUME Next, KeepWAL, Uncut'
               PROVE  /\ \A c \in Client : Calls(c)'
                      /\ AllLogged' => \A d \in Dispatcher : Batches(d)'
    BY <1>1 DEF Announced
  <1>2. /\ Uncut /\ (AllLogged' => AllLogged /\ ~ Refuses)
        /\ \A T, j : LogHas(wal, T, j) => LogHas(wal', T, j)
    BY LogGrows
  <1>3. TypeOK /\ InBatch /\ wal \in Seq(Event) /\ disp \in [Dispatcher -> DispState]
    BY DEF IInv, TypeOK
  <1>4. (\A c \in Client : Calls(c)) /\ (AllLogged => \A d \in Dispatcher : Batches(d))
    BY <1>2 DEF Announced
  <1>5. ASSUME NEW c \in Client PROVE Calls(c)'
    <2>1. CASE client'[c] = client[c]
      BY <1>2, <1>4, <2>1
    <2>2. CASE EnqueueLog(c) /\ client[c].n > Len(Batch[c])
      <3>1. Batch[c] \in Seq(Job) /\ client[c] \in Call /\ client[c].pc = "log"
        BY <1>3, <2>2, ControllerAssumption DEF TypeOK, EnqueueLog
      <3>2. \A i \in DOMAIN Batch[c] : i < client[c].n
        BY <2>2, <3>1 DEF Call
      <3> QED BY <1>2, <1>4, <3>1, <3>2
    <2>3. CASE EnqueueLog(c) /\ ~ (client[c].n > Len(Batch[c])) /\ ~ Refuses
      <3>1. Batch[c] \in Seq(Job) /\ client[c] \in Call /\ client[c].pc = "log"
        BY <1>3, <2>3, ControllerAssumption DEF TypeOK, EnqueueLog
      <3> DEFINE n == client[c].n
      <3>2. n \in 1 .. Len(Batch[c])
        BY <2>3, <3>1 DEF Call
      <3>3. client' = [client EXCEPT ![c] = [client[c] EXCEPT !.n = n + 1]]
        BY <2>3 DEF EnqueueLog
      <3>4. client'[c] = [client[c] EXCEPT !.n = n + 1]
        BY <1>3, <3>3 DEF TypeOK
      <3>5. client'[c].n = n + 1 /\ client'[c].pc = "log"
        BY <3>1, <3>4 DEF Call
      <3>6. Batch[c][n] \in Job /\ wal' \in Logs("ENQUEUE", <<Batch[c][n]>>)
        BY <2>3, <3>1, <3>2 DEF EnqueueLog
      <3>7. LogHas(wal', {"ENQUEUE"}, Batch[c][n])
        BY <2>3, <1>3, <3>6, AppendedOne DEF EventType
      <3> HIDE DEF n
      <3>8. \A i \in DOMAIN Batch[c] : i < n + 1 => i < n \/ i = n
        BY <3>1, <3>2
      <3> QED BY <1>2, <1>4, <3>1, <3>5, <3>7, <3>8 DEF n
    <2>4. CASE client'[c].pc \in {"accepted", "refused"}
      BY <2>4
    <2>7. CASE EnqueueLog(c) /\ ~ (client[c].n > Len(Batch[c])) /\ Refuses
      <3>1. client' = [client EXCEPT ![c] = [client[c] EXCEPT !.pc = "refused"]]
        BY <2>7 DEF EnqueueLog
      <3>2. client[c] \in Call /\ client'[c] = [client[c] EXCEPT !.pc = "refused"]
        BY <1>3, <3>1 DEF TypeOK
      <3>3. client'[c].pc = "refused"
        BY <3>2 DEF Call
      <3> QED BY <3>3
    <2>5. CASE client'[c] = NewCall
      <3>1. \A i \in DOMAIN Batch[c] : ~ (i < 1)
        BY ControllerAssumption
      <3> QED BY <2>5, <3>1 DEF NewCall
    <2>6. \/ client'[c] = client[c] \/ client'[c] = NewCall \/ EnqueueLog(c)
          \/ client'[c].pc \in {"accepted", "refused"}
      <3>1. CASE Crash
        BY <3>1 DEF Crash
      <3>2. ASSUME NEW b \in Client, EnqueueAdd(b)
            PROVE  client'[c] = client[c] \/ client'[c].pc \in {"accepted", "refused"}
        <4>1. PICK pc \in {"accepted", "refused"} :
                 client' = [client EXCEPT ![b] = [client[b] EXCEPT !.pc = pc]]
          BY <3>2 DEF EnqueueAdd
        <4>2. client[b] \in Call
          BY <1>3 DEF TypeOK
        <4>3. [client[b] EXCEPT !.pc = pc].pc = pc
          BY <4>2 DEF Call
        <4> QED BY <1>3, <4>1, <4>3 DEF TypeOK
      <3>3. ASSUME NEW b \in Client, EnqueueLog(b)
            PROVE  client'[c] = client[c] \/ EnqueueLog(c)
        <4>1. \E s : client' = [client EXCEPT ![b] = s]
          BY <3>3 DEF EnqueueLog
        <4> QED BY <1>3, <3>3, <4>1 DEF TypeOK
      <3>4. CASE UNCHANGED client
        BY <3>4
      <3>5. \/ Crash \/ UNCHANGED client \/ \E b \in Client : EnqueueAdd(b) \/ EnqueueLog(b)
        BY DEF Next, PopBatch, LogDispatch, MarkBatch, SubmitTask, Poll, WorkerTake,
               WorkerFinish, HandleResult, AckLost, Timeout, TimeoutUnsynced, SnapCopy,
               SnapWrite, SnapRotate, RotateEnds, DiskFails, DiskRecovers, WriterJams,
               LoadSnapshot, ReplayEvent, StartLoops, Rest, vars
      <3> QED BY <3>1, <3>2, <3>3, <3>4, <3>5
    <2> QED BY <2>1, <2>2, <2>3, <2>4, <2>5, <2>6, <2>7
  <1>6. ASSUME NEW d \in Dispatcher, AllLogged' PROVE Batches(d)'
    <2>0. AllLogged /\ ~ Refuses
      BY <1>2, <1>6
    <2>1. CASE disp'[d] = disp[d]
      BY <1>2, <1>4, <2>0, <2>1
    <2>2. CASE disp'[d].pc \in {"pop", "submit"}
      BY <2>2
    <2>3. CASE PopBatch(d)
      <3>1. /\ disp'[d].n = 1 /\ disp'[d].pc = "log" /\ disp'[d].batch = Popped(jm, NextBatch)
            /\ Popped(jm, NextBatch) \in Seq(Job)
        BY <1>3, <2>3, NextBatchType DEF PopBatch, TypeOK
      <3>2. \A i \in DOMAIN Popped(jm, NextBatch) : ~ (i < 1)
        BY <3>1
      <3> QED BY <3>1, <3>2
    <2>4. CASE LogDispatch(d)
      <3> DEFINE s == disp[d]
      <3>1. s.pc = "log" /\ Advance(d, "mark") /\ wal' \in Logs("DISPATCH", <<s.batch[s.n]>>)
        BY <2>4 DEF LogDispatch
      <3>2. /\ s.n \in 1 .. Len(s.batch) /\ s.batch \in Seq(Job)
            /\ \/ s.n < Len(s.batch) /\ disp'[d].n = s.n + 1
                 /\ disp'[d].pc = "log" /\ disp'[d].batch = s.batch
               \/ s.n = Len(s.batch) /\ disp'[d].pc = "mark" /\ disp'[d].batch = s.batch
        BY <1>3, <3>1, AdvanceCases
      <3>3. s.batch[s.n] \in Job
        BY <3>2
      <3>4. LogHas(wal', {"DISPATCH"}, s.batch[s.n])
        BY <2>0, <1>3, <3>1, <3>3, AppendedOne DEF EventType
      <3>5. Batches(d)
        BY <1>4, <2>0
      <3> HIDE DEF s
      <3>6. \A i \in DOMAIN s.batch : \/ i < s.n \/ i = s.n
                                      \/ s.n < Len(s.batch) /\ ~ (i < s.n + 1)
        BY <3>2
      <3>7. \A i \in DOMAIN s.batch : i < s.n => LogHas(wal', {"DISPATCH"}, s.batch[i])
        BY <1>2, <3>1, <3>5 DEF s
      <3> QED BY <3>2, <3>4, <3>6, <3>7
    <2>5. \/ disp'[d] = disp[d] \/ disp'[d].pc \in {"pop", "submit"}
          \/ PopBatch(d) \/ LogDispatch(d)
      <3>1. CASE Crash
        BY <3>1 DEF Crash, EmptyPool, IdleDispatcher
      <3>2. ASSUME NEW e \in Dispatcher, PopBatch(e)
            PROVE  disp'[d] = disp[d] \/ PopBatch(d)
        BY <1>3, <3>2 DEF PopBatch
      <3>3. ASSUME NEW e \in Dispatcher, LogDispatch(e)
            PROVE  disp'[d] = disp[d] \/ LogDispatch(d)
        <4>1. disp[e].pc = "log" /\ Advance(e, "mark")
          BY <3>3 DEF LogDispatch
        <4>2. \A h \in Dispatcher \ {e} : disp'[h] = disp[h]
          BY <1>3, <4>1, AdvanceCases
        <4> QED BY <3>3, <4>2
      <3>4. ASSUME NEW e \in Dispatcher, SubmitTask(e)
            PROVE  disp'[d] = disp[d] \/ disp'[d].pc \in {"pop", "submit"}
        <4>1. disp[e].pc = "submit" /\ Advance(e, "pop")
          BY <3>4 DEF SubmitTask
        <4>2. /\ \A h \in Dispatcher \ {e} : disp'[h] = disp[h]
              /\ disp'[e].pc = "submit" \/ disp'[e] = IdleDispatcher
          BY <1>3, <4>1, AdvanceCases
        <4> QED BY <4>2 DEF IdleDispatcher
      <3>5. ASSUME NEW e \in Dispatcher, MarkBatch(e)
            PROVE  disp'[d] = disp[d] \/ disp'[d].pc \in {"pop", "submit"}
        <4>1. disp' = [disp EXCEPT ![e] = [disp[e] EXCEPT !.pc = "submit"]] /\ disp[e] \in DispState
          BY <1>3, <3>5 DEF MarkBatch
        <4>2. [disp[e] EXCEPT !.pc = "submit"].pc = "submit"
          BY <4>1 DEF DispState
        <4> QED BY <1>3, <4>1, <4>2
      <3>6. ASSUME NEW e \in Dispatcher, Poll(e)
            PROVE  disp'[d] = disp[d] \/ disp'[d].pc \in {"pop", "submit"}
        BY <1>3, <3>6 DEF Poll, PollReply
      <3>7. CASE UNCHANGED disp
        BY <3>7
      <3>8. \/ Crash \/ UNCHANGED disp
            \/ \E e \in Dispatcher : PopBatch(e) \/ LogDispatch(e) \/ SubmitTask(e)
                                     \/ MarkBatch(e) \/ Poll(e)
        BY DEF Next, EnqueueLog, EnqueueAdd, WorkerTake,
               WorkerFinish, HandleResult, AckLost, Timeout, TimeoutUnsynced, SnapCopy,
               SnapWrite, SnapRotate, RotateEnds, DiskFails, DiskRecovers, WriterJams,
               LoadSnapshot, ReplayEvent, StartLoops, Rest, vars
      <3> QED BY <3>1, <3>2, <3>3, <3>4, <3>5, <3>6, <3>7, <3>8
    <2> QED BY <2>1, <2>2, <2>3, <2>4, <2>5
  <1> QED BY <1>5, <1>6

LEMMA StatusLoggedStep ==
    ASSUME IInv, FreshStart, Announced, StatusLogged, [Next]_vars PROVE StatusLogged'
  <1>1. CASE UNCHANGED vars
    BY <1>1 DEF StatusLogged, Backed, Known, LogHas, Uncut, AllLogged, vars, memory, disk
  <1> SUFFICES ASSUME Next, KeepWAL, Uncut' PROVE Backed'
    BY <1>1 DEF StatusLogged
  <1>2. /\ Uncut /\ (AllLogged' => AllLogged /\ ~ Refuses)
        /\ \A T, j : LogHas(wal, T, j) => LogHas(wal', T, j)
    BY LogGrows
  <1>3. TypeOK /\ InBatch /\ wal \in Seq(Event) /\ jm \in Manager
    BY DEF IInv, TypeOK
  <1>4. Backed
    BY <1>2 DEF StatusLogged
  (* It is enough to look at the jobs whose status a step changes. *)
  <1>5. SUFFICES ASSUME NEW j \in Job, jm'.status[j] # jm.status[j]
                 PROVE  /\ Known(jm', j) => LogHas(wal', {"ENQUEUE"}, j)
                        /\ AllLogged' /\ jm'.status[j] = "in_flight" =>
                             LogHas(wal', {"DISPATCH"}, j)
                        /\ jm'.status[j] = "completed" => LogHas(wal', {"ACK"}, j)
                        /\ jm'.status[j] = "dead" => LogHas(wal', {"DEAD", "TIMEOUT"}, j)
    BY <1>2, <1>4 DEF Backed, Known
  <1>6. CASE Starting \/ Crash
    <2>1. jm'.status[j] = "absent"
      BY <1>6, BeginsBlank DEF Blank, Known
    <2> QED BY <2>1 DEF Known
  <1>7. CASE ~ Starting /\ ~ Crash
    <2>0. Known(jm, j) => LogHas(wal', {"ENQUEUE"}, j)
      BY <1>2, <1>4 DEF Backed
    <2>1. ASSUME NEW c \in Client, EnqueueAdd(c) PROVE /\ jm'.status[j] = "pending"
                                                       /\ LogHas(wal', {"ENQUEUE"}, j)
      <3>1. PICK n \in 0 .. Len(Batch[c]) : jm' = Enqueue(jm, SubSeq(Batch[c], 1, n))
        BY <2>1 DEF EnqueueAdd
      <3> DEFINE q == SubSeq(Batch[c], 1, n)
      <3>2. /\ Batch[c] \in Seq(Job) /\ q \in Seq(Job) /\ Len(q) = n
            /\ \A i \in 1 .. n : q[i] = Batch[c][i]
        BY ControllerAssumption, SubSeqProperties, ElemsSplit
      <3>a. jm' = Enqueue(jm, q)
        BY <3>1
      <3> HIDE DEF q
      <3>b. jm'.status[j] = IF j \in Elems(q) THEN "pending" ELSE jm.status[j]
        BY <1>3, <3>2, <3>a, EnqueueFields
      <3>3. jm'.status[j] = "pending" /\ j \in Elems(q)
        BY <1>5, <3>b
      <3>4. PICK i \in 1 .. n : j = Batch[c][i]
        BY <3>2, <3>3 DEF Elems
      <3>5. i \in DOMAIN Batch[c] /\ client[c].pc = "add"
        BY <2>1, <3>2 DEF EnqueueAdd
      <3>6. LogHas(wal, {"ENQUEUE"}, j)
        BY <1>2, <3>4, <3>5 DEF Announced
      <3> QED BY <1>2, <3>3, <3>6
    <2>2. ASSUME NEW d \in Dispatcher, PopBatch(d) PROVE FALSE
      <3>1. NextBatch \in 0 .. Len(jm.queue) /\ jm' = PopPending(jm, NextBatch)
        BY <1>3, <2>2, NextBatchType DEF PopBatch
      <3> QED BY <1>3, <1>5, <3>1, PopFields
    <2>3. ASSUME NEW d \in Dispatcher, MarkBatch(d)
          PROVE  /\ Known(jm, j) /\ jm'.status[j] = "in_flight"
                 /\ AllLogged' => LogHas(wal', {"DISPATCH"}, j)
      <3> DEFINE T == Elems(disp[d].batch)
      <3>1. disp[d].batch \in Seq(Job) /\ disp[d].pc = "mark" /\ jm' = MarkInFlight(jm, T)
        BY <1>3, <2>3 DEF TypeOK, DispState, MarkBatch
      <3>2. T \in SUBSET Job
        BY <3>1, ElemsOfJobs
      <3> HIDE DEF T
      <3>3. j \in T /\ jm.status[j] = "pending" /\ jm'.status[j] = "in_flight"
        BY <1>3, <1>5, <3>1, <3>2, MarkInFlightFields
      <3>4. AllLogged => LogHas(wal, {"DISPATCH"}, j)
        BY <1>2, <3>1, <3>3 DEF Announced, T, Elems
      <3> QED BY <1>2, <3>3, <3>4 DEF Known
    <2>4. ASSUME NEW d \in Dispatcher, Poll(d)
          PROVE  /\ Known(jm, j) /\ jm'.status[j] = "in_flight"
                 /\ AllLogged' => LogHas(wal', {"DISPATCH"}, j)
      <3> DEFINE q == Popped(jm, NextBatch)
                 m == PopPending(jm, NextBatch)
      <3>1. /\ NextBatch \in 0 .. Len(jm.queue) /\ q \in Seq(Job)
            /\ jm' = MarkInFlight(m, Elems(q)) /\ wal' \in Logs("DISPATCH", q)
        BY <1>3, <2>4, NextBatchType DEF Poll
      <3>2. m \in Manager /\ m.status = jm.status
        BY <1>3, <3>1, PopFields
      <3> HIDE DEF q, m
      <3>3. Elems(q) \in SUBSET Job
        BY <3>1, ElemsOfJobs
      <3>4. j \in Elems(q) /\ jm.status[j] = "pending" /\ jm'.status[j] = "in_flight"
        BY <1>5, <3>1, <3>2, <3>3, MarkInFlightFields
      <3>5. AllLogged' => \A i \in DOMAIN q : LogHas(wal', {"DISPATCH"}, q[i])
        BY <1>2, <1>3, <3>1, Appended DEF EventType
      <3> QED BY <3>4, <3>5 DEF Elems, Known
    <2>5. CASE HandleResult
      <3> DEFINE r == Head(resultCh)
      <3>1. r \in Result
        BY <1>3, <2>5 DEF HandleResult, TypeOK
      <3>2. r.job \in Job
        BY <3>1 DEF Result
      <3>3. Known(jm, r.job)
        BY <1>5, <2>5 DEF HandleResult
      <3>4. CASE r.ok
        <4>1. ~ Refuses /\ wal' \in Logs("ACK", <<r.job>>) /\ jm' = MarkCompleted(jm, r.job)
          BY <1>5, <2>5, <3>3, <3>4 DEF HandleResult
        <4> HIDE DEF r
        <4>2. j = r.job /\ jm'.status[j] = "completed"
          BY <1>3, <1>5, <3>2, <4>1, MarkCompletedFields
        <4>3. LogHas(wal', {"ACK"}, j)
          BY <1>3, <3>2, <4>1, <4>2, AppendedOne DEF EventType
        <4> QED BY <2>0, <3>3, <4>2, <4>3
      <3>5. CASE ~ r.ok
        <4>0. BumpAttempt(jm, r.job).status = jm.status
          BY <1>3, <3>2, BumpAttemptFields
        <4>1. /\ ~ Refuses
              /\ wal' \in Logs(IF jm.attempt[r.job] + 1 >= MaxRetry THEN "DEAD" ELSE "RETRY", <<r.job>>)
              /\ jm' = Failed(jm, r.job)
          BY <1>5, <2>5, <3>3, <3>5, <4>0 DEF HandleResult
        <4> HIDE DEF r
        <4>2. /\ j = r.job
              /\ \/ jm.attempt[j] + 1 >= MaxRetry /\ jm'.status[j] = "dead"
                 \/ jm'.status[j] = "pending"
          BY <1>3, <1>5, <3>2, <4>1, BumpedFailed
        <4>3. CASE jm.attempt[j] + 1 >= MaxRetry /\ jm'.status[j] = "dead"
          <5>1. wal' \in Logs("DEAD", <<j>>)
            BY <4>1, <4>2, <4>3
          <5>2. LogHas(wal', {"DEAD", "TIMEOUT"}, j)
            BY <1>3, <4>1, <5>1, AppendedOne DEF EventType
          <5> QED BY <2>0, <3>3, <4>2, <4>3, <5>2
        <4> QED BY <2>0, <3>3, <4>2, <4>3
      <3> QED BY <3>4, <3>5
    <2>6. ASSUME NEW k \in Job, Timeout(k)
          PROVE  /\ Known(jm, j) /\ jm'.status[j] \in {"pending", "dead"}
                 /\ LogHas(wal', {"DEAD", "TIMEOUT"}, j)
      <3>1. /\ wal' \in Logs("TIMEOUT", <<k>>) /\ jm' = Failed(jm, k) /\ k \in jm.inFlight
            /\ ~ Refuses
        BY <2>6 DEF Timeout
      <3>2. j = k /\ jm'.status[j] \in {"pending", "dead"}
        BY <1>3, <1>5, <3>1, BumpedFailed
      <3>3. Known(jm, j)
        BY <3>1, <3>2 DEF IInv, Sound, IndexesAgree, WithStatus, Known
      <3>4. LogHas(wal', {"DEAD", "TIMEOUT"}, j)
        BY <1>3, <3>1, <3>2, AppendedOne DEF EventType
      <3> QED BY <3>2, <3>3, <3>4
    <2> QED BY <1>5, <1>7, <2>0, <2>1, <2>2, <2>3, <2>4, <2>5, <2>6, LoopSteps
  <1> QED BY <1>6, <1>7

(* Until a snapshot cuts the log, whatever the status of a job says is in    *)
(* the log, although the disk refuses events; that it is in flight, as long  *)
(* as the disk refused none.                                                 *)
THEOREM LogAhead == Spec => []WriteAhead
  <1>1. Init => Announced /\ StatusLogged
    <2> SUFFICES ASSUME Init PROVE Announced /\ StatusLogged
      OBVIOUS
    <2>1. Announced
      <3>1. \A c \in Client : \A i \in DOMAIN Batch[c] : ~ (i < 1)
        BY ControllerAssumption
      <3> QED BY <3>1 DEF Init, Announced, NewCall, IdleDispatcher
    <2>2. \A j \in Job : jm.status[j] = "absent"
      BY DEF Init, NewJobManager, NoJobs
    <2> QED BY <2>1, <2>2 DEF StatusLogged, Backed, Known
  <1>2. IInv /\ FreshStart /\ Announced /\ [Next]_vars => Announced'
    BY AnnouncedStep
  <1>3. IInv /\ FreshStart /\ Announced /\ StatusLogged /\ [Next]_vars => StatusLogged'
    BY StatusLoggedStep
  <1>4. StatusLogged => WriteAhead
    BY DEF StatusLogged, Backed, WriteAhead, HasEvent, LogHas, Uncut
  <1> QED BY InvHolds, FreshHolds, <1>1, <1>2, <1>3, <1>4, PTL DEF Spec

-----------------------------------------------------------------------------
(* The claims.                                                               *)

(* Before the first crash a process starts with an idle pool, and between    *)
(* two batches a dispatcher holds nothing.                                   *)
IdleStart ==
    /\ used.crash = 0 /\ Starting =>
         /\ \A d \in Dispatcher : disp[d] = IdleDispatcher
         /\ taskCh = <<>> /\ resultCh = <<>> /\ \A w \in Worker : running[w] = NoJob
    /\ \A d \in Dispatcher : disp[d].pc = "pop" => disp[d] = IdleDispatcher

(* Where a step leaves the dispatchers. *)
LEMMA DispatcherSteps ==
    ASSUME IInv, Next, ~ Crash
    PROVE  \/ UNCHANGED disp
           \/ \E d \in Dispatcher : \/ PopBatch(d) \/ LogDispatch(d) \/ SubmitTask(d)
                                   \/ MarkBatch(d) \/ Poll(d)
  BY DEF Next, EnqueueLog, EnqueueAdd, WorkerTake, WorkerFinish, HandleResult, AckLost, Timeout,
         TimeoutUnsynced, SnapCopy, SnapWrite, SnapRotate, RotateEnds, DiskFails, DiskRecovers,
         WriterJams, LoadSnapshot, ReplayEvent, StartLoops, Rest, vars

LEMMA StartsIdle ==
    ASSUME IInv, IdleStart, Next, used'.crash = 0, Starting
    PROVE  /\ \A d \in Dispatcher : disp'[d] = IdleDispatcher
           /\ taskCh' = <<>> /\ resultCh' = <<>> /\ \A w \in Worker : running'[w] = NoJob
  <1>1. used.crash = 0 /\ ~ Crash
    BY UsedGrows DEF IInv
  <1>2. /\ \A d \in Dispatcher : disp[d] = IdleDispatcher
        /\ taskCh = <<>> /\ resultCh = <<>> /\ \A w \in Worker : running[w] = NoJob
    BY <1>1 DEF IdleStart
  <1>3. /\ \A d \in Dispatcher : ~ SubmitTask(d)
        /\ \A w \in Worker : ~ WorkerTake(w) /\ ~ WorkerFinish(w)
        /\ ~ AckLost
    BY <1>2 DEF SubmitTask, WorkerTake, WorkerFinish, AckLost, IdleDispatcher
  <1>4. LoadSnapshot \/ ReplayEvent \/ StartLoops \/ DiskRecovers
    BY <1>1, <1>3
    DEF Starting, Next, EnqueueLog, EnqueueAdd, PopBatch, LogDispatch, MarkBatch, Poll,
        HandleResult, Timeout, TimeoutUnsynced, SnapCopy, SnapWrite, SnapRotate, RotateEnds,
        DiskFails, WriterJams, Rest, AtRest
  <1>5. UNCHANGED <<disp, taskCh, running, resultCh>>
    BY <1>4 DEF LoadSnapshot, ReplayEvent, StartLoops, DiskRecovers, pool
  <1> QED BY <1>2, <1>5

LEMMA IdleInit == Init => IdleStart
  BY DEF Init, IdleStart

LEMMA IdleStep == ASSUME IInv, IdleStart, [Next]_vars PROVE IdleStart'
  <1>1. CASE UNCHANGED vars
    BY <1>1 DEF IdleStart, Starting, vars, pool
  <1>2. CASE Next
    <2>0. TypeOK /\ InBatch /\ disp \in [Dispatcher -> DispState]
      BY DEF IInv, TypeOK
    <2>1. ASSUME used'.crash = 0, Starting'
          PROVE  /\ \A d \in Dispatcher : disp'[d] = IdleDispatcher
                 /\ taskCh' = <<>> /\ resultCh' = <<>>
                 /\ \A w \in Worker : running'[w] = NoJob
      BY <1>2, <2>0, <2>1, StartsIdle, StartsAgain, UsedGrows
    <2>2. ASSUME NEW e \in Dispatcher, disp'[e].pc = "pop" PROVE disp'[e] = IdleDispatcher
      <3>0. disp[e].pc = "pop" => disp[e] = IdleDispatcher
        BY DEF IdleStart
      <3>1. CASE Crash
        BY <2>2, <3>0, <3>1 DEF Crash, EmptyPool
      <3>2. CASE UNCHANGED disp
        BY <2>2, <3>0, <3>2
      <3>3. ASSUME NEW d \in Dispatcher, PopBatch(d) \/ Poll(d) PROVE disp'[e] = IdleDispatcher
        BY <2>0, <2>2, <3>0, <3>3 DEF PopBatch, Poll, PollReply
      <3>4. ASSUME NEW d \in Dispatcher, MarkBatch(d) PROVE disp'[e] = IdleDispatcher
        <4>1. disp' = [disp EXCEPT ![d] = [disp[d] EXCEPT !.pc = "submit"]] /\ disp[d] \in DispState
          BY <2>0, <3>4 DEF MarkBatch
        <4>2. [disp[d] EXCEPT !.pc = "submit"].pc = "submit"
          BY <4>1 DEF DispState
        <4> QED BY <2>0, <2>2, <3>0, <4>1, <4>2
      <3>5. ASSUME NEW d \in Dispatcher, LogDispatch(d) \/ SubmitTask(d)
            PROVE  disp'[e] = IdleDispatcher
        <4>1. PICK pc \in {"mark", "pop"} : disp[d].pc # "pop" /\ Advance(d, pc)
          BY <3>5 DEF LogDispatch, SubmitTask
        <4>2. /\ \A h \in Dispatcher \ {d} : disp'[h] = disp[h]
              /\ disp'[d].pc = disp[d].pc \/ disp'[d] = IdleDispatcher \/ disp'[d].pc = "mark"
          BY <2>0, <4>1, AdvanceCases
        <4> QED BY <2>2, <3>0, <4>1, <4>2
      <3> QED BY <1>2, <3>1, <3>2, <3>3, <3>4, <3>5, DispatcherSteps
    <2> QED BY <2>1, <2>2 DEF IdleStart
  <1> QED BY <1>1, <1>2

LEMMA IdleHolds == Spec => []IdleStart
  BY InvHolds, IdleInit, IdleStep, PTL DEF Spec

(* The batch a dispatcher took from the queue and has not marked. *)
Unmarked == [d \in Dispatcher |-> IF disp[d].pc \in {"log", "mark"} THEN disp[d].batch ELSE <<>>]

(* The queue and the unmarked batches b have no job twice.  Their jobs wait, *)
(* unless a late result killed them there: none of them is in flight.        *)
ClaimsOf(m, b) ==
    /\ IsInjective(m.queue)
    /\ \A d \in Dispatcher : IsInjective(b[d]) /\ Elems(b[d]) \cap Elems(m.queue) = {}
    /\ \A d, e \in Dispatcher : d # e => Elems(b[d]) \cap Elems(b[e]) = {}
    /\ \A j \in Elems(m.queue) : m.status[j] \in {"pending", "dead"}
    /\ \A d \in Dispatcher : \A j \in Elems(b[d]) : m.status[j] \in {"pending", "dead"}

Claims == used.crash = 0 => ClaimsOf(jm, Unmarked)

LEMMA NothingTwice == IsInjective(<<>>) /\ Elems(<<>>) = {}
  BY DEF IsInjective, Elems

(* How the methods of the manager keep the claims. *)
LEMMA EnqueueClaims ==
    ASSUME NEW m \in Manager, NEW b \in [Dispatcher -> Seq(Job)], ClaimsOf(m, b),
           NEW q \in Seq(Job), NEW n \in 0 .. Len(q), Accepts(m, q, n)
    PROVE  ClaimsOf(Enqueue(m, SubSeq(q, 1, n)), b)
  <1> DEFINE p == SubSeq(q, 1, n)
             r == Enqueue(m, p)
  <1>1. /\ p \in Seq(Job) /\ Len(p) = n /\ n \in Nat
        /\ \A i \in 1 .. n : p[i] = q[i]
    BY SubSeqProperties
  <1>2. /\ \A i \in 1 .. n : ~ Known(m, q[i])
        /\ \A i \in 1 .. n : \A h \in 1 .. i - 1 : q[h] # q[i]
    BY DEF Accepts
  <1>3. m.queue \in Seq(Job)
    BY DEF Manager
  <1> HIDE DEF p
  <1>4. /\ r.queue = m.queue \o p
        /\ \A k \in Job : r.status[k] = IF k \in Elems(p) THEN "pending" ELSE m.status[k]
    BY <1>1, EnqueueFields
  <1> HIDE DEF r
  <1>5. \A k \in Elems(p) : k \in Job /\ m.status[k] = "absent"
    BY <1>1, <1>2 DEF Elems, Known
  <1>6. IsInjective(p)
    <2> SUFFICES ASSUME NEW h \in 1 .. n, NEW i \in 1 .. n, p[h] = p[i] PROVE h = i
      BY <1>1 DEF IsInjective
    <2>1. ~ (h \in 1 .. i - 1) /\ ~ (i \in 1 .. h - 1)
      BY <1>1, <1>2
    <2> QED BY <1>1, <2>1
  <1>7. /\ Elems(m.queue) \cap Elems(p) = {}
        /\ \A d \in Dispatcher : Elems(b[d]) \cap Elems(p) = {}
    BY <1>5 DEF ClaimsOf
  <1>8. IsInjective(r.queue) /\ Elems(r.queue) = Elems(m.queue) \cup Elems(p)
    BY <1>1, <1>3, <1>4, <1>6, <1>7, InjectiveConcat, ElemsConcat DEF ClaimsOf
  <1>9. /\ \A k \in Elems(m.queue) : k \in Job
        /\ \A k \in Elems(r.queue) : r.status[k] \in {"pending", "dead"}
    BY <1>3, <1>4, <1>5, <1>8, ElemsOfJobs DEF ClaimsOf
  <1>10. \A d \in Dispatcher : \A k \in Elems(b[d]) : r.status[k] \in {"pending", "dead"}
    BY <1>4, <1>7, ElemsOfJobs DEF ClaimsOf
  <1>11. \A d \in Dispatcher : Elems(b[d]) \cap Elems(r.queue) = {}
    BY <1>7, <1>8 DEF ClaimsOf
  <1>12. ClaimsOf(r, b)
    BY <1>8, <1>9, <1>10, <1>11 DEF ClaimsOf
  <1> QED BY <1>12 DEF p, r

LEMMA PopClaims ==
    ASSUME NEW m \in Manager, NEW b \in [Dispatcher -> Seq(Job)], ClaimsOf(m, b),
           NEW d \in Dispatcher, b[d] = <<>>, NEW k \in 0 .. Len(m.queue)
    PROVE  ClaimsOf(PopPending(m, k), [b EXCEPT ![d] = Popped(m, k)])
  <1> DEFINE p == Popped(m, k)
             n == PopPending(m, k)
             c == [b EXCEPT ![d] = p]
  <1>1. /\ n.queue = SubSeq(m.queue, k + 1, Len(m.queue)) /\ n.status = m.status
        /\ m.queue \in Seq(Job) /\ p = SubSeq(m.queue, 1, k)
    BY PopFields DEF Popped, Manager
  <1>2. /\ IsInjective(p) /\ IsInjective(n.queue)
        /\ Elems(p) \cap Elems(n.queue) = {} /\ Elems(m.queue) = Elems(p) \cup Elems(n.queue)
    BY <1>1, InjectiveSplit, ElemsSplit DEF ClaimsOf
  <1>3. c[d] = p /\ \A e \in Dispatcher \ {d} : c[e] = b[e]
    OBVIOUS
  <1> HIDE DEF p, n, c
  <1>4. \A e \in Dispatcher : IsInjective(c[e]) /\ Elems(c[e]) \cap Elems(n.queue) = {}
    BY <1>2, <1>3 DEF ClaimsOf
  <1>5. \A e, f \in Dispatcher : e # f => Elems(c[e]) \cap Elems(c[f]) = {}
    BY <1>2, <1>3 DEF ClaimsOf
  <1>6. /\ \A j \in Elems(n.queue) : n.status[j] \in {"pending", "dead"}
        /\ \A e \in Dispatcher : \A j \in Elems(c[e]) : n.status[j] \in {"pending", "dead"}
    BY <1>1, <1>2, <1>3 DEF ClaimsOf
  <1>7. ClaimsOf(n, c)
    BY <1>2, <1>4, <1>5, <1>6 DEF ClaimsOf
  <1> QED BY <1>7 DEF n, c, p

LEMMA MarkClaims ==
    ASSUME NEW m \in Manager, NEW b \in [Dispatcher -> Seq(Job)], ClaimsOf(m, b),
           NEW d \in Dispatcher
    PROVE  ClaimsOf(MarkInFlight(m, Elems(b[d])), [b EXCEPT ![d] = <<>>])
  <1> DEFINE T == Elems(b[d])
             n == MarkInFlight(m, T)
             c == [b EXCEPT ![d] = <<>>]
  <1>0. T \in SUBSET Job /\ m.queue \in Seq(Job)
    BY ElemsOfJobs DEF Manager
  <1>1. /\ n.queue = m.queue
        /\ \A k \in Job : k \notin T => n.status[k] = m.status[k]
    BY <1>0, MarkInFlightFields
  <1>2. c[d] = <<>> /\ \A e \in Dispatcher \ {d} : c[e] = b[e]
    OBVIOUS
  <1> HIDE DEF n, c
  <1>3. \A e \in Dispatcher : IsInjective(c[e]) /\ Elems(c[e]) \cap Elems(n.queue) = {}
    BY <1>1, <1>2, NothingTwice DEF ClaimsOf
  <1>4. \A e, f \in Dispatcher : e # f => Elems(c[e]) \cap Elems(c[f]) = {}
    BY <1>2, NothingTwice DEF ClaimsOf
  <1>5. \A j \in Elems(n.queue) : n.status[j] \in {"pending", "dead"}
    BY <1>0, <1>1, ElemsOfJobs DEF ClaimsOf
  <1>6. ASSUME NEW e \in Dispatcher, NEW j \in Elems(c[e])
        PROVE  n.status[j] \in {"pending", "dead"}
    <2>1. e # d /\ c[e] = b[e] /\ b[e] \in Seq(Job)
      BY <1>2, <1>6, NothingTwice
    <2>2. j \in Job /\ j \notin T
      BY <2>1, ElemsOfJobs DEF ClaimsOf
    <2> QED BY <1>1, <2>1, <2>2 DEF ClaimsOf
  <1>7. ClaimsOf(n, c)
    BY <1>1, <1>3, <1>4, <1>5, <1>6 DEF ClaimsOf
  <1> QED BY <1>7 DEF n, c

(* A manager that changes only jobs that were not claimed. *)
LEMMA OtherClaims ==
    ASSUME NEW m \in Manager, NEW n \in Manager, NEW b \in [Dispatcher -> Seq(Job)],
           ClaimsOf(m, b), NEW j \in Job, n.queue = m.queue,
           \A k \in Job \ {j} : n.status[k] = m.status[k],
           n.status[j] \in {m.status[j], "dead"} \/ m.status[j] = "in_flight"
    PROVE  ClaimsOf(n, b)
  <1>1. m.queue \in Seq(Job) /\ \A d \in Dispatcher : Elems(b[d]) \subseteq Job
    BY ElemsOfJobs DEF Manager
  <1>2. \A k \in Job : m.status[k] \in {"pending", "dead"} => n.status[k] \in {"pending", "dead"}
    OBVIOUS
  <1>3. Elems(m.queue) \subseteq Job
    BY <1>1, ElemsOfJobs
  <1> QED BY <1>1, <1>2, <1>3 DEF ClaimsOf

LEMMA FailedClaims ==
    ASSUME NEW m \in Manager, NEW b \in [Dispatcher -> Seq(Job)], ClaimsOf(m, b), NEW j \in Job
    PROVE  ClaimsOf(Failed(m, j), b)
  <1> DEFINE n == Failed(m, j)
  <1>1. /\ n \in Manager
        /\ \A k \in Job \ {j} : n.status[k] = m.status[k]
        /\ \/ n.status[j] \in {m.status[j], "dead"} /\ n.queue = m.queue
           \/ /\ m.status[j] = "in_flight" /\ n.status[j] = "pending"
              /\ n.queue = Append(m.queue, j)
    BY BumpedFailed
  <1> HIDE DEF n
  <1>2. CASE n.status[j] \in {m.status[j], "dead"} /\ n.queue = m.queue
    <2>1. ClaimsOf(n, b)
      BY <1>1, <1>2, OtherClaims
    <2> QED BY <2>1 DEF n
  <1>3. CASE m.status[j] = "in_flight" /\ n.status[j] = "pending" /\ n.queue = Append(m.queue, j)
    <2>1. m.queue \in Seq(Job) /\ Elems(m.queue) \subseteq Job
      BY ElemsOfJobs DEF Manager
    <2>2. j \notin Elems(m.queue) /\ \A d \in Dispatcher : j \notin Elems(b[d])
      BY <1>3 DEF ClaimsOf
    <2>3. IsInjective(n.queue) /\ Elems(n.queue) = Elems(m.queue) \cup {j}
      BY <1>3, <2>1, <2>2, InjectiveAppend, ElemsAppend DEF ClaimsOf
    <2>4. \A d \in Dispatcher : Elems(b[d]) \cap Elems(n.queue) = {}
      BY <2>2, <2>3 DEF ClaimsOf
    <2>5. \A k \in Elems(n.queue) : n.status[k] \in {"pending", "dead"}
      BY <1>1, <1>3, <2>1, <2>3 DEF ClaimsOf
    <2>6. \A d \in Dispatcher : Elems(b[d]) \subseteq Job
      BY ElemsOfJobs
    <2>7. \A d \in Dispatcher : \A k \in Elems(b[d]) : n.status[k] \in {"pending", "dead"}
      BY <1>1, <2>2, <2>6 DEF ClaimsOf
    <2>8. ClaimsOf(n, b)
      BY <2>3, <2>4, <2>5, <2>7 DEF ClaimsOf
    <2> QED BY <2>8 DEF n
  <1> QED BY <1>1, <1>2, <1>3

LEMMA UnmarkedType == ASSUME TypeOK PROVE Unmarked \in [Dispatcher -> Seq(Job)]
  <1>1. \A d \in Dispatcher : disp[d].batch \in Seq(Job) /\ <<>> \in Seq(Job)
    BY DEF TypeOK, DispState
  <1> QED BY <1>1 DEF Unmarked

(* The steps of a dispatcher, as they show in the unmarked batches. *)
LEMMA UnmarkedSteps ==
    ASSUME IInv, NEW d \in Dispatcher
    PROVE  /\ PopBatch(d) => /\ Unmarked[d] = <<>>
                             /\ Unmarked' = [Unmarked EXCEPT ![d] = Popped(jm, NextBatch)]
           /\ LogDispatch(d) \/ SubmitTask(d) => Unmarked' = Unmarked
           /\ MarkBatch(d) => /\ Unmarked[d] = disp[d].batch
                              /\ Unmarked' = [Unmarked EXCEPT ![d] = <<>>]
           /\ Poll(d) => Unmarked[d] = <<>> /\ Unmarked' = Unmarked
  <1>0. disp \in [Dispatcher -> DispState] /\ InBatch
    BY DEF IInv, TypeOK
  <1>1. ASSUME PopBatch(d)
        PROVE  Unmarked[d] = <<>> /\ Unmarked' = [Unmarked EXCEPT ![d] = Popped(jm, NextBatch)]
    <2> DEFINE s == [pc |-> "log", batch |-> Popped(jm, NextBatch), n |-> 1]
    <2>1. disp[d].pc = "pop" /\ disp' = [disp EXCEPT ![d] = s]
      BY <1>1 DEF PopBatch
    <2>2. s.pc = "log" /\ s.batch = Popped(jm, NextBatch)
      OBVIOUS
    <2> HIDE DEF s
    <2>3. disp'[d] = s /\ \A e \in Dispatcher \ {d} : disp'[e] = disp[e]
      BY <1>0, <2>1
    <2> DEFINE taken(e) == IF disp'[e].pc \in {"log", "mark"} THEN disp'[e].batch ELSE <<>>
    <2>4. taken(d) = Popped(jm, NextBatch) /\ \A e \in Dispatcher \ {d} : taken(e) = Unmarked[e]
      BY <2>2, <2>3 DEF Unmarked
    <2>5. Unmarked' = [e \in Dispatcher |-> taken(e)]
      BY DEF Unmarked
    <2>6. DOMAIN Unmarked = Dispatcher
      BY DEF Unmarked
    <2> HIDE DEF taken
    <2>7. Unmarked' = [Unmarked EXCEPT ![d] = Popped(jm, NextBatch)]
      BY <2>4, <2>5, <2>6 DEF Unmarked
    <2> QED BY <2>1, <2>7 DEF Unmarked
  <1>2. ASSUME LogDispatch(d) \/ SubmitTask(d) PROVE Unmarked' = Unmarked
    <2>1. \/ disp[d].pc = "log" /\ Advance(d, "mark")
          \/ disp[d].pc = "submit" /\ Advance(d, "pop")
      BY <1>2 DEF LogDispatch, SubmitTask
    <2>2. /\ \A e \in Dispatcher \ {d} : disp'[e] = disp[e]
          /\ \/ disp[d].pc = "log" /\ disp'[d].pc \in {"log", "mark"} /\ disp'[d].batch = disp[d].batch
             \/ disp[d].pc = "submit" /\ (disp'[d].pc = "submit" \/ disp'[d] = IdleDispatcher)
      BY <1>0, <2>1, AdvanceCases
    <2> QED BY <2>2 DEF Unmarked, IdleDispatcher
  <1>3. ASSUME MarkBatch(d)
        PROVE  Unmarked[d] = disp[d].batch /\ Unmarked' = [Unmarked EXCEPT ![d] = <<>>]
    <2> DEFINE s == [disp[d] EXCEPT !.pc = "submit"]
    <2>1. disp[d].pc = "mark" /\ disp' = [disp EXCEPT ![d] = s]
      BY <1>3 DEF MarkBatch
    <2>2. s.pc = "submit"
      BY <1>0 DEF DispState
    <2> HIDE DEF s
    <2>3. disp'[d] = s /\ \A e \in Dispatcher \ {d} : disp'[e] = disp[e]
      BY <1>0, <2>1
    <2> DEFINE taken(e) == IF disp'[e].pc \in {"log", "mark"} THEN disp'[e].batch ELSE <<>>
    <2>4. taken(d) = <<>> /\ \A e \in Dispatcher \ {d} : taken(e) = Unmarked[e]
      BY <2>2, <2>3 DEF Unmarked
    <2>5. Unmarked' = [e \in Dispatcher |-> taken(e)]
      BY DEF Unmarked
    <2>6. DOMAIN Unmarked = Dispatcher
      BY DEF Unmarked
    <2> HIDE DEF taken
    <2>7. Unmarked' = [Unmarked EXCEPT ![d] = <<>>]
      BY <2>4, <2>5, <2>6 DEF Unmarked
    <2> QED BY <2>1, <2>7 DEF Unmarked
  <1>4. ASSUME Poll(d) PROVE Unmarked[d] = <<>> /\ Unmarked' = Unmarked
    <2>1. /\ disp[d].pc = "pop"
          /\ \/ UNCHANGED disp
             \/ disp' = [disp EXCEPT ![d] =
                           [pc |-> "submit", batch |-> Popped(jm, NextBatch), n |-> 1]]
      BY <1>4 DEF Poll, PollReply
    <2>2. /\ \A e \in Dispatcher \ {d} : disp'[e] = disp[e]
          /\ disp'[d].pc \in {"pop", "submit"}
      BY <1>0, <2>1
    <2> QED BY <2>1, <2>2 DEF Unmarked
  <1> QED BY <1>1, <1>2, <1>3, <1>4

(* A batch popped and marked in one hold of the lock. *)
LEMMA PollClaims ==
    ASSUME NEW m \in Manager, NEW b \in [Dispatcher -> Seq(Job)], ClaimsOf(m, b),
           NEW d \in Dispatcher, b[d] = <<>>, NEW k \in 0 .. Len(m.queue)
    PROVE  ClaimsOf(MarkInFlight(PopPending(m, k), Elems(Popped(m, k))), b)
  <1> DEFINE p == Popped(m, k)
             n == PopPending(m, k)
             c == [b EXCEPT ![d] = p]
  <1>1. p \in Seq(Job) /\ n \in Manager
    BY PopFields, ElemsSplit DEF Popped, Manager
  <1>2. ClaimsOf(n, c)
    BY PopClaims
  <1>3. c \in [Dispatcher -> Seq(Job)] /\ c[d] = p /\ [c EXCEPT ![d] = <<>>] = b
    BY <1>1
  <1> HIDE DEF p, n, c
  <1>4. ClaimsOf(MarkInFlight(n, Elems(c[d])), [c EXCEPT ![d] = <<>>])
    BY <1>1, <1>2, <1>3, MarkClaims
  <1>5. ClaimsOf(MarkInFlight(n, Elems(p)), b)
    BY <1>3, <1>4
  <1> QED BY <1>5 DEF p, n

LEMMA ClaimsStep ==
    ASSUME IInv, FreshStart, IdleStart, Claims, [Next]_vars PROVE Claims'
  <1>1. CASE UNCHANGED vars
    BY <1>1 DEF Claims, Unmarked, vars, memory
  <1> SUFFICES ASSUME Next, used'.crash = 0 PROVE ClaimsOf(jm', Unmarked')
    BY <1>1 DEF Claims
  <1>0. TypeOK /\ jm \in Manager /\ Unmarked \in [Dispatcher -> Seq(Job)]
    BY UnmarkedType DEF IInv, TypeOK
  <1>2. used.crash = 0 /\ ~ Crash /\ ClaimsOf(jm, Unmarked)
    BY <1>0, UsedGrows DEF Claims
  <1>3. CASE Starting
    <2>1. Blank(jm') /\ \A d \in Dispatcher : disp'[d] = IdleDispatcher
      BY <1>3, BeginsBlank, StartsIdle
    <2>2. jm'.queue = <<>> /\ \A d \in Dispatcher : Unmarked'[d] = <<>>
      BY <2>1 DEF Blank, Unmarked, IdleDispatcher
    <2> HIDE DEF Unmarked
    <2> QED BY <2>2, NothingTwice DEF ClaimsOf
  <1>4. CASE ~ Starting
    <2>1. CASE UNCHANGED <<jm, Unmarked>>
      BY <1>2, <2>1
    <2>2. ASSUME NEW c \in Client, EnqueueAdd(c) PROVE ClaimsOf(jm', Unmarked')
      <3>1. PICK n \in 0 .. Len(Batch[c]) :
               Accepts(jm, Batch[c], n) /\ jm' = Enqueue(jm, SubSeq(Batch[c], 1, n))
        BY <2>2 DEF EnqueueAdd
      <3>2. Batch[c] \in Seq(Job) /\ Unmarked' = Unmarked
        BY <2>2, ControllerAssumption DEF EnqueueAdd, Unmarked
      <3> QED BY <1>0, <1>2, <3>1, <3>2, EnqueueClaims
    <2>3. ASSUME NEW d \in Dispatcher, PopBatch(d) PROVE ClaimsOf(jm', Unmarked')
      <3>1. NextBatch \in 0 .. Len(jm.queue) /\ jm' = PopPending(jm, NextBatch)
        BY <1>0, <2>3, NextBatchType DEF PopBatch
      <3> QED BY <1>0, <1>2, <2>3, <3>1, PopClaims, UnmarkedSteps
    <2>4. ASSUME NEW d \in Dispatcher, LogDispatch(d) \/ SubmitTask(d)
          PROVE  ClaimsOf(jm', Unmarked')
      <3>1. UNCHANGED jm
        BY <2>4 DEF LogDispatch, SubmitTask, memory
      <3> QED BY <1>2, <2>4, <3>1, UnmarkedSteps
    <2>5. ASSUME NEW d \in Dispatcher, MarkBatch(d) PROVE ClaimsOf(jm', Unmarked')
      <3>1. jm' = MarkInFlight(jm, Elems(Unmarked[d]))
        BY <2>5, UnmarkedSteps DEF MarkBatch
      <3> QED BY <1>0, <1>2, <2>5, <3>1, MarkClaims, UnmarkedSteps
    <2>6. ASSUME NEW d \in Dispatcher, Poll(d) PROVE ClaimsOf(jm', Unmarked')
      <3>1. /\ NextBatch \in 0 .. Len(jm.queue)
            /\ jm' = MarkInFlight(PopPending(jm, NextBatch), Elems(Popped(jm, NextBatch)))
        BY <1>0, <2>6, NextBatchType DEF Poll
      <3> QED BY <1>0, <1>2, <2>6, <3>1, PollClaims, UnmarkedSteps
    <2>7. CASE HandleResult
      <3> DEFINE j == Head(resultCh).job
      <3>1. Head(resultCh) \in Result
        BY <1>0, <2>7 DEF HandleResult, TypeOK
      <3>2. j \in Job /\ Unmarked' = Unmarked
        BY <2>7, <3>1 DEF HandleResult, Result, Unmarked
      <3>3. \/ jm' = jm \/ jm' = Failed(jm, j) \/ jm' = BumpAttempt(jm, j)
            \/ CanFinish(jm, j) /\ jm' = MarkCompleted(jm, j)
        BY <2>7 DEF HandleResult
      <3> HIDE DEF j
      <3>4. CASE jm' = BumpAttempt(jm, j)
        <4>1. jm' \in Manager /\ jm'.queue = jm.queue /\ jm'.status = jm.status
          BY <1>0, <3>2, <3>4, BumpAttemptFields
        <4> QED BY <1>2, <3>2, <4>1 DEF ClaimsOf
      <3>5. CASE CanFinish(jm, j) /\ jm' = MarkCompleted(jm, j)
        <4>1. /\ jm' \in Manager /\ jm'.queue = jm.queue /\ jm.status[j] = "in_flight"
              /\ \A k \in Job \ {j} : jm'.status[k] = jm.status[k]
          BY <1>0, <3>2, <3>5, MarkCompletedFields DEF CanFinish
        <4> QED BY <1>0, <1>2, <3>2, <4>1, OtherClaims
      <3> QED BY <1>0, <1>2, <3>2, <3>3, <3>4, <3>5, FailedClaims
    <2>8. ASSUME NEW j \in Job, Timeout(j) PROVE ClaimsOf(jm', Unmarked')
      <3>1. jm' = Failed(jm, j) /\ Unmarked' = Unmarked
        BY <2>8 DEF Timeout, Unmarked
      <3> QED BY <1>0, <1>2, <3>1, FailedClaims
    <2>9. UNCHANGED disp => UNCHANGED Unmarked
      BY DEF Unmarked
    <2> QED BY <1>2, <1>4, <2>1, <2>2, <2>3, <2>4, <2>5, <2>6, <2>7, <2>8, <2>9,
               LoopSteps, DispatcherSteps
  <1> QED BY <1>3, <1>4

LEMMA ClaimsHold == Spec => []Claims
  <1>1. Init => Claims
    <2>1. Init => jm.queue = <<>> /\ \A d \in Dispatcher : Unmarked[d] = <<>>
      BY DEF Init, Unmarked, IdleDispatcher, NewJobManager
    <2> QED BY <2>1, NothingTwice DEF Claims, ClaimsOf
  <1>2. IInv /\ FreshStart /\ IdleStart /\ Claims /\ [Next]_vars => Claims'
    BY ClaimsStep
  <1> QED BY InvHolds, FreshHolds, IdleHolds, <1>1, <1>2, PTL DEF Spec

(* A set any two elements of which are equal. *)
LEMMA AtMostOne ==
    ASSUME NEW S, \A x, y \in S : x = y
    PROVE  /\ Cardinality(S) <= 1 /\ Cardinality(S) \in Nat
           /\ S = {} => Cardinality(S) = 0
  <1>1. CASE S = {}
    BY <1>1, FS_EmptySet
  <1>2. CASE S # {}
    <2>1. PICK x \in S : TRUE
      BY <1>2
    <2>2. S = {x}
      BY <2>1
    <2>3. Cardinality(S) = 1
      BY <2>2, FS_Singleton
    <2> QED BY <1>2, <2>3
  <1> QED BY <1>1, <1>2

(* No two dispatchers claim the same job, and none claims a queued one. *)
THEOREM ClaimedByOne == Spec => []ClaimedOnce
  <1>1. ASSUME IInv, Claims PROVE ClaimedOnce
    <2> SUFFICES ASSUME used.crash = 0, NEW j \in Job
                 PROVE  Cardinality({i \in DOMAIN jm.queue : jm.queue[i] = j})
                        + Cardinality({p \in Dispatcher \X (1 .. BatchSize) :
                              /\ disp[p[1]].pc \in {"log", "mark"}
                              /\ p[2] \in DOMAIN disp[p[1]].batch
                              /\ disp[p[1]].batch[p[2]] = j}) <= 1
      BY DEF ClaimedOnce
    <2> DEFINE Q == {i \in DOMAIN jm.queue : jm.queue[i] = j}
               P == {p \in Dispatcher \X (1 .. BatchSize) :
                       /\ disp[p[1]].pc \in {"log", "mark"}
                       /\ p[2] \in DOMAIN disp[p[1]].batch /\ disp[p[1]].batch[p[2]] = j}
    <2>1. ClaimsOf(jm, Unmarked)
      BY <1>1 DEF Claims
    <2>2. \A x, y \in Q : x = y
      BY <2>1 DEF ClaimsOf, IsInjective
    <2>3. Q # {} => j \in Elems(jm.queue)
      BY DEF Elems
    <2>4. ASSUME NEW p \in P
          PROVE  /\ p[1] \in Dispatcher /\ p = <<p[1], p[2]>>
                 /\ p[2] \in DOMAIN Unmarked[p[1]] /\ Unmarked[p[1]][p[2]] = j
                 /\ j \in Elems(Unmarked[p[1]])
      BY <2>4 DEF Unmarked, Elems
    <2> HIDE DEF P, Q
    <2>5. ASSUME NEW x \in P, NEW y \in P PROVE x = y
      <3>1. x[1] = y[1]
        BY <2>1, <2>4 DEF ClaimsOf
      <3>2. x[2] = y[2]
        BY <2>1, <2>4, <3>1 DEF ClaimsOf, IsInjective
      <3> QED BY <2>4, <3>1, <3>2
    <2>6. P = {} \/ Q = {}
      BY <2>1, <2>3, <2>4 DEF ClaimsOf
    <2>7. Cardinality(P) <= 1 /\ Cardinality(P) \in Nat /\ (P = {} => Cardinality(P) = 0)
      BY <2>5, AtMostOne
    <2>8. Cardinality(Q) <= 1 /\ Cardinality(Q) \in Nat /\ (Q = {} => Cardinality(Q) = 0)
      BY <2>2, AtMostOne
    <2>9. Cardinality(Q) + Cardinality(P) <= 1
      BY <2>6, <2>7, <2>8
    <2> QED BY <2>9 DEF P, Q
  <1> QED BY InvHolds, ClaimsHold, <1>1, PTL

-----------------------------------------------------------------------------
(* The executions.                                                           *)

(* The jobs a dispatcher in state s has still to submit, ... *)
Held(s) == {s.batch[i] : i \in {h \in DOMAIN s.batch : s.pc = "submit" /\ h >= s.n}}
Unsent  == [d \in Dispatcher |-> Held(disp[d])]

(* ... and those of the results. *)
ResultJobs == [i \in DOMAIN resultCh |-> resultCh[i].job]

(* No job is twice in what is to be submitted (u), submitted (t), run (r) or *)
(* reported (q).                                                             *)
OnceOf(u, t, r, q) ==
    /\ IsInjective(t) /\ IsInjective(q)
    /\ \A d, e \in Dispatcher : d # e => u[d] \cap u[e] = {}
    /\ \A v, w \in Worker : r[v] = r[w] /\ r[v] # NoJob => v = w
    /\ \A d \in Dispatcher : /\ u[d] \cap Elems(t) = {} /\ u[d] \cap Elems(q) = {}
                            /\ \A w \in Worker : r[w] \notin u[d]
    /\ Elems(t) \cap Elems(q) = {}
    /\ \A w \in Worker : r[w] \notin Elems(t) /\ r[w] \notin Elems(q)

Out(j, u, t, r, q) ==
    \/ \E d \in Dispatcher : j \in u[d]
    \/ \E w \in Worker : r[w] = j
    \/ j \in Elems(t) \/ j \in Elems(q)

Outs(u, t, r, q) == {j \in Job : Out(j, u, t, r, q)}

(* A manager that agrees with the claims b and the jobs O that are out: the  *)
(* latter are in flight, what is queued or claimed is not dead, and no job   *)
(* is both completed and dead.                                               *)
Settled(m, b, O) ==
    /\ \A j \in O : m.status[j] = "in_flight"
    /\ \A j \in Elems(m.queue) : m.status[j] # "dead"
    /\ \A d \in Dispatcher : \A j \in Elems(b[d]) : m.status[j] # "dead"
    /\ m.completed \cap m.dead = {}

SubmitsOnce == \A d \in Dispatcher : disp[d].pc = "submit" => IsInjective(disp[d].batch)

Alone ==
    /\ SubmitsOnce
    /\ OnceOf(Unsent, taskCh, running, ResultJobs)
    /\ Settled(jm, Unmarked, Outs(Unsent, taskCh, running, ResultJobs))

Single == Quiet => Alone

Unsents == [Dispatcher -> SUBSET Job]
Runs    == [Worker -> Job \cup {NoJob}]

(* A batch comes out. *)
LEMMA AddOnce ==
    ASSUME NEW u \in Unsents, NEW t \in Seq(Job), NEW r \in Runs, NEW q \in Seq(Job),
           OnceOf(u, t, r, q), NEW v \in Unsents, NEW d \in Dispatcher,
           \A e \in Dispatcher \ {d} : v[e] = u[e],
           \A j \in v[d] : ~ Out(j, u, t, r, q)
    PROVE  /\ OnceOf(v, t, r, q)
           /\ \A j \in Job : Out(j, v, t, r, q) => Out(j, u, t, r, q) \/ j \in v[d]
  <1>1. \A e, f \in Dispatcher : e # f => v[e] \cap v[f] = {}
    BY DEF OnceOf, Out
  <1>2. \A e \in Dispatcher : /\ v[e] \cap Elems(t) = {} /\ v[e] \cap Elems(q) = {}
                            /\ \A w \in Worker : r[w] \notin v[e]
    BY DEF OnceOf, Out
  <1> QED BY <1>1, <1>2 DEF OnceOf, Out

(* A job is submitted. *)
LEMMA SubmitOnce ==
    ASSUME NEW u \in Unsents, NEW t \in Seq(Job), NEW r \in Runs, NEW q \in Seq(Job),
           OnceOf(u, t, r, q), NEW v \in Unsents, NEW d \in Dispatcher,
           \A e \in Dispatcher \ {d} : v[e] = u[e],
           NEW j \in u[d], v[d] \subseteq u[d] \ {j}
    PROVE  /\ OnceOf(v, Append(t, j), r, q)
           /\ \A k \in Job : Out(k, v, Append(t, j), r, q) => Out(k, u, t, r, q)
  <1> DEFINE s == Append(t, j)
  <1>0. j \in Job
    BY DEF Unsents
  <1>1. IsInjective(s) /\ Elems(s) = Elems(t) \cup {j}
    BY <1>0, InjectiveAppend, ElemsAppend DEF OnceOf
  <1> HIDE DEF s
  <1>2. \A e, f \in Dispatcher : e # f => v[e] \cap v[f] = {}
    BY DEF OnceOf
  <1>3. \A e \in Dispatcher : /\ v[e] \cap Elems(s) = {} /\ v[e] \cap Elems(q) = {}
                            /\ \A w \in Worker : r[w] \notin v[e]
    BY <1>1 DEF OnceOf
  <1>4. /\ Elems(s) \cap Elems(q) = {}
        /\ \A w \in Worker : r[w] \notin Elems(s) /\ r[w] \notin Elems(q)
    BY <1>1 DEF OnceOf
  <1>5. OnceOf(v, s, r, q)
    BY <1>1, <1>2, <1>3, <1>4 DEF OnceOf
  <1>6. \A k \in Job : Out(k, v, s, r, q) => Out(k, u, t, r, q)
    BY <1>1 DEF Out
  <1> QED BY <1>5, <1>6 DEF s

(* A worker takes a job, ... *)
LEMMA TakeOnce ==
    ASSUME NEW u \in Unsents, NEW t \in Seq(Job), NEW r \in Runs, NEW q \in Seq(Job),
           OnceOf(u, t, r, q), t # <<>>, NEW w \in Worker
    PROVE  LET s == [r EXCEPT ![w] = Head(t)]
           IN  /\ OnceOf(u, Tail(t), s, q)
               /\ \A k \in Job : Out(k, u, Tail(t), s, q) => Out(k, u, t, r, q)
  <1> DEFINE h == Head(t)
             z == Tail(t)
             s == [r EXCEPT ![w] = h]
  <1>1. /\ h \in Job /\ z \in Seq(Job) /\ IsInjective(z)
        /\ Elems(t) = Elems(z) \cup {h} /\ h \notin Elems(z)
    BY InjectiveTail DEF OnceOf
  <1>2. s[w] = h /\ \A x \in Worker \ {w} : s[x] = r[x]
    BY DEF Runs
  <1> HIDE DEF h, z, s
  <1>3. \A x, y \in Worker : s[x] = s[y] /\ s[x] # NoJob => x = y
    BY <1>1, <1>2 DEF OnceOf
  <1>4. \A d \in Dispatcher : /\ u[d] \cap Elems(z) = {} /\ u[d] \cap Elems(q) = {}
                            /\ \A x \in Worker : s[x] \notin u[d]
    BY <1>1, <1>2 DEF OnceOf
  <1>5. /\ Elems(z) \cap Elems(q) = {}
        /\ \A x \in Worker : s[x] \notin Elems(z) /\ s[x] \notin Elems(q)
    BY <1>1, <1>2 DEF OnceOf
  <1>6. OnceOf(u, z, s, q)
    BY <1>1, <1>3, <1>4, <1>5 DEF OnceOf
  <1>7. \A k \in Job : Out(k, u, z, s, q) => Out(k, u, t, r, q)
    BY <1>1, <1>2 DEF Out
  <1> QED BY <1>6, <1>7 DEF s, z, h

(* ... and reports it, or finds the channel full. *)
LEMMA FinishOnce ==
    ASSUME NEW u \in Unsents, NEW t \in Seq(Job), NEW r \in Runs, NEW q \in Seq(Job),
           OnceOf(u, t, r, q), NEW w \in Worker, r[w] # NoJob, NEW p,
           p = q \/ p = Append(q, r[w])
    PROVE  LET s == [r EXCEPT ![w] = NoJob]
           IN  /\ OnceOf(u, t, s, p)
               /\ \A k \in Job : Out(k, u, t, s, p) => Out(k, u, t, r, q)
  <1> DEFINE s == [r EXCEPT ![w] = NoJob]
  <1>0. r[w] \in Job /\ r[w] \notin Elems(q) /\ NoJob \notin Job
    BY ControllerAssumption DEF Runs, OnceOf
  <1>1. /\ p \in Seq(Job) /\ IsInjective(p)
        /\ Elems(p) = Elems(q) \/ Elems(p) = Elems(q) \cup {r[w]}
    <2>1. /\ Append(q, r[w]) \in Seq(Job) /\ IsInjective(Append(q, r[w]))
          /\ Elems(Append(q, r[w])) = Elems(q) \cup {r[w]}
      BY <1>0, InjectiveAppend, ElemsAppend DEF OnceOf
    <2>2. q \in Seq(Job) /\ IsInjective(q)
      BY DEF OnceOf
    <2> HIDE DEF OnceOf
    <2> QED BY <2>1, <2>2
  <1>2. s[w] = NoJob /\ \A x \in Worker \ {w} : s[x] = r[x]
    BY DEF Runs
  <1>a. /\ NoJob \notin Elems(t) /\ NoJob \notin Elems(p) /\ \A d \in Dispatcher : NoJob \notin u[d]
    BY <1>0, <1>1, ElemsOfJobs DEF Unsents
  <1> HIDE DEF s
  <1>3. \A x, y \in Worker : s[x] = s[y] /\ s[x] # NoJob => x = y
    BY <1>2 DEF OnceOf
  <1>4. \A d \in Dispatcher : /\ u[d] \cap Elems(t) = {} /\ u[d] \cap Elems(p) = {}
                            /\ \A x \in Worker : s[x] \notin u[d]
    BY <1>1, <1>2, <1>a DEF OnceOf
  <1>5. Elems(t) \cap Elems(p) = {}
    BY <1>1 DEF OnceOf
  <1>6. ASSUME NEW x \in Worker PROVE s[x] \notin Elems(t) /\ s[x] \notin Elems(p)
    <2>1. CASE x = w
      BY <1>2, <1>a, <2>1
    <2>2. CASE x # w
      <3>1. s[x] = r[x] /\ r[x] \notin Elems(t) /\ r[x] \notin Elems(q) /\ r[x] # r[w]
        BY <1>0, <1>2, <2>2 DEF OnceOf
      <3> QED BY <1>1, <3>1
    <2> QED BY <2>1, <2>2
  <1>7. OnceOf(u, t, s, p)
    BY <1>1, <1>3, <1>4, <1>5, <1>6 DEF OnceOf
  <1>8. \A k \in Job : Out(k, u, t, s, p) => Out(k, u, t, r, q)
    BY <1>0, <1>1, <1>2 DEF Out
  <1> QED BY <1>7, <1>8 DEF s

(* A result is handled, or lost. *)
LEMMA HandleOnce ==
    ASSUME NEW u \in Unsents, NEW t \in Seq(Job), NEW r \in Runs, NEW q \in Seq(Job),
           OnceOf(u, t, r, q), q # <<>>
    PROVE  /\ OnceOf(u, t, r, Tail(q))
           /\ \A k \in Job : Out(k, u, t, r, Tail(q)) => Out(k, u, t, r, q) /\ k # Head(q)
  <1> DEFINE h == Head(q)
             z == Tail(q)
  <1>1. /\ h \in Job /\ z \in Seq(Job) /\ IsInjective(z)
        /\ Elems(q) = Elems(z) \cup {h} /\ h \notin Elems(z)
    BY InjectiveTail DEF OnceOf
  <1> HIDE DEF h, z
  <1>2. OnceOf(u, t, r, z)
    BY <1>1 DEF OnceOf
  <1>3. \A k \in Job : Out(k, u, t, r, z) => Out(k, u, t, r, q) /\ k # h
    BY <1>1 DEF Out, OnceOf
  <1> QED BY <1>2, <1>3 DEF h, z

LEMMA OutTypes ==
    ASSUME TypeOK
    PROVE  Unsent \in Unsents /\ running \in Runs /\ ResultJobs \in Seq(Job) /\ taskCh \in Seq(Job)
  <1>1. \A d \in Dispatcher : disp[d].batch \in Seq(Job)
    BY DEF TypeOK, DispState
  <1>2. Unsent \in Unsents
    BY <1>1 DEF Unsent, Held, Unsents
  <1>3. Len(resultCh) \in Nat /\ \A i \in 1 .. Len(resultCh) : resultCh[i].job \in Job
    <2>1. resultCh \in Seq(Result)
      BY DEF TypeOK
    <2>2. \A i \in 1 .. Len(resultCh) : resultCh[i] \in Result
      BY <2>1
    <2> QED BY <2>1, <2>2 DEF Result
  <1>4. ResultJobs \in Seq(Job)
    <2>1. DOMAIN resultCh = 1 .. Len(resultCh)
      BY DEF TypeOK
    <2>2. ResultJobs \in [1 .. Len(resultCh) -> Job]
      BY <1>3, <2>1 DEF ResultJobs
    <2> QED BY <1>3, <2>2
  <1> QED BY <1>2, <1>4 DEF TypeOK, Runs

(* The jobs of the results, as results come and go. *)
LEMMA ResultComes ==
    ASSUME TypeOK, NEW r \in Result, resultCh' = Append(resultCh, r)
    PROVE  ResultJobs' = Append(ResultJobs, r.job)
  <1>1. /\ resultCh' \in Seq(Result) /\ Len(resultCh') = Len(resultCh) + 1 /\ Len(resultCh) \in Nat
        /\ \A i \in 1 .. Len(resultCh) : resultCh'[i] = resultCh[i]
        /\ resultCh'[Len(resultCh) + 1] = r
    BY DEF TypeOK
  <1>2. /\ ResultJobs \in Seq(Job) /\ Len(ResultJobs) = Len(resultCh)
        /\ \A i \in 1 .. Len(resultCh) : ResultJobs[i] = resultCh[i].job
    BY OutTypes DEF ResultJobs, TypeOK
  <1> DEFINE a == Append(ResultJobs, r.job)
  <1>3. /\ a = [i \in 1 .. Len(resultCh) + 1 |-> a[i]]
        /\ \A i \in 1 .. Len(resultCh) : a[i] = resultCh[i].job
        /\ a[Len(resultCh) + 1] = r.job
    BY <1>2 DEF Result
  <1>4. /\ ResultJobs' = [i \in 1 .. Len(resultCh) + 1 |-> resultCh'[i].job]
    BY <1>1 DEF ResultJobs
  <1> HIDE DEF a
  <1>5. \A i \in 1 .. Len(resultCh) + 1 : i \in 1 .. Len(resultCh) \/ i = Len(resultCh) + 1
    BY <1>1
  <1>6. \A i \in 1 .. Len(resultCh) + 1 : a[i] = resultCh'[i].job
    BY <1>1, <1>3, <1>5
  <1>7. ResultJobs' = a
    BY <1>3, <1>4, <1>6
  <1> QED BY <1>7 DEF a

LEMMA ResultGoes ==
    ASSUME TypeOK, resultCh # <<>>, resultCh' = Tail(resultCh)
    PROVE  ResultJobs # <<>> /\ Head(ResultJobs) = Head(resultCh).job /\ ResultJobs' = Tail(ResultJobs)
  <1>1. /\ resultCh \in Seq(Result) /\ Len(resultCh) \in Nat \ {0}
        /\ resultCh' \in Seq(Result) /\ Len(resultCh') = Len(resultCh) - 1
        /\ \A i \in 1 .. Len(resultCh) - 1 : resultCh'[i] = resultCh[i + 1]
        /\ Head(resultCh) = resultCh[1]
    BY DEF TypeOK
  <1>2. /\ ResultJobs \in Seq(Job) /\ Len(ResultJobs) = Len(resultCh)
        /\ \A i \in 1 .. Len(resultCh) : ResultJobs[i] = resultCh[i].job
    BY OutTypes DEF ResultJobs, TypeOK
  <1> HIDE DEF ResultJobs
  <1> DEFINE a == Tail(ResultJobs)
  <1>3. /\ a = [i \in 1 .. Len(resultCh) - 1 |-> a[i]]
        /\ \A i \in 1 .. Len(resultCh) - 1 : a[i] = ResultJobs[i + 1]
    <2>1. ResultJobs # <<>>
      BY <1>1, <1>2
    <2>2. /\ a \in Seq(Job) /\ Len(a) = Len(ResultJobs) - 1
          /\ \A i \in 1 .. Len(a) : a[i] = ResultJobs[i + 1]
      BY <1>2, <2>1, HeadTailProperties
    <2> HIDE DEF a
    <2> QED BY <1>2, <2>2
  <1>4. ResultJobs' = [i \in 1 .. Len(resultCh) - 1 |-> resultCh'[i].job]
    BY <1>1 DEF ResultJobs
  <1> HIDE DEF a
  <1>5. \A i \in 1 .. Len(resultCh) - 1 : i + 1 \in 1 .. Len(resultCh)
    BY <1>1
  <1>6. \A i \in 1 .. Len(resultCh) - 1 : a[i] = resultCh'[i].job
    BY <1>1, <1>2, <1>3, <1>5
  <1>7. ResultJobs' = a
    BY <1>3, <1>4, <1>6
  <1>8. ResultJobs # <<>> /\ Head(ResultJobs) = ResultJobs[1] /\ 1 \in 1 .. Len(resultCh)
    BY <1>1, <1>2
  <1> QED BY <1>1, <1>2, <1>7, <1>8 DEF a

(* How the methods of the manager keep it settled. *)
LEMMA SettledEnqueue ==
    ASSUME NEW m, NEW S, Sound(m, S), NEW b \in [Dispatcher -> Seq(Job)], NEW O \in SUBSET Job,
           Settled(m, b, O), NEW q \in Seq(Job), \A j \in Elems(q) : ~ Known(m, j)
    PROVE  Settled(Enqueue(m, q), b, O)
  <1> DEFINE n == Enqueue(m, q)
  <1>1. /\ m \in Manager /\ m.queue \in Seq(Job) /\ Elems(q) \subseteq Job
        /\ \A d \in Dispatcher : Elems(b[d]) \subseteq Job
    BY ElemsOfJobs DEF Sound, Manager
  <1>2. /\ n.queue = m.queue \o q /\ n.completed = m.completed /\ n.dead = m.dead
        /\ \A k \in Job : n.status[k] = IF k \in Elems(q) THEN "pending" ELSE m.status[k]
    BY <1>1, EnqueueFields
  <1> HIDE DEF n
  <1>3. Elems(n.queue) = Elems(m.queue) \cup Elems(q) /\ Elems(m.queue) \subseteq Job
    BY <1>1, <1>2, ElemsConcat, ElemsOfJobs
  <1>4. \A k \in Job : m.status[k] # "dead" => n.status[k] # "dead"
    BY <1>2
  <1>5. \A k \in O : n.status[k] = "in_flight"
    BY <1>2 DEF Settled, Known
  <1>6. \A k \in Elems(n.queue) : n.status[k] # "dead"
    BY <1>1, <1>2, <1>3, <1>4 DEF Settled
  <1>7. Settled(n, b, O)
    BY <1>1, <1>2, <1>4, <1>5, <1>6 DEF Settled
  <1> QED BY <1>7 DEF n

LEMMA SettledPop ==
    ASSUME NEW m \in Manager, NEW b \in [Dispatcher -> Seq(Job)], NEW O, Settled(m, b, O),
           NEW d \in Dispatcher, NEW k \in 0 .. Len(m.queue)
    PROVE  Settled(PopPending(m, k), [b EXCEPT ![d] = Popped(m, k)], O)
  <1> DEFINE p == Popped(m, k)
             n == PopPending(m, k)
             c == [b EXCEPT ![d] = p]
  <1>1. /\ n.queue = SubSeq(m.queue, k + 1, Len(m.queue)) /\ n.status = m.status
        /\ n.completed = m.completed /\ n.dead = m.dead
        /\ m.queue \in Seq(Job) /\ p = SubSeq(m.queue, 1, k)
    BY PopFields DEF Popped, Manager
  <1>2. Elems(m.queue) = Elems(p) \cup Elems(n.queue)
    BY <1>1, ElemsSplit
  <1>3. c[d] = p /\ \A e \in Dispatcher \ {d} : c[e] = b[e]
    OBVIOUS
  <1> HIDE DEF p, n, c
  <1>4. Settled(n, c, O)
    BY <1>1, <1>2, <1>3 DEF Settled
  <1> QED BY <1>4 DEF n, c, p

LEMMA SettledMark ==
    ASSUME NEW m \in Manager, NEW b \in [Dispatcher -> Seq(Job)], NEW O \in SUBSET Job,
           ClaimsOf(m, b), Settled(m, b, O), NEW d \in Dispatcher
    PROVE  /\ Settled(MarkInFlight(m, Elems(b[d])), [b EXCEPT ![d] = <<>>], O \cup Elems(b[d]))
           /\ O \cap Elems(b[d]) = {}
  <1> DEFINE T == Elems(b[d])
             n == MarkInFlight(m, T)
             c == [b EXCEPT ![d] = <<>>]
  <1>0. T \in SUBSET Job /\ m.queue \in Seq(Job)
    BY ElemsOfJobs DEF Manager
  <1>1. \A j \in T : m.status[j] = "pending"
    BY DEF ClaimsOf, Settled
  <1>2. /\ n.queue = m.queue /\ n.completed = m.completed /\ n.dead = m.dead
        /\ \A k \in Job : n.status[k] = IF k \in T THEN "in_flight" ELSE m.status[k]
    BY <1>0, <1>1, MarkInFlightFields
  <1>3. c[d] = <<>> /\ \A e \in Dispatcher \ {d} : c[e] = b[e]
    OBVIOUS
  <1> HIDE DEF n, c, T
  <1>4. \A k \in Job : m.status[k] # "dead" => n.status[k] # "dead"
    BY <1>2
  <1>5. \A k \in O \cup T : n.status[k] = "in_flight"
    BY <1>0, <1>2 DEF Settled
  <1>6. Elems(m.queue) \subseteq Job /\ \A e \in Dispatcher : Elems(b[e]) \subseteq Job
    BY <1>0, ElemsOfJobs
  <1>7. \A e \in Dispatcher : \A j \in Elems(c[e]) : n.status[j] # "dead"
    BY <1>3, <1>4, <1>6, NothingTwice DEF Settled
  <1>8. Settled(n, c, O \cup T)
    BY <1>2, <1>4, <1>5, <1>6, <1>7 DEF Settled
  <1>9. O \cap T = {}
    BY <1>1 DEF Settled
  <1> QED BY <1>8, <1>9 DEF n, c, T

LEMMA SettledPoll ==
    ASSUME NEW m \in Manager, NEW b \in [Dispatcher -> Seq(Job)], NEW O \in SUBSET Job,
           ClaimsOf(m, b), Settled(m, b, O),
           NEW d \in Dispatcher, b[d] = <<>>, NEW k \in 0 .. Len(m.queue)
    PROVE  LET q == Popped(m, k)
           IN  /\ Settled(MarkInFlight(PopPending(m, k), Elems(q)), b, O \cup Elems(q))
               /\ O \cap Elems(q) = {} /\ IsInjective(q) /\ q \in Seq(Job)
  <1> DEFINE q == Popped(m, k)
             n == PopPending(m, k)
             c == [b EXCEPT ![d] = q]
  <1>1. q \in Seq(Job) /\ n \in Manager
    BY PopFields, ElemsSplit DEF Popped, Manager
  <1>2. ClaimsOf(n, c) /\ Settled(n, c, O)
    BY PopClaims, SettledPop
  <1>3. c \in [Dispatcher -> Seq(Job)] /\ c[d] = q /\ [c EXCEPT ![d] = <<>>] = b
    BY <1>1
  <1> HIDE DEF q, n, c
  <1>4. /\ Settled(MarkInFlight(n, Elems(c[d])), [c EXCEPT ![d] = <<>>], O \cup Elems(c[d]))
        /\ O \cap Elems(c[d]) = {}
    BY <1>1, <1>2, <1>3, SettledMark
  <1>5. Settled(MarkInFlight(n, Elems(q)), b, O \cup Elems(q)) /\ O \cap Elems(q) = {}
    BY <1>3, <1>4
  <1>6. IsInjective(q)
    BY <1>2, <1>3 DEF ClaimsOf
  <1> QED BY <1>1, <1>5, <1>6 DEF q, n

(* A job in flight that leaves the pool ends, or waits again. *)
LEMMA SettledFailed ==
    ASSUME NEW m, NEW S, Sound(m, S), NEW b \in [Dispatcher -> Seq(Job)], NEW O \in SUBSET Job,
           ClaimsOf(m, b), Settled(m, b, O), NEW j \in Job, m.status[j] = "in_flight",
           NEW P \in SUBSET O, j \notin P
    PROVE  Settled(Failed(m, j), b, P)
  <1> DEFINE n == Failed(m, j)
  <1>0. m \in Manager /\ m.queue \in Seq(Job) /\ Elems(m.queue) \subseteq Job
        /\ \A d \in Dispatcher : Elems(b[d]) \subseteq Job
    BY ElemsOfJobs DEF Sound, Manager
  <1>1. j \notin m.completed /\ j \notin m.dead
    BY DEF Sound, IndexesAgree, WithStatus, Terminal
  <1>2. /\ \A k \in Job \ {j} : n.status[k] = m.status[k]
        /\ n.completed = m.completed
        /\ \/ n.queue = m.queue /\ n.dead = m.dead \cup {j}
           \/ n.queue = m.queue /\ n.dead = m.dead
           \/ n.queue = Append(m.queue, j) /\ n.status[j] = "pending" /\ n.dead = m.dead
    BY <1>0, BumpedFailed
  <1> HIDE DEF n
  <1>3. j \notin Elems(m.queue) /\ \A d \in Dispatcher : j \notin Elems(b[d])
    BY DEF ClaimsOf
  <1>4. \A k \in P : n.status[k] = "in_flight"
    BY <1>2 DEF Settled
  <1>5. \A d \in Dispatcher : \A k \in Elems(b[d]) : n.status[k] # "dead"
    BY <1>0, <1>2, <1>3 DEF Settled
  <1>6. \A k \in Elems(m.queue) : n.status[k] # "dead"
    BY <1>0, <1>2, <1>3 DEF Settled
  <1>7. \A k \in Elems(n.queue) : n.status[k] # "dead"
    <2>1. CASE n.queue = m.queue
      BY <1>6, <2>1
    <2>2. CASE n.queue = Append(m.queue, j) /\ n.status[j] = "pending"
      <3>1. Elems(n.queue) = Elems(m.queue) \cup {j}
        BY <1>0, <2>2, ElemsAppend
      <3> QED BY <1>6, <2>2, <3>1
    <2> QED BY <1>2, <2>1, <2>2
  <1>8. n.completed \cap n.dead = {}
    BY <1>1, <1>2 DEF Settled
  <1>9. Settled(n, b, P)
    BY <1>4, <1>5, <1>7, <1>8 DEF Settled
  <1> QED BY <1>9 DEF n

LEMMA SettledCompleted ==
    ASSUME NEW m, NEW S, Sound(m, S), NEW b \in [Dispatcher -> Seq(Job)], NEW O \in SUBSET Job,
           Settled(m, b, O), NEW j \in Job, m.status[j] = "in_flight",
           NEW P \in SUBSET O, j \notin P
    PROVE  Settled(MarkCompleted(m, j), b, P)
  <1> DEFINE n == MarkCompleted(m, j)
  <1>0. m \in Manager /\ m.queue \in Seq(Job) /\ Elems(m.queue) \subseteq Job
        /\ \A d \in Dispatcher : Elems(b[d]) \subseteq Job
    BY ElemsOfJobs DEF Sound, Manager
  <1>1. j \notin m.dead
    BY DEF Sound, IndexesAgree, WithStatus
  <1>2. /\ n.queue = m.queue /\ n.completed = m.completed \cup {j} /\ n.dead = m.dead
        /\ \A k \in Job : n.status[k] = IF k = j THEN "completed" ELSE m.status[k]
    BY <1>0, MarkCompletedFields
  <1> HIDE DEF n
  <1>3. \A k \in Job : m.status[k] # "dead" => n.status[k] # "dead"
    BY <1>2
  <1>4. \A k \in P : n.status[k] = "in_flight"
    BY <1>2 DEF Settled
  <1>5. Settled(n, b, P)
    BY <1>0, <1>1, <1>2, <1>3, <1>4 DEF Settled
  <1> QED BY <1>5 DEF n

LEMMA HeldCases ==
    ASSUME NEW s
    PROVE  (s.pc # "submit" => Held(s) = {}) /\ Held(s) \subseteq Elems(s.batch)
  BY DEF Held, Elems

(* The steps of a dispatcher, as they show in what it has to submit. *)
LEMMA UnsentSteps ==
    ASSUME IInv, NEW d \in Dispatcher
    PROVE  /\ PopBatch(d) \/ LogDispatch(d) => Unsent' = Unsent
           /\ MarkBatch(d) =>
                /\ \A e \in Dispatcher \ {d} : disp'[e] = disp[e] /\ Unsent'[e] = Unsent[e]
                /\ disp'[d].batch = disp[d].batch /\ Unsent'[d] \subseteq Elems(disp[d].batch)
           /\ Poll(d) => LET q == Popped(jm, NextBatch)
                         IN /\ \A e \in Dispatcher \ {d} :
                                  disp'[e] = disp[e] /\ Unsent'[e] = Unsent[e]
                            /\ disp'[d] = disp[d] \/ disp'[d].batch = q
                            /\ Unsent'[d] \subseteq Elems(q)
           /\ SubmitTask(d) /\ IsInjective(disp[d].batch) =>
                LET j == disp[d].batch[disp[d].n]
                IN /\ \A e \in Dispatcher \ {d} : disp'[e] = disp[e] /\ Unsent'[e] = Unsent[e]
                   /\ disp'[d] = IdleDispatcher \/ disp'[d].batch = disp[d].batch
                   /\ j \in Unsent[d] /\ Unsent'[d] \subseteq Unsent[d] \ {j}
  <1>0. /\ disp \in [Dispatcher -> DispState] /\ InBatch
        /\ Unsent = [e \in Dispatcher |-> Held(disp[e])]
        /\ Unsent' = [e \in Dispatcher |-> Held(disp'[e])]
    BY DEF IInv, TypeOK, Unsent, Held
  <1>a. \A e \in Dispatcher : Unsent[e] = Held(disp[e]) /\ Unsent'[e] = Held(disp'[e])
    BY <1>0
  <1>b. \A e \in Dispatcher : disp'[e] = disp[e] => Unsent'[e] = Unsent[e]
    BY <1>a
  <1>1. ASSUME PopBatch(d) \/ LogDispatch(d) PROVE Unsent' = Unsent
    <2>1. /\ \A e \in Dispatcher \ {d} : disp'[e] = disp[e]
          /\ disp[d].pc # "submit" /\ disp'[d].pc # "submit"
      <3>1. CASE PopBatch(d)
        <4> DEFINE s == [pc |-> "log", batch |-> Popped(jm, NextBatch), n |-> 1]
        <4>1. disp[d].pc = "pop" /\ disp' = [disp EXCEPT ![d] = s] /\ s.pc = "log"
          BY <3>1 DEF PopBatch
        <4> HIDE DEF s
        <4> QED BY <1>0, <4>1
      <3>2. CASE LogDispatch(d)
        <4>1. disp[d].pc = "log" /\ Advance(d, "mark")
          BY <3>2 DEF LogDispatch
        <4> QED BY <1>0, <4>1, AdvanceCases
      <3> QED BY <1>1, <3>1, <3>2
    <2>2. Held(disp[d]) = {} /\ Held(disp'[d]) = {}
      BY <2>1, HeldCases
    <2> QED BY <1>0, <2>1, <2>2
  <1>2. ASSUME MarkBatch(d)
        PROVE  /\ \A e \in Dispatcher \ {d} : disp'[e] = disp[e] /\ Unsent'[e] = Unsent[e]
               /\ disp'[d].batch = disp[d].batch /\ Unsent'[d] \subseteq Elems(disp[d].batch)
    <2> DEFINE s == [disp[d] EXCEPT !.pc = "submit"]
    <2>1. disp' = [disp EXCEPT ![d] = s] /\ s.batch = disp[d].batch
      BY <1>0, <1>2 DEF MarkBatch, DispState
    <2> HIDE DEF s
    <2>2. disp'[d] = s /\ \A e \in Dispatcher \ {d} : disp'[e] = disp[e]
      BY <1>0, <2>1
    <2> QED BY <1>a, <1>b, <2>1, <2>2, HeldCases
  <1>3. ASSUME Poll(d)
        PROVE  LET q == Popped(jm, NextBatch)
               IN /\ \A e \in Dispatcher \ {d} : disp'[e] = disp[e] /\ Unsent'[e] = Unsent[e]
                  /\ disp'[d] = disp[d] \/ disp'[d].batch = q
                  /\ Unsent'[d] \subseteq Elems(q)
    <2> DEFINE q == Popped(jm, NextBatch)
               s == [pc |-> "submit", batch |-> q, n |-> 1]
    <2>1. disp[d].pc = "pop" /\ (UNCHANGED disp \/ disp' = [disp EXCEPT ![d] = s])
      BY <1>3 DEF Poll, PollReply
    <2>2. s.batch = q
      OBVIOUS
    <2> HIDE DEF s, q
    <2>3. /\ \A e \in Dispatcher \ {d} : disp'[e] = disp[e]
          /\ disp'[d] = disp[d] \/ disp'[d] = s
      BY <1>0, <2>1
    <2>4. Held(disp[d]) = {} /\ Held(s) \subseteq Elems(q)
      BY <2>1, <2>2, HeldCases
    <2> QED BY <1>a, <1>b, <2>2, <2>3, <2>4 DEF q
  <1>4. ASSUME SubmitTask(d), IsInjective(disp[d].batch)
        PROVE  LET j == disp[d].batch[disp[d].n]
               IN /\ \A e \in Dispatcher \ {d} : disp'[e] = disp[e] /\ Unsent'[e] = Unsent[e]
                  /\ disp'[d] = IdleDispatcher \/ disp'[d].batch = disp[d].batch
                  /\ j \in Unsent[d] /\ Unsent'[d] \subseteq Unsent[d] \ {j}
    <2> DEFINE s == disp[d]
               t == disp'[d]
    <2>1. s.pc = "submit" /\ Advance(d, "pop")
      BY <1>4 DEF SubmitTask
    <2>2. /\ \A e \in Dispatcher \ {d} : disp'[e] = disp[e]
          /\ s.n \in 1 .. Len(s.batch) /\ s.batch \in Seq(Job)
          /\ \/ t.n = s.n + 1 /\ t.pc = "submit" /\ t.batch = s.batch
             \/ t = IdleDispatcher
      BY <1>0, <2>1, AdvanceCases
    <2>3. IsInjective(s.batch) /\ Unsent[d] = Held(s) /\ Unsent'[d] = Held(t)
      BY <1>4, <1>a
    <2> HIDE DEF s, t
    <2>4. s.batch[s.n] \in Held(s)
      BY <2>1, <2>2 DEF Held, s
    <2>5. CASE t = IdleDispatcher
      <3>1. Held(t) = {}
        BY <2>5, HeldCases DEF IdleDispatcher
      <3> QED BY <1>a, <1>b, <2>2, <2>3, <2>4, <2>5, <3>1 DEF s, t
    <2>6. CASE t.n = s.n + 1 /\ t.pc = "submit" /\ t.batch = s.batch
      <3>1. ASSUME NEW x \in Held(t) PROVE x \in Held(s) /\ x # s.batch[s.n]
        <4>1. PICK i \in DOMAIN s.batch : i >= s.n + 1 /\ x = s.batch[i]
          BY <2>6 DEF Held
        <4>2. i # s.n /\ i >= s.n /\ s.n \in DOMAIN s.batch
          BY <2>2, <4>1
        <4> QED BY <2>1, <2>3, <4>1, <4>2 DEF Held, IsInjective, s
      <3> QED BY <1>a, <1>b, <2>2, <2>3, <2>4, <2>6, <3>1 DEF s, t
    <2> QED BY <2>2, <2>5, <2>6
  <1> QED BY <1>1, <1>2, <1>3, <1>4

LEMMA SettledLess ==
    ASSUME NEW m, NEW b, NEW O, NEW P, Settled(m, b, O), P \subseteq O PROVE Settled(m, b, P)
  BY DEF Settled

(* The steps of a dispatcher: a batch comes out, or a job of it goes to the  *)
(* pool.                                                                     *)
LEMMA DispatcherAlone ==
    ASSUME IInv, ClaimsOf(jm, Unmarked), Alone, NEW d \in Dispatcher,
           PopBatch(d) \/ LogDispatch(d) \/ MarkBatch(d) \/ SubmitTask(d) \/ Poll(d)
    PROVE  /\ \A e \in Dispatcher : disp'[e].pc = "submit" => IsInjective(disp'[e].batch)
           /\ OnceOf(Unsent', taskCh', running', ResultJobs')
           /\ Settled(jm', Unmarked', Outs(Unsent', taskCh', running', ResultJobs'))
  <1> DEFINE O == Outs(Unsent, taskCh, running, ResultJobs)
             P == Outs(Unsent', taskCh', running', ResultJobs')
  <1>0. /\ TypeOK /\ InBatch /\ jm \in Manager /\ disp \in [Dispatcher -> DispState]
        /\ Unmarked \in [Dispatcher -> Seq(Job)]
        /\ Unsent \in Unsents /\ running \in Runs /\ ResultJobs \in Seq(Job) /\ taskCh \in Seq(Job)
    BY OutTypes, UnmarkedType DEF IInv, TypeOK
  <1>1. /\ \A e \in Dispatcher : disp[e].pc = "submit" => IsInjective(disp[e].batch)
        /\ OnceOf(Unsent, taskCh, running, ResultJobs)
        /\ Settled(jm, Unmarked, O) /\ O \in SUBSET Job
    BY DEF Alone, SubmitsOnce, Outs
  <1>t. Unsent' \in Unsents
    <2>0. \E e \in Dispatcher : \/ PopBatch(e) \/ LogDispatch(e) \/ MarkBatch(e)
                                \/ SubmitTask(e) \/ Poll(e)
      OBVIOUS
    <2>1. Next
      BY <2>0 DEF Next
    <2>2. TypeOK'
      BY <1>0, <2>1, StepInv DEF IInv
    <2>3. \A e \in Dispatcher : disp'[e].batch \in Seq(Job)
      BY <2>2 DEF TypeOK, DispState
    <2> QED BY <2>3 DEF Unsent, Held, Unsents
  <1> HIDE DEF O, P
  <1>2. CASE PopBatch(d)
    <2>1. /\ NextBatch \in 0 .. Len(jm.queue) /\ jm' = PopPending(jm, NextBatch)
          /\ UNCHANGED <<taskCh, running, resultCh>>
      BY <1>0, <1>2, NextBatchType DEF PopBatch, pool
    <2>2. Unsent' = Unsent /\ Unmarked' = [Unmarked EXCEPT ![d] = Popped(jm, NextBatch)]
      BY <1>2, UnsentSteps, UnmarkedSteps
    <2>3. ResultJobs' = ResultJobs /\ P = O
      BY <2>1, <2>2 DEF ResultJobs, O, P
    <2>4. Settled(jm', Unmarked', P)
      BY <1>0, <1>1, <2>1, <2>2, <2>3, SettledPop
    <2>5. \A e \in Dispatcher : disp'[e].pc = "submit" => disp'[e] = disp[e]
      <3> DEFINE s == [pc |-> "log", batch |-> Popped(jm, NextBatch), n |-> 1]
      <3>1. disp' = [disp EXCEPT ![d] = s] /\ s.pc = "log"
        BY <1>2 DEF PopBatch
      <3> HIDE DEF s
      <3> QED BY <1>0, <3>1
    <2> QED BY <1>1, <2>1, <2>2, <2>3, <2>4, <2>5 DEF P
  <1>3. CASE LogDispatch(d)
    <2>1. UNCHANGED <<jm, taskCh, running, resultCh>> /\ disp[d].pc = "log" /\ Advance(d, "mark")
      BY <1>3 DEF LogDispatch, pool, memory
    <2>2. Unsent' = Unsent /\ Unmarked' = Unmarked
      BY <1>3, UnsentSteps, UnmarkedSteps
    <2>3. ResultJobs' = ResultJobs /\ P = O
      BY <2>1, <2>2 DEF ResultJobs, O, P
    <2>4. \A e \in Dispatcher : disp'[e].pc = "submit" => disp'[e] = disp[e]
      BY <1>0, <2>1, AdvanceCases
    <2> QED BY <1>1, <2>1, <2>2, <2>3, <2>4 DEF P
  <1>4. CASE MarkBatch(d)
    <2> DEFINE b == disp[d].batch
    <2>1. /\ jm' = MarkInFlight(jm, Elems(b)) /\ Unmarked[d] = b
          /\ Unmarked' = [Unmarked EXCEPT ![d] = <<>>]
          /\ UNCHANGED <<taskCh, running, resultCh>>
      BY <1>4, UnmarkedSteps DEF MarkBatch, pool
    <2>2. /\ \A e \in Dispatcher \ {d} : disp'[e] = disp[e] /\ Unsent'[e] = Unsent[e]
          /\ disp'[d].batch = b /\ Unsent'[d] \subseteq Elems(b)
      BY <1>4, UnsentSteps
    <2> HIDE DEF b
    <2>3. /\ Settled(jm', Unmarked', O \cup Elems(b)) /\ O \cap Elems(b) = {}
      BY <1>0, <1>1, <2>1, SettledMark
    <2>4. IsInjective(b)
      BY <2>1 DEF ClaimsOf
    <2>5. \A j \in Unsent'[d] : ~ Out(j, Unsent, taskCh, running, ResultJobs)
      BY <1>t, <2>2, <2>3 DEF O, Outs, Unsents
    <2>6. /\ OnceOf(Unsent', taskCh, running, ResultJobs)
          /\ \A j \in Job : Out(j, Unsent', taskCh, running, ResultJobs) =>
                Out(j, Unsent, taskCh, running, ResultJobs) \/ j \in Unsent'[d]
      BY <1>0, <1>1, <1>t, <2>2, <2>5, AddOnce
    <2>7. ResultJobs' = ResultJobs /\ taskCh' = taskCh /\ running' = running
      BY <2>1 DEF ResultJobs
    <2>8. P \subseteq O \cup Elems(b)
      BY <2>2, <2>6, <2>7 DEF P, O, Outs
    <2>9. Settled(jm', Unmarked', P)
      BY <2>3, <2>8, SettledLess
    <2> QED BY <1>1, <2>2, <2>4, <2>6, <2>7, <2>9 DEF P
  <1>5. CASE SubmitTask(d)
    <2> DEFINE j == disp[d].batch[disp[d].n]
    <2>1. /\ disp[d].pc = "submit" /\ taskCh' = Append(taskCh, j)
          /\ UNCHANGED <<jm, running, resultCh>>
      BY <1>5 DEF SubmitTask, memory
    <2>2. /\ \A e \in Dispatcher \ {d} : disp'[e] = disp[e] /\ Unsent'[e] = Unsent[e]
          /\ disp'[d] = IdleDispatcher \/ disp'[d].batch = disp[d].batch
          /\ j \in Unsent[d] /\ Unsent'[d] \subseteq Unsent[d] \ {j}
      BY <1>1, <1>5, <2>1, UnsentSteps
    <2> HIDE DEF j
    <2>3. /\ OnceOf(Unsent', taskCh', running, ResultJobs)
          /\ \A k \in Job : Out(k, Unsent', taskCh', running, ResultJobs) =>
                Out(k, Unsent, taskCh, running, ResultJobs)
      BY <1>0, <1>1, <1>t, <2>1, <2>2, SubmitOnce
    <2>4. ResultJobs' = ResultJobs /\ running' = running /\ Unmarked' = Unmarked
      BY <1>5, <2>1, UnmarkedSteps DEF ResultJobs
    <2>5. Settled(jm', Unmarked', P)
      <3>1. P \subseteq O
        BY <2>3, <2>4 DEF P, O, Outs
      <3> QED BY <1>1, <2>1, <2>4, <3>1, SettledLess
    <2>6. \A e \in Dispatcher : disp'[e].pc = "submit" => IsInjective(disp'[e].batch)
      BY <1>1, <2>1, <2>2 DEF IdleDispatcher
    <2> QED BY <2>3, <2>4, <2>5, <2>6 DEF P
  <1>6. CASE Poll(d)
    <2> DEFINE b == Popped(jm, NextBatch)
    <2>1. /\ NextBatch \in 0 .. Len(jm.queue)
          /\ jm' = MarkInFlight(PopPending(jm, NextBatch), Elems(b))
          /\ Unmarked[d] = <<>> /\ Unmarked' = Unmarked
          /\ UNCHANGED <<taskCh, running, resultCh>>
      BY <1>0, <1>6, NextBatchType, UnmarkedSteps DEF Poll, pool
    <2>2. /\ \A e \in Dispatcher \ {d} : disp'[e] = disp[e] /\ Unsent'[e] = Unsent[e]
          /\ disp'[d] = disp[d] \/ disp'[d].batch = b
          /\ Unsent'[d] \subseteq Elems(b)
      BY <1>6, UnsentSteps
    <2>3. /\ Settled(jm', Unmarked', O \cup Elems(b)) /\ O \cap Elems(b) = {}
          /\ IsInjective(b)
      BY <1>0, <1>1, <2>1, SettledPoll
    <2> HIDE DEF b
    <2>5. \A j \in Unsent'[d] : ~ Out(j, Unsent, taskCh, running, ResultJobs)
      BY <1>t, <2>2, <2>3 DEF O, Outs, Unsents
    <2>6. /\ OnceOf(Unsent', taskCh, running, ResultJobs)
          /\ \A j \in Job : Out(j, Unsent', taskCh, running, ResultJobs) =>
                Out(j, Unsent, taskCh, running, ResultJobs) \/ j \in Unsent'[d]
      BY <1>0, <1>1, <1>t, <2>2, <2>5, AddOnce
    <2>7. ResultJobs' = ResultJobs /\ taskCh' = taskCh /\ running' = running
      BY <2>1 DEF ResultJobs
    <2>8. P \subseteq O \cup Elems(b)
      BY <2>2, <2>6, <2>7 DEF P, O, Outs
    <2>9. Settled(jm', Unmarked', P)
      BY <2>3, <2>8, SettledLess
    <2> QED BY <1>1, <2>2, <2>3, <2>6, <2>7, <2>9 DEF P
  <1> QED BY <1>2, <1>3, <1>4, <1>5, <1>6 DEF P

(* The steps of the pool, and the handling of a result. *)
LEMMA PoolAlone ==
    ASSUME IInv, ClaimsOf(jm, Unmarked), Alone,
           (\E w \in Worker : WorkerTake(w) \/ WorkerFinish(w)) \/ HandleResult \/ AckLost
    PROVE  /\ OnceOf(Unsent', taskCh', running', ResultJobs')
           /\ Settled(jm', Unmarked', Outs(Unsent', taskCh', running', ResultJobs'))
  <1> DEFINE O == Outs(Unsent, taskCh, running, ResultJobs)
             P == Outs(Unsent', taskCh', running', ResultJobs')
  <1>0. /\ TypeOK /\ jm \in Manager /\ Sound(jm, Claimed)
        /\ Unmarked \in [Dispatcher -> Seq(Job)]
        /\ Unsent \in Unsents /\ running \in Runs /\ ResultJobs \in Seq(Job) /\ taskCh \in Seq(Job)
    BY OutTypes, UnmarkedType DEF IInv, TypeOK
  <1>1. /\ OnceOf(Unsent, taskCh, running, ResultJobs)
        /\ Settled(jm, Unmarked, O) /\ O \in SUBSET Job
    BY DEF Alone, Outs
  <1>2. UNCHANGED disp
    BY DEF WorkerTake, WorkerFinish, HandleResult, AckLost
  <1>3. Unsent' = Unsent /\ Unmarked' = Unmarked
    BY <1>2 DEF Unsent, Held, Unmarked
  <1> HIDE DEF O, P
  <1>4. ASSUME NEW w \in Worker, WorkerTake(w)
        PROVE  OnceOf(Unsent', taskCh', running', ResultJobs') /\ Settled(jm', Unmarked', P)
    <2>1. /\ taskCh # <<>> /\ running' = [running EXCEPT ![w] = Head(taskCh)]
          /\ taskCh' = Tail(taskCh) /\ UNCHANGED <<jm, resultCh>>
      BY <1>4 DEF WorkerTake, memory
    <2>2. ResultJobs' = ResultJobs
      BY <2>1 DEF ResultJobs
    <2>3. /\ OnceOf(Unsent, taskCh', running', ResultJobs)
          /\ \A k \in Job : Out(k, Unsent, taskCh', running', ResultJobs) =>
                Out(k, Unsent, taskCh, running, ResultJobs)
      BY <1>0, <1>1, <2>1, TakeOnce
    <2>4. P \subseteq O
      BY <1>3, <2>2, <2>3 DEF P, O, Outs
    <2> QED BY <1>1, <1>3, <2>1, <2>2, <2>3, <2>4, SettledLess
  <1>5. ASSUME NEW w \in Worker, WorkerFinish(w)
        PROVE  OnceOf(Unsent', taskCh', running', ResultJobs') /\ Settled(jm', Unmarked', P)
    <2>1. /\ running[w] # NoJob /\ running' = [running EXCEPT ![w] = NoJob]
          /\ UNCHANGED <<jm, taskCh>>
      BY <1>5 DEF WorkerFinish, memory
    <2>2. ResultJobs' = ResultJobs \/ ResultJobs' = Append(ResultJobs, running[w])
      <3>1. PICK ok \in BOOLEAN : \/ UNCHANGED resultCh
                                  \/ resultCh' = Append(resultCh, [job |-> running[w], ok |-> ok])
        BY <1>5 DEF WorkerFinish
      <3> DEFINE r == [job |-> running[w], ok |-> ok]
      <3>2. r \in Result /\ r.job = running[w]
        BY <1>0, <2>1 DEF Result, Runs
      <3> HIDE DEF r
      <3>3. CASE UNCHANGED resultCh
        BY <3>3 DEF ResultJobs
      <3>4. CASE resultCh' = Append(resultCh, r)
        BY <1>0, <3>2, <3>4, ResultComes
      <3> QED BY <3>1, <3>3, <3>4 DEF r
    <2>3. /\ OnceOf(Unsent, taskCh, running', ResultJobs')
          /\ \A k \in Job : Out(k, Unsent, taskCh, running', ResultJobs') =>
                Out(k, Unsent, taskCh, running, ResultJobs)
      BY <1>0, <1>1, <2>1, <2>2, FinishOnce
    <2>4. P \subseteq O
      BY <1>3, <2>1, <2>3 DEF P, O, Outs
    <2> QED BY <1>1, <1>3, <2>1, <2>3, <2>4, SettledLess
  <1>6. ASSUME HandleResult \/ AckLost
        PROVE  OnceOf(Unsent', taskCh', running', ResultJobs') /\ Settled(jm', Unmarked', P)
    <2> DEFINE j == Head(resultCh).job
    <2>1. /\ resultCh # <<>> /\ resultCh' = Tail(resultCh) /\ UNCHANGED <<taskCh, running>>
      BY <1>6 DEF HandleResult, AckLost
    <2>2. /\ ResultJobs # <<>> /\ Head(ResultJobs) = j /\ ResultJobs' = Tail(ResultJobs)
      BY <1>0, <2>1, ResultGoes
    <2> HIDE DEF j
    <2>3. /\ OnceOf(Unsent, taskCh, running, ResultJobs')
          /\ \A k \in Job : Out(k, Unsent, taskCh, running, ResultJobs') =>
                Out(k, Unsent, taskCh, running, ResultJobs) /\ k # j
      BY <1>0, <1>1, <2>2, HandleOnce
    <2>4. P \in SUBSET O /\ j \notin P
      BY <1>3, <2>1, <2>3 DEF P, O, Outs
    <2>5. j \in Job /\ j \in O
      <3>1. j \in Job /\ j \in Elems(ResultJobs)
        BY <1>0, <1>1, <2>2, InjectiveTail DEF OnceOf
      <3> QED BY <3>1 DEF O, Outs, Out
    <2>6. jm.status[j] = "in_flight"
      BY <1>1, <2>5 DEF Settled
    <2>7. \/ jm' = jm \/ jm' = Failed(jm, j) \/ jm' = BumpAttempt(jm, j)
          \/ jm' = MarkCompleted(jm, j)
      BY <1>6 DEF HandleResult, AckLost, memory, j
    <2>8. Settled(jm', Unmarked, P)
      <3>1. CASE jm' = jm
        BY <1>1, <2>4, <3>1, SettledLess
      <3>2. CASE jm' = Failed(jm, j)
        BY <1>0, <1>1, <2>4, <2>5, <2>6, <3>2, SettledFailed
      <3>3. CASE jm' = BumpAttempt(jm, j)
        <4>1. /\ jm'.queue = jm.queue /\ jm'.status = jm.status
              /\ jm'.dead = jm.dead /\ jm'.completed = jm.completed
          BY <1>0, <2>5, <3>3, BumpAttemptFields
        <4> QED BY <1>1, <2>4, <4>1 DEF Settled
      <3>4. CASE jm' = MarkCompleted(jm, j)
        BY <1>0, <1>1, <2>4, <2>5, <2>6, <3>4, SettledCompleted
      <3> QED BY <2>7, <3>1, <3>2, <3>3, <3>4
    <2> QED BY <1>3, <2>1, <2>3, <2>8
  <1> QED BY <1>4, <1>5, <1>6 DEF P

(* The steps that leave the dispatchers and the pool alone. *)
LEMMA IdleSteps ==
    ASSUME Next, ~ Crash
    PROVE  \/ UNCHANGED <<disp, taskCh, running, resultCh>>
           \/ \E d \in Dispatcher : \/ PopBatch(d) \/ LogDispatch(d) \/ MarkBatch(d)
                                   \/ SubmitTask(d) \/ Poll(d)
           \/ \E w \in Worker : WorkerTake(w) \/ WorkerFinish(w)
           \/ HandleResult \/ AckLost
  BY DEF Next, EnqueueLog, EnqueueAdd, Timeout, TimeoutUnsynced, SnapCopy, SnapWrite,
         SnapRotate, RotateEnds, DiskFails, DiskRecovers, WriterJams, LoadSnapshot, ReplayEvent,
         StartLoops, Rest, vars, pool

LEMMA SingleStep ==
    ASSUME IInv, FreshStart, IdleStart, Claims, Single, [Next]_vars PROVE Single'
  <1>1. CASE UNCHANGED vars
    BY <1>1 DEF Single, Quiet, Alone, SubmitsOnce, Unmarked, Unsent, ResultJobs, vars, memory, pool
  <1> SUFFICES ASSUME Next, Quiet'
               PROVE  /\ \A d \in Dispatcher :
                            disp'[d].pc = "submit" => IsInjective(disp'[d].batch)
                      /\ OnceOf(Unsent', taskCh', running', ResultJobs')
                      /\ Settled(jm', Unmarked', Outs(Unsent', taskCh', running', ResultJobs'))
    BY <1>1 DEF Single, Alone, SubmitsOnce
  <1> DEFINE O == Outs(Unsent, taskCh, running, ResultJobs)
             P == Outs(Unsent', taskCh', running', ResultJobs')
  <1>0. /\ TypeOK /\ jm \in Manager /\ Sound(jm, Claimed)
        /\ Unmarked \in [Dispatcher -> Seq(Job)]
    BY UnmarkedType DEF IInv, TypeOK
  <1>2. Quiet /\ ~ Crash /\ \A j \in Job : ~ Timeout(j)
    BY <1>0, UsedGrows
  <1>3. /\ used.crash = 0 /\ ClaimsOf(jm, Unmarked) /\ Alone
        /\ \A d \in Dispatcher : disp[d].pc = "submit" => IsInjective(disp[d].batch)
        /\ OnceOf(Unsent, taskCh, running, ResultJobs)
        /\ Settled(jm, Unmarked, O) /\ O \in SUBSET Job
    BY <1>2 DEF Claims, Quiet, Single, Alone, SubmitsOnce, Outs
  <1> HIDE DEF O, P
  <1>4. CASE Starting
    <2>1. used'.crash = 0
      BY DEF Quiet
    <2>2. /\ Blank(jm')
          /\ \A d \in Dispatcher : disp'[d] = IdleDispatcher
          /\ taskCh' = <<>> /\ resultCh' = <<>> /\ \A w \in Worker : running'[w] = NoJob
      BY <1>4, <2>1, BeginsBlank, StartsIdle
    <2>3. \A d \in Dispatcher : Unmarked'[d] = <<>> /\ Unsent'[d] = {}
      BY <2>2 DEF Unmarked, Unsent, Held, IdleDispatcher
    <2>4. ResultJobs' = <<>>
      BY <2>2 DEF ResultJobs
    <2>5. OnceOf(Unsent', taskCh', running', ResultJobs')
      BY <2>2, <2>3, <2>4, NothingTwice DEF OnceOf
    <2>6. P = {}
      <3>1. NoJob \notin Job
        BY ControllerAssumption
      <3> QED BY <2>2, <2>3, <2>4, <3>1, NothingTwice DEF P, Outs, Out
    <2>7. jm'.queue = <<>> /\ jm'.completed = {}
      <3>1. IInv'
        BY StepInv
      <3>2. IndexesAgree(jm') /\ jm' \in Manager
        BY <3>1 DEF IInv, Sound
      <3> QED BY <2>2, <3>2 DEF Blank, Known, IndexesAgree, Terminal
    <2>8. Settled(jm', Unmarked', P)
      BY <2>3, <2>6, <2>7, NothingTwice DEF Settled
    <2> QED BY <2>2, <2>5, <2>8 DEF P, IdleDispatcher
  <1>5. CASE ~ Starting
    <2>1. CASE UNCHANGED <<disp, taskCh, running, resultCh>>
      <3>1. /\ Unsent' = Unsent /\ Unmarked' = Unmarked /\ ResultJobs' = ResultJobs
            /\ taskCh' = taskCh /\ running' = running /\ P = O
        BY <2>1 DEF Unsent, Held, Unmarked, ResultJobs, P, O
      <3>2. Settled(jm', Unmarked, O)
        <4>1. CASE UNCHANGED jm
          BY <1>3, <4>1
        <4>2. ASSUME NEW c \in Client, EnqueueAdd(c) PROVE Settled(jm', Unmarked, O)
          <5>1. PICK n \in 0 .. Len(Batch[c]) :
                   Accepts(jm, Batch[c], n) /\ jm' = Enqueue(jm, SubSeq(Batch[c], 1, n))
            BY <4>2 DEF EnqueueAdd
          <5>2. Batch[c] \in Seq(Job)
            BY ControllerAssumption
          <5>3. /\ SubSeq(Batch[c], 1, n) \in Seq(Job)
                /\ \A j \in Elems(SubSeq(Batch[c], 1, n)) : ~ Known(jm, j)
            BY <5>1, <5>2, AcceptedFresh
          <5> QED BY <1>0, <1>3, <5>1, <5>3, SettledEnqueue
        <4>3. CASE ~ UNCHANGED jm /\ \A c \in Client : ~ EnqueueAdd(c)
          <5>1. \/ \E d \in Dispatcher : PopBatch(d) \/ MarkBatch(d) \/ Poll(d)
                \/ HandleResult
            BY <1>2, <1>5, <4>3, LoopSteps
          <5>2. ~ HandleResult
            <6>1. resultCh # <<>> => Len(Tail(resultCh)) # Len(resultCh)
              BY <1>0 DEF TypeOK
            <6> QED BY <2>1, <6>1 DEF HandleResult
          <5>3. PICK d \in Dispatcher : PopBatch(d) \/ MarkBatch(d) \/ Poll(d)
            BY <5>1, <5>2
          <5>4. Settled(jm', Unmarked', P)
            BY <1>3, <5>3, DispatcherAlone DEF P
          <5> QED BY <3>1, <5>4
        <4> QED BY <4>1, <4>2, <4>3
      <3> QED BY <1>3, <2>1, <3>1, <3>2 DEF P
    <2>2. ASSUME NEW d \in Dispatcher,
                 PopBatch(d) \/ LogDispatch(d) \/ MarkBatch(d) \/ SubmitTask(d) \/ Poll(d)
          PROVE  /\ \A e \in Dispatcher :
                       disp'[e].pc = "submit" => IsInjective(disp'[e].batch)
                 /\ OnceOf(Unsent', taskCh', running', ResultJobs')
                 /\ Settled(jm', Unmarked', Outs(Unsent', taskCh', running', ResultJobs'))
      BY <1>3, <2>2, DispatcherAlone
    <2>3. CASE (\E w \in Worker : WorkerTake(w) \/ WorkerFinish(w)) \/ HandleResult \/ AckLost
      <3>1. UNCHANGED disp
        BY <2>3 DEF WorkerTake, WorkerFinish, HandleResult, AckLost
      <3> QED BY <1>3, <2>3, <3>1, PoolAlone
    <2> QED BY <1>2, <2>1, <2>2, <2>3, IdleSteps
  <1> QED BY <1>4, <1>5

LEMMA SingleHolds == Spec => []Single
  <1>1. Init => Single
    <2> SUFFICES ASSUME Init PROVE Alone
      BY DEF Single
    <2>1. /\ \A d \in Dispatcher : disp[d] = IdleDispatcher
          /\ taskCh = <<>> /\ resultCh = <<>> /\ \A w \in Worker : running[w] = NoJob
          /\ jm.queue = <<>> /\ jm.completed = {}
      BY DEF Init, NewJobManager
    <2>2. \A d \in Dispatcher : Unmarked[d] = <<>> /\ Unsent[d] = {}
      BY <2>1 DEF Unmarked, Unsent, Held, IdleDispatcher
    <2>3. ResultJobs = <<>>
      BY <2>1 DEF ResultJobs
    <2>4. OnceOf(Unsent, taskCh, running, ResultJobs)
      BY <2>1, <2>2, <2>3, NothingTwice DEF OnceOf
    <2>5. Outs(Unsent, taskCh, running, ResultJobs) = {}
      BY <2>1, <2>2, <2>3, NothingTwice, ControllerAssumption DEF Outs, Out
    <2>6. Settled(jm, Unmarked, {})
      BY <2>1, <2>2, NothingTwice DEF Settled
    <2>7. SubmitsOnce
      BY <2>1 DEF SubmitsOnce, IdleDispatcher
    <2>8. Settled(jm, Unmarked, Outs(Unsent, taskCh, running, ResultJobs))
      BY <2>5, <2>6
    <2> QED BY <2>4, <2>7, <2>8 DEF Alone
  <1>2. IInv /\ FreshStart /\ IdleStart /\ Claims /\ Single /\ [Next]_vars => Single'
    BY SingleStep
  <1> QED BY InvHolds, FreshHolds, IdleHolds, ClaimsHold, <1>1, <1>2, PTL DEF Spec

(* A job is in one place only until a deadline passes or the process         *)
(* crashes.                                                                  *)
THEOREM ExecutedOnce == Spec => []SingleExecution
  <1>1. ASSUME IInv, IdleStart, Claims, Single PROVE SingleExecution
    <2> SUFFICES ASSUME Quiet, NEW j \in Job PROVE Cardinality(Copies(j)) <= 1
      BY DEF SingleExecution
    <2>1. /\ ClaimsOf(jm, Unmarked) /\ SubmitsOnce
          /\ OnceOf(Unsent, taskCh, running, ResultJobs)
          /\ Settled(jm, Unmarked, Outs(Unsent, taskCh, running, ResultJobs))
      BY <1>1 DEF Claims, Quiet, Single, Alone
    <2> DEFINE Q  == {i \in DOMAIN jm.queue : jm.queue[i] = j}
               D(d) == {i \in DOMAIN disp[d].batch :
                          (disp[d].pc = "submit" => i >= disp[d].n) /\ disp[d].batch[i] = j}
               T == {i \in DOMAIN taskCh : taskCh[i] = j}
               W == {w \in Worker : running[w] = j}
               R == {i \in DOMAIN resultCh : resultCh[i].job = j}
    <2> DEFINE qs == {<<"queue", i>> : i \in Q}
               us == UNION {{<<d, i>> : i \in D(d)} : d \in Dispatcher}
               ts == {<<"task", i>> : i \in T}
               ws == {<<w, 1>> : w \in W}
               rs == {<<"result", i>> : i \in R}
    <2>2. Copies(j) = qs \cup us \cup ts \cup ws \cup rs
      BY DEF Copies
    <2> HIDE DEF qs, us, ts, ws, rs
    (* Each place has at most one copy, ... *)
    <2>3. \A x, y \in Q : x = y
      BY <2>1 DEF ClaimsOf, IsInjective
    <2>4. \A x, y \in T : x = y
      BY <2>1 DEF OnceOf, IsInjective
    <2>5. \A x, y \in W : x = y
      BY <2>1, ControllerAssumption DEF OnceOf
    <2>6. \A x, y \in R : x = y
      BY <2>1 DEF OnceOf, IsInjective, ResultJobs
    <2>7. ASSUME NEW d \in Dispatcher, D(d) # {}
          PROVE  /\ \/ disp[d].pc \in {"log", "mark"} /\ j \in Elems(Unmarked[d])
                    \/ disp[d].pc = "submit" /\ j \in Unsent[d]
                 /\ IsInjective(disp[d].batch)
      <3>1. disp[d].pc \in DispStep
        BY <1>1 DEF IInv, TypeOK, DispState
      <3>2. disp[d].pc # "pop"
        BY <1>1, <2>7 DEF IdleStart, IdleDispatcher
      <3>3. CASE disp[d].pc = "submit"
        BY <2>1, <2>7, <3>3 DEF SubmitsOnce, Unsent, Held
      <3>4. CASE disp[d].pc \in {"log", "mark"}
        <4>1. Unmarked[d] = disp[d].batch
          BY <3>4 DEF Unmarked
        <4> QED BY <2>1, <2>7, <3>4, <4>1 DEF ClaimsOf, Elems
      <3> QED BY <3>1, <3>2, <3>3, <3>4 DEF DispStep
    <2>8. \A d \in Dispatcher : \A x, y \in D(d) : x = y
      BY <2>7 DEF IsInjective
    (* ... and two places never have one both. *)
    <2> DEFINE out == Out(j, Unsent, taskCh, running, ResultJobs)
    <2>9. /\ T # {} => j \in Elems(taskCh)
          /\ Q # {} => j \in Elems(jm.queue)
          /\ R # {} => j \in Elems(ResultJobs)
      BY DEF Elems, ResultJobs
    <2>10. out => /\ jm.status[j] = "in_flight" /\ Q = {}
                  /\ \A d \in Dispatcher : D(d) # {} => disp[d].pc = "submit" /\ j \in Unsent[d]
      BY <2>1, <2>7, <2>9 DEF Settled, Outs, ClaimsOf
    <2>11. \A d \in Dispatcher : D(d) # {} => Q = {}
      <3>1. ASSUME NEW d \in Dispatcher, D(d) # {}, Q # {} PROVE FALSE
        <4>1. j \in Elems(jm.queue) /\ ~ out
          BY <2>9, <2>10, <3>1
        <4>2. j \in Elems(Unmarked[d])
          BY <2>7, <3>1, <4>1 DEF Out
        <4> QED BY <2>1, <4>1, <4>2 DEF ClaimsOf
      <3> QED BY <3>1
    <2>12. \A d, e \in Dispatcher : D(d) # {} /\ D(e) # {} => d = e
      <3>1. ASSUME NEW d \in Dispatcher, NEW e \in Dispatcher, D(d) # {}, D(e) # {}, d # e
            PROVE  FALSE
        <4>1. CASE out
          BY <2>1, <2>10, <3>1, <4>1 DEF OnceOf
        <4>2. CASE ~ out
          <5>1. j \in Elems(Unmarked[d]) /\ j \in Elems(Unmarked[e])
            BY <2>7, <3>1, <4>2 DEF Out
          <5> QED BY <2>1, <3>1, <5>1 DEF ClaimsOf
        <4> QED BY <4>1, <4>2
      <3> QED BY <3>1
    <2>13. T # {} \/ W # {} \/ R # {} => out /\ \A d \in Dispatcher : D(d) = {}
      <3>1. T # {} \/ W # {} \/ R # {} => out
        BY <2>9 DEF Out
      <3>2. ASSUME NEW d \in Dispatcher, T # {} \/ W # {} \/ R # {}, D(d) # {} PROVE FALSE
        <4>1. j \in Unsent[d]
          BY <2>10, <3>1, <3>2
        <4> QED BY <2>1, <2>9, <3>2, <4>1 DEF OnceOf
      <3> QED BY <3>1, <3>2
    <2>14. (T # {} => W = {} /\ R = {}) /\ (W # {} => R = {})
      BY <2>1, <2>9 DEF OnceOf
    <2> HIDE DEF Q, D, T, W, R, out
    <2>15. \A x, y \in Copies(j) : x = y
      <3>1. CASE Q # {}
        <4>1. /\ T = {} /\ W = {} /\ R = {}
              /\ \A d \in Dispatcher : D(d) = {}
          BY <2>10, <2>11, <2>13, <3>1
        <4>2. \A x \in Copies(j) : \E i \in Q : x = <<"queue", i>>
          BY <2>2, <4>1 DEF qs, us, ts, ws, rs
        <4> QED BY <2>3, <4>2
      <3>2. ASSUME NEW d \in Dispatcher, D(d) # {} PROVE \A x, y \in Copies(j) : x = y
        <4>1. /\ Q = {} /\ T = {} /\ W = {} /\ R = {}
              /\ \A e \in Dispatcher \ {d} : D(e) = {}
          BY <2>11, <2>12, <2>13, <3>2
        <4>2. \A x \in Copies(j) : \E i \in D(d) : x = <<d, i>>
          BY <2>2, <4>1 DEF qs, us, ts, ws, rs
        <4> QED BY <2>8, <4>2
      <3>3. CASE Q = {} /\ \A d \in Dispatcher : D(d) = {}
        <4>0. \A x \in Copies(j) : \/ \E i \in T : x = <<"task", i>>
                                   \/ \E w \in W : x = <<w, 1>>
                                   \/ \E i \in R : x = <<"result", i>>
          <5>2. qs = {}
            BY <3>3 DEF qs
          <5>3. us = {}
            BY <3>3 DEF us
          <5>4. \A x \in Copies(j) : x \in ts \/ x \in ws \/ x \in rs
            BY <2>2, <5>2, <5>3
          <5> QED BY <5>4 DEF ts, ws, rs
        <4>1. CASE T # {}
          <5>1. \A x \in Copies(j) : \E i \in T : x = <<"task", i>>
            BY <2>14, <4>0, <4>1
          <5> QED BY <2>4, <5>1
        <4>2. CASE T = {} /\ W # {}
          <5>1. \A x \in Copies(j) : \E w \in W : x = <<w, 1>>
            BY <2>14, <4>0, <4>2
          <5> QED BY <2>5, <5>1
        <4>3. CASE T = {} /\ W = {}
          <5>1. \A x \in Copies(j) : \E i \in R : x = <<"result", i>>
            BY <4>0, <4>3
          <5> QED BY <2>6, <5>1
        <4> QED BY <4>1, <4>2, <4>3
      <3> QED BY <3>1, <3>2, <3>3
    <2> QED BY <2>15, AtMostOne
  <1> QED BY InvHolds, IdleHolds, ClaimsHold, SingleHolds, <1>1, PTL

-----------------------------------------------------------------------------
(* Deaths.                                                                   *)

LEMMA DeathStep ==
    ASSUME IInv, FreshStart, Single, Next, Quiet, phase = "running", phase' = "running",
           NEW j \in Job, jm'.status[j] = "dead", jm.status[j] # "dead"
    PROVE  jm.status[j] = "in_flight"
  <1>0. jm \in Manager /\ TypeOK
    BY DEF IInv, TypeOK
  <1>1. ~ Starting /\ ~ Crash
    BY DEF Starting, Crash
  <1>2. ~ UNCHANGED jm
    BY DEF Starting
  <1>3. ASSUME NEW c \in Client, EnqueueAdd(c) PROVE FALSE
    <2>1. PICK n \in 0 .. Len(Batch[c]) :
             Accepts(jm, Batch[c], n) /\ jm' = Enqueue(jm, SubSeq(Batch[c], 1, n))
      BY <1>3 DEF EnqueueAdd
    <2>2. SubSeq(Batch[c], 1, n) \in Seq(Job)
      BY <2>1, AcceptedFresh, ControllerAssumption
    <2>3. jm'.status[j] = IF j \in Elems(SubSeq(Batch[c], 1, n)) THEN "pending" ELSE jm.status[j]
      BY <1>0, <2>1, <2>2, EnqueueFields
    <2> QED BY <2>3
  <1>4. ASSUME NEW d \in Dispatcher, PopBatch(d) \/ MarkBatch(d) \/ Poll(d) PROVE FALSE
    <2>1. ASSUME NEW m \in Manager, NEW T \in SUBSET Job, m.status = jm.status,
                 jm' = MarkInFlight(m, T)
          PROVE  FALSE
      BY <1>0, <2>1, MarkInFlightFields
    <2>2. CASE PopBatch(d)
      <3>1. NextBatch \in 0 .. Len(jm.queue) /\ jm' = PopPending(jm, NextBatch)
        BY <1>0, <2>2, NextBatchType DEF PopBatch
      <3> QED BY <1>0, <3>1, PopFields
    <2>3. CASE MarkBatch(d)
      <3>1. disp[d].batch \in Seq(Job)
        BY <1>0 DEF TypeOK, DispState
      <3>2. Elems(disp[d].batch) \in SUBSET Job
        BY <3>1, ElemsOfJobs
      <3> QED BY <1>0, <2>1, <2>3, <3>2 DEF MarkBatch
    <2>4. CASE Poll(d)
      <3> DEFINE q == Popped(jm, NextBatch)
                 m == PopPending(jm, NextBatch)
      <3>1. NextBatch \in 0 .. Len(jm.queue) /\ q \in Seq(Job) /\ jm' = MarkInFlight(m, Elems(q))
        BY <1>0, <2>4, NextBatchType DEF Poll
      <3>2. m \in Manager /\ m.status = jm.status
        BY <1>0, <3>1, PopFields
      <3>3. Elems(q) \in SUBSET Job
        BY <3>1, ElemsOfJobs
      <3> HIDE DEF m, q
      <3> QED BY <2>1, <3>1, <3>2, <3>3
    <2> QED BY <1>4, <2>2, <2>3, <2>4
  <1>5. ASSUME NEW k \in Job, Timeout(k) PROVE jm.status[j] = "in_flight"
    <2>1. jm' = Failed(jm, k) /\ k \in jm.inFlight
      BY <1>5 DEF Timeout
    <2>2. jm.status[k] = "in_flight"
      BY <2>1 DEF IInv, Sound, IndexesAgree, WithStatus
    <2> QED BY <1>0, <2>1, <2>2, BumpedFailed
  <1>6. CASE HandleResult
    <2> DEFINE k == Head(resultCh).job
    <2>1. k \in Job /\ jm.status[k] = "in_flight"
      <3>1. /\ OnceOf(Unsent, taskCh, running, ResultJobs)
            /\ Settled(jm, Unmarked, Outs(Unsent, taskCh, running, ResultJobs))
        BY DEF Single, Alone
      <3>2. ResultJobs \in Seq(Job) /\ ResultJobs # <<>> /\ Head(ResultJobs) = k
        BY <1>0, <1>6, OutTypes, ResultGoes DEF HandleResult
      <3>3. k \in Job /\ k \in Elems(ResultJobs)
        BY <3>1, <3>2, InjectiveTail DEF OnceOf
      <3> QED BY <3>1, <3>3 DEF Settled, Outs, Out
    <2>2. \/ jm' = jm \/ jm' = Failed(jm, k) \/ jm' = BumpAttempt(jm, k)
          \/ jm' = MarkCompleted(jm, k)
      BY <1>6 DEF HandleResult
    <2> HIDE DEF k
    <2>3. CASE jm' = Failed(jm, k)
      BY <1>0, <2>1, <2>3, BumpedFailed
    <2>4. jm' # BumpAttempt(jm, k)
      <3>1. BumpAttempt(jm, k).status = jm.status
        BY <1>0, <2>1, BumpAttemptFields
      <3> QED BY <3>1
    <2>5. jm' # MarkCompleted(jm, k)
      <3>1. MarkCompleted(jm, k).status[j] = IF j = k THEN "completed" ELSE jm.status[j]
        BY <1>0, <2>1, MarkCompletedFields
      <3> QED BY <3>1
    <2> QED BY <1>2, <2>2, <2>3, <2>4, <2>5
  <1> QED BY <1>1, <1>2, <1>3, <1>4, <1>5, <1>6, LoopSteps

(* A job dies while it is in flight only: the result that kills it is never  *)
(* one of an attempt that was given up.                                      *)
THEOREM DeathInFlight == Spec => DeadOnlyFromInFlight
  <1>1. IInv /\ FreshStart /\ Single /\ [Next]_vars =>
          (Quiet /\ phase = "running" /\ phase' = "running" =>
             \A j \in Job : jm'.status[j] = "dead" => jm.status[j] \in {"in_flight", "dead"})
    <2> SUFFICES ASSUME IInv, FreshStart, Single, [Next]_vars, Quiet, phase = "running",
                        phase' = "running", NEW j \in Job, jm'.status[j] = "dead"
                 PROVE  jm.status[j] \in {"in_flight", "dead"}
      OBVIOUS
    <2>1. CASE UNCHANGED vars
      BY <2>1 DEF vars, memory
    <2>2. CASE Next
      BY <2>2, DeathStep
    <2> QED BY <2>1, <2>2
  <1> QED BY InvHolds, FreshHolds, SingleHolds, <1>1, PTL DEF Spec, DeadOnlyFromInFlight

-----------------------------------------------------------------------------
(* The statistics.                                                           *)

(* An injective sequence is as long as the set of its elements is large. *)
LEMMA InjectiveLength ==
    ASSUME NEW q \in Seq(Job), IsInjective(q)
    PROVE  Len(q) = Cardinality(Elems(q)) /\ IsFiniteSet(Elems(q)) /\ Len(q) \in Nat
  <1>1. Len(q) \in Nat /\ 1 <= Len(q) + 1 /\ q \in [1 .. Len(q) -> Elems(q)]
    BY DEF Elems
  <1>2. IsFiniteSet(1 .. Len(q)) /\ Cardinality(1 .. Len(q)) = Len(q)
    <2>1. 1 \in Int /\ Len(q) \in Int
      BY <1>1
    <2>2. /\ IsFiniteSet(1 .. Len(q))
          /\ Cardinality(1 .. Len(q)) = IF 1 > Len(q) THEN 0 ELSE Len(q) - 1 + 1
      BY <2>1, FS_Interval
    <2> QED BY <1>1, <2>2
  <1>3. q \in Bijection(1 .. Len(q), Elems(q))
    <2>1. q \in Injection(1 .. Len(q), Elems(q))
      BY <1>1 DEF Injection
    <2>2. \A x \in Elems(q) : \E i \in 1 .. Len(q) : q[i] = x
      BY DEF Elems
    <2>3. q \in Surjection(1 .. Len(q), Elems(q))
      BY <1>1, <2>2 DEF Surjection
    <2> QED BY <2>1, <2>3 DEF Bijection
  <1>4. ExistsBijection(1 .. Len(q), Elems(q))
    BY <1>3 DEF ExistsBijection
  <1> QED BY <1>1, <1>2, <1>4, FS_Bijection

LEMMA DisjointUnion ==
    ASSUME NEW S \in SUBSET Job, NEW T \in SUBSET Job, S \cap T = {}
    PROVE  /\ Cardinality(S \cup T) = Cardinality(S) + Cardinality(T)
           /\ Cardinality(S) \in Nat /\ Cardinality(T) \in Nat
  <1>1. IsFiniteSet(S) /\ IsFiniteSet(T)
    BY FiniteJobs, FS_Subset
  <1>2. Cardinality(S \cap T) = 0
    BY FS_EmptySet
  <1>3. Cardinality(S \cup T) = Cardinality(S) + Cardinality(T) - Cardinality(S \cap T)
    BY <1>1, FS_Union
  <1>4. Cardinality(S) \in Nat /\ Cardinality(T) \in Nat
    BY <1>1, FS_CardinalityType
  <1> QED BY <1>2, <1>3, <1>4

(* Stats counts every job once. *)
THEOREM StatsPartition == Spec => []StatsCountEachJobOnce
  <1>1. ASSUME IInv, Claims, Single PROVE StatsCountEachJobOnce
    <2> SUFFICES ASSUME Quiet, Claimed = {} PROVE StatsTotal(jm) = GetTotalJobs(jm)
      BY DEF StatsCountEachJobOnce
    <2> DEFINE S(st) == WithStatus(jm, st)
    <2>1. /\ jm \in Manager /\ jm.queue \in Seq(Job) /\ Elems(jm.queue) \subseteq Job
          /\ IndexesAgree(jm) /\ NoneStranded(jm, {})
      BY <1>1, ElemsOfJobs DEF IInv, Sound, Manager
    <2>2. ClaimsOf(jm, Unmarked) /\ \E O : Settled(jm, Unmarked, O)
      BY <1>1 DEF Claims, Quiet, Single, Alone
    <2>3. \A j \in Job : jm.status[j] \in {"absent", "pending", "in_flight", "completed", "dead"}
      BY <2>1 DEF Manager, Status, Live, Terminal
    <2>4. Elems(jm.queue) = S("pending")
      BY <2>1, <2>2 DEF ClaimsOf, Settled, NoneStranded, WithStatus
    <2>5. /\ jm.inFlight = S("in_flight") /\ jm.dead = S("dead")
          /\ jm.completed = S("completed")
      BY <2>1, <2>2 DEF IndexesAgree, WithStatus, Settled, Terminal
    <2>6. Len(jm.queue) = Cardinality(S("pending"))
      BY <2>1, <2>2, <2>4, InjectiveLength DEF ClaimsOf
    <2>7. {j \in Job : Known(jm, j)} =
             (S("pending") \cup S("in_flight")) \cup (S("completed") \cup S("dead"))
      BY <2>3 DEF Known, WithStatus
    <2>8. /\ \A st : S(st) \in SUBSET Job
          /\ S("pending") \cap S("in_flight") = {} /\ S("completed") \cap S("dead") = {}
          /\ (S("pending") \cup S("in_flight")) \cap (S("completed") \cup S("dead")) = {}
      BY DEF WithStatus
    <2> HIDE DEF S
    <2>9. /\ Cardinality(S("pending") \cup S("in_flight"))
                = Cardinality(S("pending")) + Cardinality(S("in_flight"))
          /\ Cardinality(S("pending")) \in Nat /\ Cardinality(S("in_flight")) \in Nat
      BY <2>8, DisjointUnion
    <2>10. /\ Cardinality(S("completed") \cup S("dead"))
                = Cardinality(S("completed")) + Cardinality(S("dead"))
           /\ Cardinality(S("completed")) \in Nat /\ Cardinality(S("dead")) \in Nat
      BY <2>8, DisjointUnion
    <2>11. S("pending") \cup S("in_flight") \in SUBSET Job
           /\ S("completed") \cup S("dead") \in SUBSET Job
      BY <2>8
    <2>12. Cardinality({j \in Job : Known(jm, j)})
             = Cardinality(S("pending") \cup S("in_flight"))
               + Cardinality(S("completed") \cup S("dead"))
      BY <2>7, <2>8, <2>11, DisjointUnion
    <2> QED BY <2>5, <2>6, <2>9, <2>10, <2>12 DEF StatsTotal, GetTotalJobs
  <1> QED BY InvHolds, ClaimsHold, SingleHolds, <1>1, PTL
=============================================================================
