----------------------------- MODULE Controller -----------------------------
(***************************************************************************)
(* internal/controller, composed with the job manager, the write-ahead     *)
(* log, the snapshot file and the worker pool.                             *)
(*                                                                         *)
(* The goroutines are dispatchLoop (one per dispatcher), the workers,      *)
(* resultLoop, timeoutLoop, snapshotLoop and the callers of EnqueueJobs.   *)
(* A step of one of them is what it does while it holds c.mu, one append   *)
(* to the WAL, or one channel operation.  A handler that appends to the    *)
(* WAL under c.mu is one step: only the disk outlives a crash, and a crash *)
(* between the append and the update leaves the same disk as one after     *)
(* both.                                                                   *)
(*                                                                         *)
(* In master mode (Remote) dispatchLoop is off and remote pools poll: a    *)
(* "dispatcher" is then the pollerLoop of a remote pool, and its tasks,    *)
(* workers and results live in other processes, which outlive a crash of   *)
(* this one.                                                               *)
(*                                                                         *)
(* As in JobManagerOps, a "Fault" is a wrong version of what follows it,   *)
(* for the mutants only.                                                   *)
(***************************************************************************)
EXTENDS JobManagerOps

CONSTANTS Dispatcher, Worker, Client,
          NoJob,        \* what an idle worker runs
          Batch,        \* Batch[c]: the jobs client c passes to EnqueueJobs
          MaxRetry,     \* Config.MaxRetry
          BatchSize,    \* jobs popped at once (10 in dispatchLoop and pollerLoop)
          ChanCap,      \* capacity of taskCh and of resultCh (WALBufferSize)
          Remote,       \* master mode
          KeepWAL,      \* FALSE where nothing reads the log: it stays empty
          MaxCrash,     \* bound on crashes
          MaxExpire,    \* bound on deadlines that pass before the result is handled
          MaxSnap,      \* bound on snapshots
          MaxDiskErr,   \* bound on the times fsync starts to fail
          MaxJam        \* bound on the failed writes to the log

ASSUME ControllerAssumption ==
    /\ NoJob \notin Job
    /\ Batch \in [Client -> Seq(Job)]
    /\ MaxRetry \in Nat
    /\ BatchSize \in Nat \ {0}
    /\ ChanCap \in Nat \ {0}
    /\ {Remote, KeepWAL} \subseteq BOOLEAN
    /\ {MaxCrash, MaxExpire, MaxSnap, MaxDiskErr, MaxJam} \subseteq Nat
    /\ MaxCrash > 0 => KeepWAL

VARIABLES
    phase,              \* of the process: down, replay, running or failed
    jm,                 \* the job manager
    wal, snap,          \* on disk: the events of the current log, the snapshot
    diskDown,           \* the disk refuses writes (fsync fails)
    writer,             \* the WAL's batch writer: on, jammed, rotating or closed
    pos,                \* next event of the replay
    saver,              \* snapshotLoop: its step and the copied state
    disp,               \* dispatchLoop: its step, its batch, the next index in it
    client,             \* EnqueueJobs: its step and the next index in its batch
    taskCh, running, resultCh,  \* the pool: tasks, what each worker runs, results
    used                \* the bounded events that have happened

memory == <<jm, pos, saver>>
disk   == <<wal, snap, diskDown, writer>>
pool   == <<taskCh, running, resultCh>>
vars   == <<phase, memory, disk, disp, client, pool, used>>

EventType == {"ENQUEUE", "DISPATCH", "ACK", "RETRY", "TIMEOUT", "DEAD"}
Event     == [type : EventType, job : Job]

IdleSaver      == [pc |-> "idle", data |-> NoJobs]
IdleDispatcher == [pc |-> "pop", batch |-> <<>>, n |-> 1]
NewCall        == [pc |-> "log", n |-> 1]

EmptyPool ==
    /\ disp' = [d \in Dispatcher |-> IdleDispatcher]
    /\ taskCh' = <<>>
    /\ running' = [w \in Worker |-> NoJob]
    /\ resultCh' = <<>>

Init ==
    /\ phase = "down"
    /\ jm = NewJobManager /\ pos = 1 /\ saver = IdleSaver
    /\ wal = <<>> /\ snap = NoJobs /\ diskDown = FALSE /\ writer = "on"
    /\ disp = [d \in Dispatcher |-> IdleDispatcher]
    /\ client = [c \in Client |-> NewCall]
    /\ taskCh = <<>> /\ running = [w \in Worker |-> NoJob] /\ resultCh = <<>>
    /\ used = [crash |-> 0, expired |-> 0, snap |-> 0, diskErr |-> 0, unsynced |-> 0, jam |-> 0]

(* Append returns an error: the batch writer is stopped, or the write or the *)
(* fsync fails.  (An append that waits for the new batch writer is one made  *)
(* after the rotation.)                                                      *)
Refuses == diskDown \/ writer # "on"

(* The logs that appending the events of type t for the jobs of q may leave: *)
(* events whose fsync failed are in the file or not.                         *)
Logs(t, q) ==
    LET longer == wal \o [i \in DOMAIN q |-> [type |-> t, job |-> q[i]]]
    IN  IF KeepWAL /\ writer = "on" THEN {longer} \cup {l \in {wal} : diskDown} ELSE {wal}

-----------------------------------------------------------------------------
(* EnqueueJobs: one append per job, without c.mu; an error ends the call. *)
EnqueueLog(c) ==
    /\ phase = "running" /\ client[c].pc = "log"
    /\ IF client[c].n > Len(Batch[c])
       THEN client' = [client EXCEPT ![c].pc = "add"] /\ UNCHANGED wal
       ELSE /\ wal' \in Logs("ENQUEUE", <<Batch[c][client[c].n]>>)
            /\ client' = IF Refuses THEN [client EXCEPT ![c].pc = "refused"]
                         ELSE [client EXCEPT ![c].n = @ + 1]
    /\ UNCHANGED <<phase, memory, snap, diskDown, writer, disp, pool, used>>

(* Then the whole batch under c.mu, up to the first duplicate. *)
EnqueueAdd(c) ==
    /\ phase = "running" /\ client[c].pc = "add"
    /\ \E n \in 0 .. Len(Batch[c]) :
         /\ Accepts(jm, Batch[c], n)
         /\ jm' = Enqueue(jm, SubSeq(Batch[c], 1, n))
         /\ client' = [client EXCEPT
               ![c].pc = IF n = Len(Batch[c]) THEN "accepted" ELSE "refused"]
    /\ UNCHANGED <<phase, pos, saver, disk, disp, pool, used>>

-----------------------------------------------------------------------------
NextBatch == LET n == Len(jm.queue) IN IF n < BatchSize THEN n ELSE BatchSize

(* Fault: the batch is marked without having been logged. *)
PopBatchUnlogged(d) ==
    /\ ~ Remote /\ phase = "running" /\ disp[d].pc = "pop" /\ jm.queue # <<>>
    /\ disp' = [disp EXCEPT ![d] = [pc |-> "mark", batch |-> Popped(jm, NextBatch), n |-> 1]]
    /\ jm' = PopPending(jm, NextBatch)
    /\ UNCHANGED <<phase, pos, saver, disk, client, pool, used>>

(* dispatchLoop.  The batch leaves the queue under c.mu, ... *)
PopBatch(d) ==
    /\ ~ Remote /\ phase = "running" /\ disp[d].pc = "pop" /\ jm.queue # <<>>
    /\ disp' = [disp EXCEPT ![d] = [pc |-> "log", batch |-> Popped(jm, NextBatch), n |-> 1]]
    /\ jm' = PopPending(jm, NextBatch)
    /\ UNCHANGED <<phase, pos, saver, disk, client, pool, used>>

(* Fault: the next step starts one before the first job. *)
AdvancedFromZero(s, pc) ==
    IF s.n < Len(s.batch) THEN [s EXCEPT !.n = @ + 1]
    ELSE IF pc = "pop" THEN IdleDispatcher
    ELSE [s EXCEPT !.pc = pc, !.n = 0]

(* A dispatcher in state s goes to the next job of its batch, or after the   *)
(* last one to step pc.                                                      *)
Advanced(s, pc) ==
    IF s.n < Len(s.batch) THEN [s EXCEPT !.n = @ + 1]
    ELSE IF pc = "pop" THEN IdleDispatcher
    ELSE [s EXCEPT !.pc = pc, !.n = 1]

Advance(d, pc) == disp' = [disp EXCEPT ![d] = Advanced(disp[d], pc)]

(* ... each of its jobs is logged without the lock, an error only printed, ... *)
LogDispatch(d) ==
    /\ phase = "running" /\ disp[d].pc = "log"
    /\ wal' \in Logs("DISPATCH", <<disp[d].batch[disp[d].n]>>)
    /\ Advance(d, "mark")
    /\ UNCHANGED <<phase, memory, snap, diskDown, writer, client, pool, used>>

(* ... the batch is marked under c.mu, a refusal only printed, ... *)
MarkBatch(d) ==
    /\ phase = "running" /\ disp[d].pc = "mark"
    /\ jm' = MarkInFlight(jm, Elems(disp[d].batch))
    /\ disp' = [disp EXCEPT ![d].pc = "submit"]
    /\ UNCHANGED <<phase, pos, saver, disk, client, pool, used>>

(* The pool runs with the controller, or in a worker process of its own. *)
PoolRuns == Remote \/ phase = "running"

(* ... and every job of it is submitted, marked or not.  Submit waits while  *)
(* taskCh is full.                                                           *)
SubmitTask(d) ==
    /\ PoolRuns
    /\ disp[d].pc = "submit" /\ Len(taskCh) < ChanCap
    /\ taskCh' = Append(taskCh, disp[d].batch[disp[d].n])
    /\ Advance(d, "pop")
    /\ UNCHANGED <<phase, memory, disk, client, running, resultCh, used>>

(* The remote pool has the jobs of the reply, or an error in place of it. *)
PollReply(d, q) ==
    \/ disp' = [disp EXCEPT ![d] = [pc |-> "submit", batch |-> q, n |-> 1]]
    \/ UNCHANGED disp

(* Controller.Poll, called by a remote pool: pop, log and mark under one     *)
(* hold of c.mu (a rotation between two of its appends is left out).         *)
Poll(d) ==
    /\ Remote /\ phase = "running" /\ disp[d].pc = "pop" /\ jm.queue # <<>>
    /\ LET q == Popped(jm, NextBatch)
       IN /\ wal' \in Logs("DISPATCH", q)
          /\ jm' = MarkInFlight(PopPending(jm, NextBatch), Elems(q))
          /\ PollReply(d, q)
    /\ UNCHANGED <<phase, pos, saver, snap, diskDown, writer, client, pool, used>>

-----------------------------------------------------------------------------
WorkerTake(w) ==
    /\ PoolRuns
    /\ running[w] = NoJob /\ taskCh # <<>>
    /\ running' = [running EXCEPT ![w] = Head(taskCh)]
    /\ taskCh' = Tail(taskCh)
    /\ UNCHANGED <<phase, memory, disk, disp, client, resultCh, used>>

(* The execution succeeds or fails; a result that finds resultCh full is     *)
(* dropped.                                                                  *)
WorkerFinish(w) ==
    /\ PoolRuns
    /\ running[w] # NoJob
    /\ \E ok \in BOOLEAN :
         resultCh' = IF Len(resultCh) < ChanCap
                     THEN Append(resultCh, [job |-> running[w], ok |-> ok])
                     ELSE resultCh
    /\ running' = [running EXCEPT ![w] = NoJob]
    /\ UNCHANGED <<phase, memory, disk, disp, client, taskCh, used>>

(* Fault: MaxRetry is not looked at. *)
FailedForEver(m, j) ==
    LET b == BumpAttempt(m, j)
    IN IF CanFinish(b, j) THEN Requeue(b, j) ELSE b

(* What handleResult and timeoutLoop leave of a job that failed: Attempt is  *)
(* incremented by the caller, and once more by Requeue.                      *)
Failed(m, j) ==
    LET b == BumpAttempt(m, j)
    IN IF b.attempt[j] >= MaxRetry THEN MarkDead(b, j)
       ELSE IF CanFinish(b, j) THEN Requeue(b, j) ELSE b

(* resultLoop takes a result and runs handleResult on it; in master mode the *)
(* result comes as an AcknowledgeJob call.                                   *)
HandleResult ==
    /\ phase = "running" /\ resultCh # <<>>
    /\ resultCh' = Tail(resultCh)
    /\ LET r == Head(resultCh)
           j == r.job
       IN \/ /\ ~ Known(jm, j)
             /\ UNCHANGED <<jm, wal>>
          \/ /\ Known(jm, j) /\ r.ok
             /\ wal' \in Logs("ACK", <<j>>)
             /\ jm' = IF ~ Refuses /\ CanFinish(jm, j) THEN MarkCompleted(jm, j) ELSE jm
          \/ /\ Known(jm, j) /\ ~ r.ok
             /\ wal' \in Logs(IF jm.attempt[j] + 1 >= MaxRetry THEN "DEAD" ELSE "RETRY", <<j>>)
             /\ jm' = IF Refuses THEN BumpAttempt(jm, j) ELSE Failed(jm, j)
    /\ UNCHANGED <<phase, pos, saver, snap, diskDown, writer, disp, client, taskCh, running, used>>

(* The AcknowledgeJob call of a remote pool is lost; ackLoop does not retry. *)
AckLost ==
    /\ Remote /\ resultCh # <<>>
    /\ resultCh' = Tail(resultCh)
    /\ UNCHANGED <<phase, memory, disk, disp, client, taskCh, running, used>>

(* timeoutLoop: the deadline of j has passed.  The tick handles every        *)
(* expired job under c.mu, each as one step here.                            *)
Timeout(j) ==
    /\ phase = "running" /\ j \in jm.inFlight /\ ~ Refuses /\ used.expired < MaxExpire
    /\ used' = [used EXCEPT !.expired = @ + 1]
    /\ wal' \in Logs("TIMEOUT", <<j>>)
    /\ jm' = Failed(jm, j)
    /\ UNCHANGED <<phase, pos, saver, snap, diskDown, writer, disp, client, pool>>

(* An append that is refused leaves the job to the next tick, and perhaps an *)
(* event in the log: here at most one for each time that fsync failed.       *)
TimeoutUnsynced(j) ==
    /\ KeepWAL /\ phase = "running" /\ j \in jm.inFlight
    /\ diskDown /\ used.unsynced < used.diskErr
    /\ used' = [used EXCEPT !.unsynced = @ + 1]
    /\ wal' \in Logs("TIMEOUT", <<j>>)
    /\ UNCHANGED <<phase, memory, snap, diskDown, writer, disp, client, pool>>

-----------------------------------------------------------------------------
(* takeSnapshot: copy under c.mu, write the file, start a new log.  A failed *)
(* write ends the call.                                                      *)
SnapCopy ==
    /\ phase = "running" /\ saver.pc = "idle" /\ used.snap < MaxSnap
    /\ saver' = [pc |-> "write", data |-> Snapshot(jm)]
    /\ used' = [used EXCEPT !.snap = @ + 1]
    /\ UNCHANGED <<phase, jm, pos, disk, disp, client, pool>>

SnapWrite ==
    /\ phase = "running" /\ saver.pc = "write"
    /\ IF diskDown THEN saver' = IdleSaver /\ UNCHANGED snap
       ELSE saver' = [saver EXCEPT !.pc = "rotate"] /\ snap' = saver.data
    /\ UNCHANGED <<phase, jm, pos, wal, diskDown, writer, disp, client, pool, used>>

(* WAL.Rotate, without c.mu, stops the batch writer ... *)
SnapRotate ==
    /\ phase = "running" /\ saver.pc = "rotate" /\ writer # "rotating"
    /\ IF writer = "closed" THEN saver' = IdleSaver /\ UNCHANGED writer
       ELSE writer' = "rotating" /\ UNCHANGED saver
    /\ UNCHANGED <<phase, jm, pos, wal, snap, diskDown, disp, client, pool, used>>

(* ... and starts another one on an empty file.  An error on the way leaves  *)
(* the WAL closed, its file still there or already renamed.                  *)
RotateEnds ==
    /\ phase = "running" /\ writer = "rotating"
    /\ \/ wal' = <<>> /\ writer' = "on"
       \/ diskDown /\ wal' \in {wal, <<>>} /\ writer' = "closed"
    /\ saver' = IdleSaver
    /\ UNCHANGED <<phase, jm, pos, snap, diskDown, disp, client, pool, used>>

-----------------------------------------------------------------------------
(* fsync starts, and stops, failing. *)
DiskFails ==
    /\ phase = "running" /\ ~ diskDown /\ used.diskErr < MaxDiskErr
    /\ diskDown' = TRUE
    /\ used' = [used EXCEPT !.diskErr = @ + 1]
    /\ UNCHANGED <<phase, memory, wal, snap, writer, disp, client, pool>>

DiskRecovers ==
    /\ diskDown
    /\ diskDown' = FALSE
    /\ UNCHANGED <<phase, memory, wal, snap, writer, disp, client, pool, used>>

(* A write to the log fails: its encoder keeps the error and fails every     *)
(* later write, until a rotation or a restart makes another encoder.         *)
WriterJams ==
    /\ phase = "running" /\ writer = "on" /\ used.jam < MaxJam
    /\ writer' = "jammed"
    /\ used' = [used EXCEPT !.jam = @ + 1]
    /\ UNCHANGED <<phase, memory, wal, snap, diskDown, disp, client, pool>>

(* The process dies.  A caller whose EnqueueJobs had not returned calls      *)
(* again after the restart.                                                  *)
Crash ==
    /\ phase \in {"replay", "running"} /\ used.crash < MaxCrash
    /\ phase' = "down"
    /\ jm' = NewJobManager /\ pos' = 1 /\ saver' = IdleSaver
    /\ client' = [c \in Client |->
                    IF client[c].pc \in {"log", "add"} THEN NewCall ELSE client[c]]
    /\ IF Remote THEN UNCHANGED <<disp, pool>> ELSE EmptyPool
    /\ used' = [used EXCEPT !.crash = @ + 1]
    /\ writer' = "on"
    /\ UNCHANGED <<wal, snap, diskDown>>

(* Start: loadSnapshot, ... *)
LoadSnapshot ==
    /\ phase = "down"
    /\ phase' = "replay"
    /\ jm' \in Restore(snap)
    /\ pos' = 1
    /\ UNCHANGED <<saver, disk, disp, client, pool, used>>

(* ... the handler of replayWAL on one event after the other: when it        *)
(* returns an error ...                                                      *)
ReplayFails(m, e) ==
    CASE e.type = "ENQUEUE"  -> FALSE
      [] e.type = "DISPATCH" -> e.job \notin m.completed \cup m.dead /\ ~ CanMarkInFlight(m, e.job)
      [] e.type = "ACK"      -> e.job \notin m.completed /\ ~ CanFinish(m, e.job)
      [] e.type \in {"RETRY", "TIMEOUT"} -> ~ CanFinish(m, e.job)
      [] e.type = "DEAD"     -> ~ CanMarkDead(m, e.job)

(* ... and what it does otherwise; ... *)
Replayed(m, e) ==
    CASE e.type = "ENQUEUE"  -> m
      [] e.type = "DISPATCH" -> IF e.job \in m.completed \cup m.dead THEN m
                                ELSE MarkInFlight(m, {e.job})
      [] e.type = "ACK"      -> IF e.job \in m.completed THEN m ELSE MarkCompleted(m, e.job)
      [] e.type \in {"RETRY", "TIMEOUT"} -> Requeue(m, e.job)
      [] e.type = "DEAD"     -> MarkDead(m, e.job)

ReplayEvent ==
    /\ phase = "replay" /\ pos <= Len(wal)
    /\ IF ReplayFails(jm, wal[pos])
       THEN phase' = "failed" /\ UNCHANGED <<jm, pos>>
       ELSE /\ jm' = Replayed(jm, wal[pos])
            /\ pos' = pos + 1
            /\ UNCHANGED phase
    /\ UNCHANGED <<saver, disk, disp, client, pool, used>>

(* ... then every job in flight is requeued and the loops start. *)
StartLoops ==
    /\ phase = "replay" /\ pos > Len(wal)
    /\ jm' \in RequeueInFlight(jm)
    /\ phase' = "running"
    /\ UNCHANGED <<pos, saver, disk, disp, client, pool, used>>

-----------------------------------------------------------------------------
(* The states the system may rest in for ever: Start returned an error, the  *)
(* WAL refuses every event, or nothing is left to do.                        *)
AtRest ==
    \/ phase = "failed"
    \/ phase = "running" /\ writer \in {"jammed", "closed"}
    \/ /\ phase = "running" /\ ~ diskDown
       /\ \A j \in Job : jm.status[j] \notin Live
       /\ \A c \in Client : client[c].pc \in {"accepted", "refused"}
       /\ taskCh = <<>> /\ resultCh = <<>> /\ \A w \in Worker : running[w] = NoJob

Rest == AtRest /\ UNCHANGED vars

Next ==
    \/ \E c \in Client : EnqueueLog(c) \/ EnqueueAdd(c)
    \/ \E d \in Dispatcher : \/ PopBatch(d)
                             \/ LogDispatch(d)
                             \/ MarkBatch(d)
                             \/ SubmitTask(d)
                             \/ Poll(d)
    \/ \E w \in Worker : WorkerTake(w) \/ WorkerFinish(w)
    \/ HandleResult \/ AckLost
    \/ \E j \in Job : Timeout(j) \/ TimeoutUnsynced(j)
    \/ SnapCopy \/ SnapWrite \/ SnapRotate \/ RotateEnds
    \/ DiskFails \/ DiskRecovers \/ WriterJams
    \/ Crash \/ LoadSnapshot \/ ReplayEvent \/ StartLoops
    \/ Rest

Spec == Init /\ [][Next]_vars

(* The loops keep running: each goroutine that can take a step takes it, an  *)
(* execution ends (it runs under a context with a timeout), a deadline that  *)
(* is not met passes and the ticker fires, and the disk accepts writes again *)
(* after it refused some.  Calls to EnqueueJobs, crashes and disk errors     *)
(* need not happen.                                                          *)
Fairness ==
    /\ \A c \in Client : WF_vars(EnqueueAdd(c))
    /\ \A d \in Dispatcher :
         /\ WF_vars(PopBatch(d)) /\ WF_vars(LogDispatch(d))
         /\ WF_vars(MarkBatch(d)) /\ WF_vars(SubmitTask(d)) /\ WF_vars(Poll(d))
    /\ \A w \in Worker : WF_vars(WorkerTake(w)) /\ WF_vars(WorkerFinish(w))
    /\ WF_vars(HandleResult)
    /\ \A j \in Job : WF_vars(Timeout(j))
    /\ WF_vars(DiskRecovers)
    /\ WF_vars(LoadSnapshot) /\ WF_vars(ReplayEvent) /\ WF_vars(StartLoops)

FairSpec == Spec /\ Fairness
=============================================================================
