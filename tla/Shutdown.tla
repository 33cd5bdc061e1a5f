------------------------------ MODULE Shutdown ------------------------------
(***************************************************************************)
(* Controller.Stop and Pool.Stop, against everything the controller does:  *)
(* the loops, the workers and the callers of EnqueueJobs go on while Stop  *)
(* closes the channels under them, takes the final snapshot and closes the *)
(* log; then the process ends and is started again.                        *)
(*                                                                         *)
(* The steps are those of Controller; here the loops also look at stopCh,  *)
(* and the check of stopCh, the pop, the checks of Submit and its select   *)
(* are apart, so that Stop can come in between.  In master mode the gRPC   *)
(* server is never stopped: Poll and AcknowledgeJob go on until the        *)
(* process ends, while Stop stops a local pool that has nothing to do.     *)
(***************************************************************************)
EXTENDS ControllerProperties

VARIABLES
    stop,       \* the step Stop is at, or how the process ended
    ended,      \* the loops that have returned
    looked,     \* dispatchers that found stopCh open and have not popped yet
    sending,    \* dispatchers past the checks of Submit, at its select
    before,     \* the jobs the manager knew when Stop was called
    finalErr    \* the takeSnapshot of Stop returned an error

stopVars == <<stop, ended, looked, sending, before, finalErr>>

(* In master mode dispatchLoop is off, and resultLoop waits for the local    *)
(* pool, which has no results.                                               *)
Loops == {"timeout", "snapshot"} \cup (IF Remote THEN {} ELSE {"result"} \cup Dispatcher)

StopStep == <<"no", "signalled", "poolStopped", "tasksClosed", "poolDone",
              "final", "saving", "done", "exited", "panicked", "killed">>
At(s)      == CHOOSE i \in DOMAIN StopStep : StopStep[i] = s
Reached(s) == At(stop) >= At(s)
Goes(from, to) == phase = "running" /\ stop = from /\ stop' = to

InitStop ==
    /\ Init
    /\ stop = "no" /\ ended = {} /\ looked = {} /\ sending = {} /\ before = {} /\ finalErr = FALSE

-----------------------------------------------------------------------------
(* dispatchLoop looks at stopCh, ... *)
LookAtStop(d) ==
    /\ ~ Remote /\ phase = "running" /\ stop = "no" /\ disp[d].pc = "pop" /\ d \notin looked
    /\ looked' = looked \cup {d}
    /\ UNCHANGED <<vars, stop, ended, sending, before, finalErr>>

(* ... then waits for c.mu and pops, also when Stop has closed stopCh since. *)
PopAfterLook(d) ==
    /\ d \in looked
    /\ PopBatch(d) \/ (phase = "running" /\ jm.queue = <<>> /\ UNCHANGED vars)
    /\ looked' = looked \ {d}
    /\ UNCHANGED <<stop, ended, sending, before, finalErr>>

(* The loops return: dispatchLoop when it looks at stopCh, resultLoop when   *)
(* the pool's stopCh is closed, the other two at their select.               *)
LoopEnds(l) ==
    /\ phase = "running" /\ Reached("signalled") /\ l \notin ended
    /\ l \in Dispatcher => disp[l].pc = "pop" /\ l \notin looked
    /\ l = "result" => Reached("poolStopped")
    /\ l = "snapshot" => saver.pc = "idle"
    /\ ended' = ended \cup {l}
    /\ UNCHANGED <<vars, stop, looked, sending, before, finalErr>>

(* Submit looks at p.stopped under p.mu, ... *)
SubmitCheck(d) ==
    /\ ~ Remote /\ phase = "running" /\ disp[d].pc = "submit" /\ d \notin sending
    /\ IF Reached("poolStopped") THEN Advance(d, "pop") /\ UNCHANGED sending
       ELSE sending' = sending \cup {d} /\ UNCHANGED disp
    /\ UNCHANGED <<phase, memory, disk, client, pool, used, stop, ended, looked, before, finalErr>>

(* ... then, without it, sends the task, or finds stopCh closed, ... *)
SubmitSend(d) ==
    /\ d \in sending /\ ~ Reached("tasksClosed")
    /\ SubmitTask(d)
    /\ sending' = sending \ {d}
    /\ UNCHANGED <<stop, ended, looked, before, finalErr>>

SubmitRefused(d) ==
    /\ d \in sending /\ Reached("poolStopped")
    /\ Advance(d, "pop")
    /\ sending' = sending \ {d}
    /\ UNCHANGED <<phase, memory, disk, client, pool, used, stop, ended, looked, before, finalErr>>

(* ... or sends on the closed taskCh, which ends the process: select chooses *)
(* among the ready cases at random, and a send on a closed channel is ready. *)
(* Of the process that follows one that Stop was called in, only the start   *)
(* and the calls of others are followed.                                     *)
Dies(s) == Crash /\ stop' = s /\ ended' = Loops /\ looked' = {} /\ sending' = {}

SubmitPanics(d) ==
    d \in sending /\ Reached("tasksClosed") /\ Dies("panicked") /\ UNCHANGED <<before, finalErr>>

(* A crash before Stop has returned.  (One before it is called is as good as *)
(* one right after.)                                                         *)
Killed ==
    stop # "no" /\ ~ Reached("done") /\ Dies("killed") /\ UNCHANGED <<before, finalErr>>

-----------------------------------------------------------------------------
(* Stop: close c.stopCh (in master mode Pool.Stop has no task, no result and *)
(* no caller of Submit to deal with, and is left out), ...                   *)
StopCalled ==
    /\ Goes("no", IF Remote THEN "poolDone" ELSE "signalled")
    /\ before' = {j \in Job : Known(jm, j)}
    /\ UNCHANGED <<vars, ended, looked, sending, finalErr>>

(* Fault: Stop waits for the loops before it stops the pool. *)
PoolStopLate ==
    /\ ended = Loops /\ Goes("signalled", "poolStopped")
    /\ UNCHANGED <<vars, ended, looked, sending, before, finalErr>>

(* ... Pool.Stop: set p.stopped and close p.stopCh, ... *)
PoolStop ==
    /\ Goes("signalled", "poolStopped")
    /\ UNCHANGED <<vars, ended, looked, sending, before, finalErr>>

(* ... close taskCh, ... *)
CloseTasks ==
    /\ Goes("poolStopped", "tasksClosed")
    /\ UNCHANGED <<vars, ended, looked, sending, before, finalErr>>

(* ... wait for the workers, which first run what taskCh holds, ... *)
PoolWait ==
    /\ Goes("tasksClosed", "poolDone")
    /\ taskCh = <<>> /\ \A w \in Worker : running[w] = NoJob
    /\ UNCHANGED <<vars, ended, looked, sending, before, finalErr>>

(* Fault: loopWg is not waited for. *)
LoopNoWait ==
    /\ Goes("poolDone", "final")
    /\ UNCHANGED <<vars, ended, looked, sending, before, finalErr>>

(* ... wait for the loops, ... *)
LoopWait ==
    /\ Goes("poolDone", "final")
    /\ ended = Loops
    /\ UNCHANGED <<vars, ended, looked, sending, before, finalErr>>

(* Fault: no final snapshot. *)
NoFinalCopy ==
    /\ Goes("final", "saving") /\ saver.pc = "idle"
    /\ UNCHANGED <<vars, ended, looked, sending, before, finalErr>>

(* ... take the final snapshot (its writing and the rotation are the steps   *)
(* of takeSnapshot in Controller; an error is only printed), ...             *)
FinalCopy ==
    /\ Goes("final", "saving") /\ saver.pc = "idle"
    /\ saver' = [pc |-> "write", data |-> Snapshot(jm)]
    /\ UNCHANGED <<phase, jm, pos, disk, disp, client, pool, used,
                   ended, looked, sending, before, finalErr>>

Saver == SnapWrite \/ SnapRotate \/ RotateEnds

SaverGivesUp == saver'.pc = "idle" /\ (saver.pc = "write" \/ writer' = "closed")

SaverGoesOn ==
    /\ Saver
    /\ finalErr' = (finalErr \/ (stop = "saving" /\ SaverGivesUp))
    /\ UNCHANGED <<stop, ended, looked, sending, before>>

(* ... and close the log, also after an error. *)
CloseWAL ==
    /\ Goes("saving", "done") /\ saver.pc = "idle"
    /\ writer' = "closed"
    /\ UNCHANGED <<phase, memory, wal, snap, diskDown, disp, client, pool, used,
                   ended, looked, sending, before, finalErr>>

(* runControllerNode returns and the process ends, as suddenly as in a crash *)
(* for a caller of EnqueueJobs, or of the gRPC server.                       *)
Exit == Crash /\ Goes("done", "exited") /\ UNCHANGED <<ended, looked, sending, before, finalErr>>

-----------------------------------------------------------------------------
Stopper == PoolStop \/ CloseTasks \/ PoolWait \/ LoopWait \/ FinalCopy \/ CloseWAL \/ Exit

(* What goes on as in Controller while Stop runs: callers, batches under     *)
(* way, workers, the disk, the start of the next process, ...                *)
Unaware ==
    \/ \E c \in Client : EnqueueLog(c) \/ EnqueueAdd(c)
    \/ \E d \in Dispatcher : LogDispatch(d) \/ MarkBatch(d)
    \/ \E w \in Worker : WorkerTake(w) \/ WorkerFinish(w)
    \/ DiskFails \/ DiskRecovers \/ WriterJams
    \/ LoadSnapshot \/ ReplayEvent \/ StartLoops

(* ... in master mode the remote pools and the handlers of their calls, ...  *)
Serving ==
    /\ Remote
    /\ \/ \E d \in Dispatcher : Poll(d) \/ SubmitTask(d)
       \/ HandleResult \/ AckLost

(* ... and what a loop does only as long as it runs. *)
Looping ==
    \/ ~ Remote /\ "result" \notin ended /\ HandleResult
    \/ "timeout" \notin ended /\ \E j \in Job : Timeout(j) \/ TimeoutUnsynced(j)
    \/ "snapshot" \notin ended /\ SnapCopy

NextStop ==
    \/ (Unaware \/ Serving \/ Looping) /\ UNCHANGED stopVars
    \/ SaverGoesOn \/ StopCalled \/ Stopper \/ Killed
    \/ \E l \in Loops : LoopEnds(l)
    \/ \E d \in Dispatcher : \/ LookAtStop(d)
                             \/ PopAfterLook(d)
                             \/ SubmitCheck(d)
                             \/ SubmitSend(d)
                             \/ SubmitRefused(d)
                             \/ SubmitPanics(d)

allVars == <<vars, stopVars>>

(* Every goroutine that can take a step takes one, select is fair to stopCh, *)
(* and an execution ends.                                                    *)
StopFairness ==
    /\ WF_allVars(Stopper) /\ WF_allVars(SaverGoesOn)
    /\ \A l \in Loops : WF_allVars(LoopEnds(l))
    /\ \A w \in Worker : WF_allVars((WorkerTake(w) \/ WorkerFinish(w)) /\ UNCHANGED stopVars)
    /\ \A d \in Dispatcher :
         /\ WF_allVars(PopAfterLook(d))
         /\ WF_allVars((LogDispatch(d) \/ MarkBatch(d)) /\ UNCHANGED stopVars)
         /\ WF_allVars(SubmitCheck(d) \/ SubmitSend(d) \/ SubmitRefused(d) \/ SubmitPanics(d))

SpecStop == InitStop /\ [][NextStop]_allVars /\ StopFairness

-----------------------------------------------------------------------------
(* Stop returns, or the process died, although dispatchers may be blocked in *)
(* Submit or about to pop one more batch, workers in a task and resultLoop   *)
(* in a select: each is woken by a channel Stop closes before it waits.      *)
StopReturns == stop = "signalled" ~> Reached("done")

(* In local mode the final snapshot, if it was written, is the last word: it *)
(* has every job the manager knew when Stop was called, and nothing changes  *)
(* a job it has after it was copied, because every loop had ended; only      *)
(* callers of EnqueueJobs go on.                                             *)
FinalSnapshotIsFinal ==
    ~ Remote /\ stop = "done" /\ ~ finalErr =>
      /\ \A j \in before : Known(snap, j)
      /\ \A j \in Job : Known(snap, j) => jm.status[j] = snap.status[j]

(* In local mode, after a Stop that returned and printed no error of its     *)
(* snapshot, the next Start succeeds, unlike after a crash: no event that    *)
(* replay looks at was logged after the copy.                                *)
CleanRestart == ~ Remote /\ stop = "exited" /\ ~ finalErr => phase # "failed"

(* In both modes a job the manager knew when Stop was called is known to the *)
(* next process, if that one starts and the final snapshot was written: what *)
(* polls and acknowledgements change after the copy comes on top of it.      *)
StoppedJobsSurvive ==
    stop = "exited" /\ ~ finalErr /\ phase = "running" => \A j \in before : Known(jm, j)

(* Submit "safely returns ErrPoolClosed" even when Stop closes taskCh under  *)
(* it, says its comment: the process does not panic.                         *)
SubmitNeverPanics == stop # "panicked"

(* A job whose EnqueueJobs returned nil while Stop was running is known      *)
(* after the next start.                                                     *)
LateJobsSurvive == stop = "exited" /\ phase = "running" => \A j \in Accepted : Known(jm, j)

(* Stop waits for the loops to "ensure no goroutines access resources        *)
(* anymore", says its comment: from then on no job changes.                  *)
NoAccessAfterLoops ==
    [][phase' = "running" /\ stop \in {"final", "saving", "done"} => jm' = jm]_allVars
=============================================================================
