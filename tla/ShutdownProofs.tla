--------------------------- MODULE ShutdownProofs ---------------------------
(* What a Stop that returned leaves behind, for any number of jobs, callers, *)
(* dispatchers and workers, in local and in master mode, with disk errors,   *)
(* and wherever Stop comes in between the steps of the others.               *)
EXTENDS Shutdown, ControllerProofs

OnlyEnqueues == \A i \in DOMAIN wal : wal[i].type = "ENQUEUE"

(* The jobs known when Stop was called are in a snapshot d, and nothing d    *)
(* knows has changed since.                                                  *)
HoldsBefore(d) == \A j \in before : Known(d, j)
Frozen(d)      == \A j \in Job : Known(d, j) => jm.status[j] = d.status[j]

(* Stop has been called, and has not returned. *)
Stopping == stop \in {"signalled", "poolStopped", "tasksClosed", "poolDone", "final", "saving", "done"}

(* Only a rotation of the log leaves it without a batch writer for a while. *)
Rotating == writer = "rotating" => saver.pc = "rotate"

(* What the loops are bound to by then. *)
Bound ==
    /\ stop \in {StopStep[i] : i \in DOMAIN StopStep}
    /\ finalErr \in BOOLEAN
    /\ ended \subseteq Loops /\ (stop = "no" => ended = {})
    /\ stop \in {"final", "saving", "done", "exited", "panicked", "killed"} => ended = Loops
    /\ \A d \in Dispatcher : ~ Remote /\ d \in ended => disp[d].pc = "pop" /\ d \notin looked
    /\ \A d \in looked : d \in Dispatcher /\ ~ Remote /\ disp[d].pc = "pop"
    /\ \A d \in sending : d \in Dispatcher /\ ~ Remote /\ disp[d].pc = "submit"
    /\ "snapshot" \in ended /\ stop # "saving" => saver.pc = "idle"
    /\ Stopping => phase = "running"

KnownBefore ==
    /\ before \subseteq Job
    /\ Stopping => \A j \in before : Known(jm, j)

(* From the final copy on, the state on its way to the disk, and then the    *)
(* snapshot, has every job of before; in local mode it is the last word, and *)
(* the log after it has no more to say.                                      *)
LastWord ==
    /\ stop = "saving" /\ saver.pc # "idle" =>
          HoldsBefore(saver.data) /\ (~ Remote => Frozen(saver.data))
    /\ stop = "saving" /\ saver.pc = "rotate" => snap = saver.data
    /\ ~ finalErr /\ ((stop = "saving" /\ saver.pc = "idle") \/ stop = "done") =>
          HoldsBefore(snap) /\ (~ Remote => Frozen(snap) /\ OnlyEnqueues)
    /\ ~ finalErr /\ stop = "exited" =>
          HoldsBefore(snap) /\ (~ Remote => OnlyEnqueues /\ phase # "failed")

SInv == Rotating /\ Bound /\ KnownBefore /\ LastWord

-----------------------------------------------------------------------------
(* What Stop takes part in is a step of the controller, or one of these.     *)
LEMMA StopSteps ==
    ASSUME NextStop
    PROVE  \/ Next
           \/ UNCHANGED vars
           \/ \E d \in Dispatcher : SubmitCheck(d) \/ SubmitRefused(d)
           \/ FinalCopy \/ CloseWAL
  <1>1. CASE (Unaware \/ Serving \/ Looping) /\ UNCHANGED stopVars
    BY <1>1 DEF Unaware, Serving, Looping, Next
  <1>2. CASE StopCalled \/ Stopper \/ SaverGoesOn \/ Killed
    BY <1>2 DEF StopCalled, Stopper, PoolStop, CloseTasks, PoolWait, LoopWait, Exit, Next,
                SaverGoesOn, Saver, Killed, Dies
  <1>3. ASSUME NEW l \in Loops, LoopEnds(l) PROVE UNCHANGED vars
    BY <1>3 DEF LoopEnds
  <1>4. ASSUME NEW d \in Dispatcher,
               LookAtStop(d) \/ PopAfterLook(d) \/ SubmitSend(d) \/ SubmitPanics(d)
        PROVE  Next \/ UNCHANGED vars
    BY <1>4 DEF LookAtStop, PopAfterLook, SubmitSend, SubmitPanics, Dies, Next
  <1> QED BY <1>1, <1>2, <1>3, <1>4 DEF NextStop

LEMMA StopInv ==
    ASSUME IInv, Bound, NextStop PROVE IInv'
  <1>1. ASSUME NEW d \in Dispatcher, disp[d].pc = "submit", Advance(d, "pop"),
               UNCHANGED <<phase, memory, disk, client, pool, used>>
        PROVE  IInv'
    <2>1. /\ disp' \in [Dispatcher -> DispState] /\ InBatch'
          /\ \A e \in Dispatcher \ {d} : disp'[e] = disp[e]
      BY <1>1, AdvanceType DEF IInv, TypeOK, DispStep
    <2>2. Claimed \subseteq Claimed'
      BY <1>1, <2>1, ClaimedUnchanged
    <2>3. Sound(jm', Claimed')
      BY <1>1, <2>2, SoundMonotone DEF IInv, memory
    <2>4. TypeOK'
      BY <1>1, <2>1 DEF IInv, TypeOK, memory, disk, pool
    <2> QED BY <1>1, <2>1, <2>3, <2>4 DEF IInv, SnapIsPast, SaverIsPast, memory, disk
  <1>2. ASSUME NEW d \in Dispatcher, SubmitCheck(d) PROVE IInv'
    <2>1. CASE Advance(d, "pop")
      BY <1>1, <1>2, <2>1 DEF SubmitCheck
    <2>2. CASE UNCHANGED disp
      <3>1. UNCHANGED vars
        BY <1>2, <2>2 DEF SubmitCheck, vars
      <3> QED BY <3>1, StepInv
    <2> QED BY <1>2, <2>1, <2>2 DEF SubmitCheck
  <1>3. ASSUME NEW d \in Dispatcher, SubmitRefused(d) PROVE IInv'
    BY <1>1, <1>3 DEF SubmitRefused, Bound
  <1>4. CASE FinalCopy
    <2>1. /\ phase = "running" /\ saver' = [pc |-> "write", data |-> Snapshot(jm)]
          /\ UNCHANGED <<phase, jm, pos, disk, disp, client, pool, used>>
      BY <1>4 DEF FinalCopy, Goes
    <2>2. Snapshot(jm) \in SnapshotData /\ Later(Snapshot(jm), jm)
      BY SnapshotLater DEF IInv, TypeOK
    <2>3. saver' \in SaverState /\ saver'.data = Snapshot(jm)
      BY <2>1, <2>2 DEF SaverState
    <2>4. TypeOK'
      BY <2>1, <2>3 DEF IInv, TypeOK, disk, pool
    <2> QED BY <2>1, <2>2, <2>3, <2>4
            DEF IInv, InBatch, Claimed, SnapIsPast, SaverIsPast, disk
  <1>5. CASE CloseWAL
    <2>1. writer' = "closed"
          /\ UNCHANGED <<phase, memory, wal, snap, diskDown, disp, client, pool, used>>
      BY <1>5 DEF CloseWAL, Goes
    <2> QED BY <2>1 DEF IInv, TypeOK, InBatch, Claimed, SnapIsPast, SaverIsPast, memory, pool
  <1> QED BY <1>2, <1>3, <1>4, <1>5, StepInv, StopSteps

(* How far Stop is. *)
LEMMA Signalled == Reached("signalled") => stop # "no"
  <1>1. /\ DOMAIN StopStep = 1 .. 11 /\ StopStep[1] = "no" /\ StopStep[2] = "signalled"
        /\ \A i \in 1 .. 11 : /\ StopStep[i] = "no" => i = 1
                              /\ StopStep[i] = "signalled" => i = 2
    BY DEF StopStep
  <1>2. At("no") = 1
    BY <1>1 DEF At
  <1>3. At("signalled") = 2
    BY <1>1 DEF At
  <1> QED BY <1>2, <1>3 DEF Reached

LEMMA StopNames ==
    /\ \A s \in {"no", "signalled", "poolStopped", "tasksClosed", "poolDone", "final", "saving",
                 "done", "exited", "panicked", "killed"} : s \in {StopStep[i] : i \in DOMAIN StopStep}
    /\ {StopStep[i] : i \in DOMAIN StopStep} \subseteq
          {"no", "signalled", "poolStopped", "tasksClosed", "poolDone", "final", "saving", "done",
           "exited", "panicked", "killed"}
  <1>1. /\ DOMAIN StopStep = 1 .. 11
        /\ StopStep[1] = "no" /\ StopStep[2] = "signalled" /\ StopStep[3] = "poolStopped"
        /\ StopStep[4] = "tasksClosed" /\ StopStep[5] = "poolDone" /\ StopStep[6] = "final"
        /\ StopStep[7] = "saving" /\ StopStep[8] = "done" /\ StopStep[9] = "exited"
        /\ StopStep[10] = "panicked" /\ StopStep[11] = "killed"
    BY DEF StopStep
  <1> HIDE DEF StopStep
  <1>2. \A i \in DOMAIN StopStep : i = 1 \/ i = 2 \/ i = 3 \/ i = 4 \/ i = 5 \/ i = 6 \/ i = 7
                                  \/ i = 8 \/ i = 9 \/ i = 10 \/ i = 11
    BY <1>1
  <1> QED BY <1>1, <1>2

(* What goes on beside Stop, as in Controller: none of it is a step of Stop, *)
(* of a snapshot being taken, or of a dispatcher looking at a channel.       *)
Others == (Unaware \/ Serving \/ Looping) /\ UNCHANGED stopVars

LEMMA OthersLeave ==
    ASSUME Others
    PROVE  /\ UNCHANGED <<stop, ended, looked, sending, before, finalErr>>
           /\ phase = "running" => phase' = "running"
           /\ SnapCopy \/ UNCHANGED <<saver, snap>>
           /\ writer' = writer \/ writer' = "jammed"
  <1>1. UNCHANGED <<stop, ended, looked, sending, before, finalErr>>
    BY DEF Others, stopVars
  <1>2. CASE Unaware
    BY <1>1, <1>2 DEF Unaware, EnqueueLog, EnqueueAdd, LogDispatch, MarkBatch, WorkerTake,
            WorkerFinish, DiskFails, DiskRecovers, WriterJams, LoadSnapshot, ReplayEvent,
            StartLoops, memory, disk
  <1>3. CASE Serving
    BY <1>1, <1>3 DEF Serving, Poll, SubmitTask, HandleResult, AckLost, memory, disk
  <1>4. CASE Looping
    BY <1>1, <1>4 DEF Looping, HandleResult, Timeout, TimeoutUnsynced, SnapCopy, memory, disk
  <1> QED BY <1>1, <1>2, <1>3, <1>4 DEF Others

(* A rotation is always that of the snapshot under way. *)
LEMMA RotatingKept ==
    ASSUME Rotating, NextStop PROVE Rotating'
  <1> USE DEF Rotating
  <1>1. CASE Others
    BY <1>1, OthersLeave DEF SnapCopy, disk
  <1>2. CASE SaverGoesOn
    BY <1>2 DEF SaverGoesOn, Saver, SnapWrite, SnapRotate, RotateEnds, IdleSaver
  <1>3. ASSUME Crash PROVE Rotating'
    BY <1>3 DEF Crash
  <1>4. CASE StopCalled \/ PoolStop \/ CloseTasks \/ PoolWait \/ LoopWait
    BY <1>4 DEF StopCalled, PoolStop, CloseTasks, PoolWait, LoopWait, vars, memory, disk
  <1>5. CASE FinalCopy \/ CloseWAL
    BY <1>5 DEF FinalCopy, CloseWAL, memory, disk
  <1>6. ASSUME NEW l \in Loops, LoopEnds(l) PROVE Rotating'
    BY <1>6 DEF LoopEnds, vars, memory, disk
  <1>7. ASSUME NEW d \in Dispatcher,
               \/ LookAtStop(d) \/ PopAfterLook(d)
               \/ SubmitCheck(d) \/ SubmitSend(d) \/ SubmitRefused(d)
        PROVE  Rotating'
    BY <1>7 DEF LookAtStop, PopAfterLook, PopBatch, SubmitCheck, SubmitSend, SubmitTask,
                SubmitRefused, vars, memory, disk
  <1> QED BY <1>1, <1>2, <1>3, <1>4, <1>5, <1>6, <1>7
          DEF NextStop, Others, Stopper, Exit, Killed, SubmitPanics, Dies

(* A dispatcher that found stopCh closed is at the top of its loop, and      *)
(* stays there.                                                              *)
LEMMA OthersBound ==
    ASSUME IInv, Bound, Others PROVE Bound'
  <1> USE DEF Bound
  <1>0. disp \in [Dispatcher -> DispState] /\ InBatch
    BY DEF IInv, TypeOK
  <1>1. /\ UNCHANGED <<stop, ended, looked, sending, finalErr>>
        /\ phase = "running" => phase' = "running"
        /\ SnapCopy \/ UNCHANGED <<saver, snap>>
    BY OthersLeave
  <1>2. ASSUME NEW d \in Dispatcher, ~ Remote
        PROVE  /\ disp[d].pc = "pop" => disp'[d].pc = "pop"
               /\ disp[d].pc = "submit" => disp'[d].pc = "submit"
    <2>1. CASE UNCHANGED disp
      BY <2>1
    <2>2. ASSUME NEW e \in Dispatcher, LogDispatch(e)
          PROVE  /\ disp[d].pc = "pop" => disp'[d].pc = "pop"
                 /\ disp[d].pc = "submit" => disp'[d].pc = "submit"
      <3>1. disp[e].pc = "log" /\ Advance(e, "mark")
        BY <2>2 DEF LogDispatch
      <3>2. \A b \in Dispatcher \ {e} : disp'[b] = disp[b]
        BY <1>0, <3>1, AdvanceType DEF DispStep
      <3> QED BY <3>1, <3>2
    <2>3. ASSUME NEW e \in Dispatcher, MarkBatch(e)
          PROVE  /\ disp[d].pc = "pop" => disp'[d].pc = "pop"
                 /\ disp[d].pc = "submit" => disp'[d].pc = "submit"
      BY <1>0, <2>3 DEF MarkBatch
    <2> QED BY <1>2, <2>1, <2>2, <2>3
            DEF Others, Unaware, Serving, Looping, EnqueueLog, EnqueueAdd, WorkerTake,
                WorkerFinish, DiskFails, DiskRecovers, WriterJams, LoadSnapshot, ReplayEvent,
                StartLoops, HandleResult, Timeout, TimeoutUnsynced, SnapCopy
  <1>3. "snapshot" \in ended /\ stop # "saving" => saver'.pc = "idle"
    <2>1. "snapshot" \in ended => ~ SnapCopy \/ UNCHANGED <<saver, snap>>
      BY DEF Others, Looping, Unaware, Serving, EnqueueLog, EnqueueAdd, LogDispatch, MarkBatch,
             WorkerTake, WorkerFinish, DiskFails, DiskRecovers, WriterJams, LoadSnapshot,
             ReplayEvent, StartLoops, Poll, SubmitTask, HandleResult, AckLost, Timeout,
             TimeoutUnsynced, memory, disk
    <2> QED BY <1>1, <2>1
  <1> QED BY <1>1, <1>2, <1>3 DEF Stopping

LEMMA BoundStep ==
    ASSUME IInv, Rotating, Bound, NextStop PROVE Bound'
  <1> USE DEF Bound
  <1>0. disp \in [Dispatcher -> DispState] /\ InBatch
    BY DEF IInv, TypeOK
  <1>2. CASE StopCalled \/ PoolStop \/ CloseTasks \/ PoolWait \/ LoopWait
    <2>1. UNCHANGED <<phase, saver, disp, ended, looked, sending, finalErr>>
      BY <1>2 DEF StopCalled, PoolStop, CloseTasks, PoolWait, LoopWait, vars, memory
    <2>2. /\ stop' \in {"signalled", "poolStopped", "tasksClosed", "poolDone", "final"}
          /\ phase = "running" /\ (stop' = "final" => ended = Loops)
          /\ stop # "saving"
      BY <1>2 DEF StopCalled, PoolStop, CloseTasks, PoolWait, LoopWait, Goes
    <2> QED BY <2>1, <2>2, StopNames
  <1>3. CASE FinalCopy
    <2>1. UNCHANGED <<phase, disp, ended, looked, sending, finalErr>>
      BY <1>3 DEF FinalCopy
    <2>2. stop = "final" /\ stop' = "saving" /\ phase = "running"
      BY <1>3 DEF FinalCopy, Goes
    <2> QED BY <2>1, <2>2, StopNames
  <1>4. CASE CloseWAL
    <2>1. UNCHANGED <<phase, saver, disp, ended, looked, sending, finalErr>>
      BY <1>4 DEF CloseWAL, memory
    <2>2. stop = "saving" /\ stop' = "done" /\ phase = "running" /\ saver.pc = "idle"
      BY <1>4 DEF CloseWAL, Goes
    <2> QED BY <2>1, <2>2, StopNames
  <1>5. ASSUME Crash, stop' \in {"exited", "panicked", "killed"}, ended' = Loops, looked' = {},
               sending' = {}, UNCHANGED finalErr
        PROVE  Bound'
    <2>1. saver'.pc = "idle" /\ (~ Remote => \A d \in Dispatcher : disp'[d].pc = "pop")
      BY <1>5 DEF Crash, EmptyPool, IdleSaver, IdleDispatcher
    <2> QED BY <1>5, <2>1, StopNames DEF Stopping
  <1>6. CASE Exit
    <2>1. /\ stop = "done" /\ stop' = "exited" /\ ended = Loops
          /\ UNCHANGED <<ended, looked, sending, finalErr>>
      BY <1>6 DEF Exit, Goes
    <2>2. looked = {} /\ sending = {}
      BY <2>1 DEF Loops
    <2> QED BY <1>5, <1>6, <2>1, <2>2 DEF Exit
  <1>7. ASSUME NEW l \in Loops, LoopEnds(l) PROVE Bound'
    <2>1. /\ UNCHANGED <<phase, saver, disp, stop, looked, sending, finalErr>>
          /\ ended' = ended \cup {l}
          /\ stop # "no" /\ (l \in Dispatcher => disp[l].pc = "pop" /\ l \notin looked)
          /\ (l = "snapshot" => saver.pc = "idle")
      BY <1>7, Signalled DEF LoopEnds, vars, memory
    <2> QED BY <2>1 DEF Stopping
  <1>8. ASSUME NEW d \in Dispatcher, SubmitCheck(d) \/ SubmitSend(d) \/ SubmitRefused(d)
        PROVE  Bound'
    <2>1. UNCHANGED <<phase, saver, stop, ended, looked, finalErr>> /\ ~ Remote
      BY <1>8 DEF SubmitCheck, SubmitSend, SubmitTask, SubmitRefused, memory
    <2>2. /\ disp[d].pc = "submit"
          /\ \/ UNCHANGED disp /\ sending' = sending \cup {d}
             \/ Advance(d, "pop") /\ sending' = sending /\ d \notin sending
             \/ Advance(d, "pop") /\ sending' = sending \ {d}
      BY <1>8 DEF SubmitCheck, SubmitSend, SubmitTask, SubmitRefused
    <2>3. /\ \A e \in Dispatcher \ {d} : disp'[e] = disp[e]
          /\ disp'[d].pc = "submit" \/ (disp'[d].pc = "pop" /\ d \notin sending')
          /\ sending' \subseteq sending \cup {d}
      <3>1. ASSUME Advance(d, "pop")
            PROVE  /\ disp'[d].pc \in {"submit", "pop"}
                   /\ \A e \in Dispatcher \ {d} : disp'[e] = disp[e]
        BY <1>0, <2>2, <3>1, AdvanceType DEF DispStep
      <3> QED BY <2>2, <3>1
    <2>4. d \notin ended /\ d \notin looked
      BY <2>1, <2>2
    <2>5. \A e \in sending' : e \in Dispatcher /\ ~ Remote /\ disp'[e].pc = "submit"
      BY <2>1, <2>3
    <2>6. /\ \A e \in Dispatcher : e \in ended => disp'[e].pc = "pop" /\ e \notin looked
          /\ \A e \in looked : e \in Dispatcher /\ disp'[e].pc = "pop"
      BY <2>1, <2>3, <2>4
    <2> QED BY <2>1, <2>5, <2>6 DEF Stopping
  <1>9. ASSUME NEW d \in Dispatcher, LookAtStop(d) PROVE Bound'
    <2>1. /\ UNCHANGED <<phase, saver, disp, stop, ended, sending, finalErr>>
          /\ stop = "no" /\ ~ Remote /\ disp[d].pc = "pop" /\ looked' = looked \cup {d}
      BY <1>9 DEF LookAtStop, vars, memory
    <2> QED BY <2>1 DEF Stopping
  <1>10. ASSUME NEW d \in Dispatcher, PopAfterLook(d) PROVE Bound'
    <2>1. /\ UNCHANGED <<phase, saver, stop, ended, sending, finalErr>>
          /\ d \in looked /\ looked' = looked \ {d}
      BY <1>10 DEF PopAfterLook, PopBatch, vars, memory
    <2>2. \A e \in Dispatcher \ {d} : disp'[e] = disp[e]
      BY <1>0, <1>10 DEF PopAfterLook, PopBatch, vars
    <2>3. d \notin ended /\ d \notin sending /\ ~ Remote /\ disp[d].pc = "pop"
      BY <2>1
    <2> QED BY <2>1, <2>2, <2>3 DEF Stopping
  <1>11. CASE SaverGoesOn
    <2>1. /\ UNCHANGED <<phase, disp, stop, ended, looked, sending>>
          /\ finalErr' \in BOOLEAN /\ (saver.pc = "idle" => saver'.pc = "idle")
      BY <1>11 DEF SaverGoesOn, Saver, SnapWrite, SnapRotate, RotateEnds, IdleSaver, Rotating
    <2> QED BY <2>1 DEF Stopping
  <1>12. CASE Others
    BY <1>12, OthersBound
  <1> QED BY <1>2, <1>3, <1>4, <1>5, <1>6, <1>7, <1>8, <1>9, <1>10, <1>11, <1>12
          DEF NextStop, Others, Stopper, SubmitPanics, Killed, Dies

(* While the process lives, so does what it knows. *)
LEMMA StopLater ==
    ASSUME IInv, NextStop, phase # "down", phase' # "down" PROVE Later(jm, jm')
  <1>1. CASE Next
    BY <1>1, ManagerStep
  <1>2. CASE UNCHANGED vars \/ (\E d \in Dispatcher : SubmitCheck(d) \/ SubmitRefused(d))
             \/ FinalCopy \/ CloseWAL
    <2>1. UNCHANGED jm
      BY <1>2 DEF SubmitCheck, SubmitRefused, FinalCopy, CloseWAL, vars, memory
    <2> QED BY <2>1, LaterReflexive
  <1> QED BY <1>1, <1>2, StopSteps

LEMMA KnownBeforeStep ==
    ASSUME IInv, SInv, Bound', NextStop PROVE KnownBefore'
  <1>1. CASE StopCalled
    <2>1. before' = {j \in Job : Known(jm, j)} /\ UNCHANGED jm
      BY <1>1 DEF StopCalled, vars, memory
    <2> QED BY <2>1 DEF KnownBefore
  <1>2. CASE UNCHANGED before /\ (Stopping' => Stopping)
    <2>1. Stopping' => phase = "running" /\ phase' = "running"
      BY <1>2 DEF SInv, Bound
    <2>2. Stopping' => Later(jm, jm')
      BY <2>1, StopLater
    <2> QED BY <1>2, <2>2 DEF SInv, KnownBefore, Later
  <1>3. StopCalled \/ (UNCHANGED before /\ (Stopping' => Stopping))
    <2>1. CASE Others \/ SaverGoesOn
      BY <2>1, OthersLeave DEF SaverGoesOn, Stopping
    <2>2. CASE Stopper \/ Killed
      BY <2>2 DEF Stopper, PoolStop, CloseTasks, PoolWait, LoopWait, FinalCopy, CloseWAL, Exit,
                  Killed, Dies, Goes, Stopping
    <2>3. ASSUME NEW l \in Loops, LoopEnds(l) PROVE UNCHANGED before /\ (Stopping' => Stopping)
      BY <2>3 DEF LoopEnds, Stopping
    <2>4. ASSUME NEW d \in Dispatcher,
                 \/ LookAtStop(d) \/ PopAfterLook(d)
                 \/ SubmitCheck(d) \/ SubmitSend(d) \/ SubmitRefused(d) \/ SubmitPanics(d)
          PROVE  UNCHANGED before /\ (Stopping' => Stopping)
      BY <2>4 DEF LookAtStop, PopAfterLook, SubmitCheck, SubmitSend, SubmitRefused, SubmitPanics,
                  Dies, Stopping
    <2> QED BY <2>1, <2>2, <2>3, <2>4 DEF NextStop, Others
  <1> QED BY <1>1, <1>2, <1>3

(* The log gets an ENQUEUE event at most. *)
LEMMA EnqueueLogged ==
    ASSUME wal \in Seq(Event), OnlyEnqueues, NEW q \in Seq(Job), wal' \in Logs("ENQUEUE", q)
    PROVE  OnlyEnqueues'
  <1> DEFINE e == [i \in DOMAIN q |-> [type |-> "ENQUEUE", job |-> q[i]]]
             l == wal \o e
  <1>1. e \in [1 .. Len(q) -> Event] /\ Len(q) \in Nat
    BY DEF Event, EventType
  <1>2. e \in Seq(Event) /\ Len(e) = Len(q) /\ \A i \in 1 .. Len(e) : e[i].type = "ENQUEUE"
    BY <1>1
  <1>3. wal' = wal \/ wal' = l
    BY DEF Logs
  <1> HIDE DEF e
  <1>4. ASSUME wal' = l PROVE OnlyEnqueues'
    <2>1. /\ l \in Seq(Event) /\ Len(l) = Len(wal) + Len(e) /\ Len(wal) \in Nat /\ Len(e) \in Nat
          /\ \A i \in 1 .. Len(wal) : l[i] = wal[i]
          /\ \A i \in Len(wal) + 1 .. Len(l) : l[i] = e[i - Len(wal)]
      BY <1>2
    <2> HIDE DEF l
    <2>2. ASSUME NEW i \in 1 .. Len(l) PROVE l[i].type = "ENQUEUE"
      <3>1. CASE i \in 1 .. Len(wal)
        BY <2>1, <3>1 DEF OnlyEnqueues
      <3>2. CASE i \in Len(wal) + 1 .. Len(l)
        <4>1. i - Len(wal) \in 1 .. Len(e)
          BY <2>1, <3>2
        <4> QED BY <1>2, <2>1, <3>2, <4>1
      <3> QED BY <2>1, <3>1, <3>2
    <2> QED BY <1>4, <2>1, <2>2 DEF OnlyEnqueues
  <1> QED BY <1>3, <1>4 DEF OnlyEnqueues

(* A caller's batch adds new jobs and changes none; a call that is accepted  *)
(* has added them all.                                                       *)
LEMMA Enqueued ==
    ASSUME IInv, NEW c \in Client, EnqueueAdd(c)
    PROVE  /\ \A j \in Job : Known(jm, j) => Known(jm', j) /\ jm'.status[j] = jm.status[j]
           /\ client'[c].pc = "accepted" => \A j \in Elems(Batch[c]) : j \in Job /\ Known(jm', j)
           /\ \A b \in Client \ {c} : client'[b] = client[b]
           /\ phase = "running" /\ phase' = "running"
  <1>0. jm \in Manager /\ Batch[c] \in Seq(Job) /\ client \in [Client -> Call]
    BY ControllerAssumption DEF IInv, TypeOK
  <1>1. PICK n \in 0 .. Len(Batch[c]) :
          /\ Accepts(jm, Batch[c], n) /\ jm' = Enqueue(jm, SubSeq(Batch[c], 1, n))
          /\ client' = [client EXCEPT
                ![c].pc = IF n = Len(Batch[c]) THEN "accepted" ELSE "refused"]
    BY DEF EnqueueAdd
  <1> DEFINE q == SubSeq(Batch[c], 1, n)
  <1>2. q \in Seq(Job) /\ \A j \in Elems(q) : j \in Job /\ ~ Known(jm, j)
    BY <1>0, <1>1, AcceptedFresh, ElemsOfJobs
  <1>3. n = Len(Batch[c]) => q = Batch[c]
    BY <1>0
  <1> HIDE DEF q
  <1>4. \A k \in Job : jm'.status[k] = IF k \in Elems(q) THEN "pending" ELSE jm.status[k]
    <2>1. jm' = Enqueue(jm, q)
      BY <1>1 DEF q
    <2> QED BY <1>0, <1>2, <2>1, EnqueueFields
  <1>5. \A j \in Job : Known(jm, j) => Known(jm', j) /\ jm'.status[j] = jm.status[j]
    BY <1>2, <1>4 DEF Known
  <1>6. client'[c].pc = "accepted" => q = Batch[c]
    BY <1>0, <1>1, <1>3 DEF Call
  <1>7. \A j \in Elems(q) : j \in Job /\ Known(jm', j)
    BY <1>2, <1>4 DEF Known
  <1>8. \A b \in Client \ {c} : client'[b] = client[b]
    BY <1>0, <1>1
  <1> QED BY <1>5, <1>6, <1>7, <1>8 DEF EnqueueAdd

LEMMA CallerLogs ==
    ASSUME IInv, OnlyEnqueues, NEW c \in Client, EnqueueLog(c) PROVE OnlyEnqueues'
  <1>1. wal \in Seq(Event) /\ client[c].n \in Nat \ {0} /\ Batch[c] \in Seq(Job)
    BY ControllerAssumption DEF IInv, TypeOK, Call
  <1>2. CASE client[c].n > Len(Batch[c])
    BY <1>2 DEF EnqueueLog, OnlyEnqueues
  <1>3. CASE ~ (client[c].n > Len(Batch[c]))
    <2>1. client[c].n \in 1 .. Len(Batch[c])
      BY <1>1, <1>3
    <2>2. <<Batch[c][client[c].n]>> \in Seq(Job)
      BY <1>1, <2>1
    <2>3. wal' \in Logs("ENQUEUE", <<Batch[c][client[c].n]>>)
      BY <1>3 DEF EnqueueLog
    <2> QED BY <1>1, <2>2, <2>3, EnqueueLogged
  <1> QED BY <1>2, <1>3

(* What the callers, still let in, do to the last word: nothing. *)
LEMMA CallersKeep ==
    ASSUME IInv, NEW d \in SnapshotData, NEW c \in Client, EnqueueAdd(c), Frozen(d), Later(d, jm)
    PROVE  Frozen(d)'
  <1>1. ASSUME NEW j \in Job, Known(d, j) PROVE jm'.status[j] = d.status[j]
    BY <1>1, Enqueued DEF Frozen, Later
  <1> QED BY <1>1 DEF Frozen

(* Once every loop has ended, what goes on in local mode besides the end of  *)
(* Stop and the next start are calls of EnqueueJobs, workers and the disk.   *)
LEMMA LateOthers ==
    ASSUME SInv, Others, ended = Loops, ~ Remote
    PROVE  \/ \E c \in Client : EnqueueLog(c) \/ EnqueueAdd(c)
           \/ \E w \in Worker : WorkerTake(w) \/ WorkerFinish(w)
           \/ DiskFails \/ DiskRecovers \/ WriterJams
           \/ LoadSnapshot \/ ReplayEvent \/ StartLoops
  <1>1. \A d \in Dispatcher : disp[d].pc = "pop"
    BY DEF SInv, Bound, Loops
  <1>2. ASSUME NEW d \in Dispatcher, LogDispatch(d) \/ MarkBatch(d) PROVE FALSE
    BY <1>1, <1>2 DEF LogDispatch, MarkBatch
  <1>3. ~ Looping /\ ~ Serving
    BY DEF Looping, Serving, Loops
  <1> QED BY <1>2, <1>3 DEF Others, Unaware

(* With every loop ended no snapshot is begun. *)
LEMMA NoLateCopy ==
    ASSUME Others, ended = Loops PROVE UNCHANGED <<saver, snap>>
  BY DEF Others, Unaware, Serving, Looping, Loops, EnqueueLog, EnqueueAdd, LogDispatch, MarkBatch,
         WorkerTake, WorkerFinish, DiskFails, DiskRecovers, WriterJams, LoadSnapshot,
         ReplayEvent, StartLoops, Poll, SubmitTask, HandleResult, AckLost, Timeout,
         TimeoutUnsynced, memory, disk

(* The log that a local process leaves has only ENQUEUE events still. *)
LEMMA LateLog ==
    ASSUME IInv, SInv, Others, ended = Loops, ~ Remote, OnlyEnqueues PROVE OnlyEnqueues'
  <1>1. ASSUME NEW c \in Client, EnqueueLog(c) PROVE OnlyEnqueues'
    BY <1>1, CallerLogs
  <1>2. ASSUME UNCHANGED wal PROVE OnlyEnqueues'
    BY <1>2 DEF OnlyEnqueues
  <1> QED BY <1>1, <1>2, LateOthers
          DEF EnqueueAdd, WorkerTake, WorkerFinish, DiskFails, DiskRecovers, WriterJams,
              LoadSnapshot, ReplayEvent, StartLoops, disk

(* And nothing that a snapshot knows changes while the process lives. *)
LEMMA LateFrozen ==
    ASSUME IInv, SInv, Others, ended = Loops, ~ Remote, phase = "running",
           NEW d \in SnapshotData, Frozen(d), Later(d, jm)
    PROVE  Frozen(d)'
  <1>1. ASSUME NEW c \in Client, EnqueueAdd(c) PROVE Frozen(d)'
    BY <1>1, CallersKeep
  <1>2. ASSUME UNCHANGED jm PROVE Frozen(d)'
    BY <1>2 DEF Frozen
  <1>3. ~ LoadSnapshot /\ ~ ReplayEvent /\ ~ StartLoops
    BY DEF LoadSnapshot, ReplayEvent, StartLoops
  <1> QED BY <1>1, <1>2, <1>3, LateOthers
          DEF EnqueueLog, WorkerTake, WorkerFinish, DiskFails, DiskRecovers, WriterJams, memory

(* The steps of the others keep the last word. *)
LEMMA OthersLastWord ==
    ASSUME IInv, SInv, Others PROVE LastWord'
  <1> USE DEF SInv
  <1>0. snap \in SnapshotData /\ saver \in SaverState
    BY DEF IInv, TypeOK
  <1>1. UNCHANGED <<stop, before, finalErr>>
    BY OthersLeave
  <1>2. CASE stop \notin {"saving", "done", "exited"}
    BY <1>1, <1>2 DEF LastWord
  <1>3. ASSUME stop \in {"saving", "done", "exited"} PROVE ended = Loops /\ UNCHANGED <<saver, snap>>
    BY <1>3, NoLateCopy DEF Bound
  <1>4. CASE stop \in {"saving", "done"}
    <2>1. ended = Loops /\ phase = "running" /\ UNCHANGED <<saver, snap>>
      BY <1>3, <1>4 DEF Bound, Stopping
    <2>2. Later(snap, jm) /\ (saver.pc # "idle" => Later(saver.data, jm))
      BY <1>0, <2>1 DEF IInv, SnapIsPast, SaverIsPast, SaverState
    <2>3. ASSUME ~ Remote, Frozen(snap)
          PROVE  \A j \in Job : Known(snap, j) => jm'.status[j] = snap.status[j]
      <3>1. PICK d \in SnapshotData : d = snap
        BY <1>0
      <3>2. \A j \in Job : Known(d, j) => jm'.status[j] = d.status[j]
        BY <2>1, <2>2, <2>3, <3>1, LateFrozen DEF Frozen
      <3> QED BY <3>1, <3>2
    <2>4. ASSUME ~ Remote, saver.pc # "idle", Frozen(saver.data)
          PROVE  \A j \in Job : Known(saver.data, j) => jm'.status[j] = saver.data.status[j]
      <3> DEFINE sd == saver.data
      <3>1. sd \in SnapshotData /\ Later(sd, jm) /\ Frozen(sd)
        BY <1>0, <2>2, <2>4 DEF SaverState
      <3> HIDE DEF sd
      <3>2. PICK d \in SnapshotData : d = sd
        BY <3>1
      <3>3. \A j \in Job : Known(d, j) => jm'.status[j] = d.status[j]
        BY <2>1, <2>4, <3>1, <3>2, LateFrozen DEF Frozen
      <3> QED BY <3>2, <3>3 DEF sd
    <2>5. ASSUME ~ Remote, OnlyEnqueues PROVE OnlyEnqueues'
      BY <2>1, <2>5, LateLog
    <2>6. \A d \in SnapshotData : HoldsBefore(d) => \A j \in before' : Known(d, j)
      BY <1>1 DEF HoldsBefore
    <2>7. stop' = "saving" /\ saver'.pc # "idle" =>
             HoldsBefore(saver.data)' /\ (~ Remote => Frozen(saver.data)')
      BY <1>1, <2>1, <2>4 DEF LastWord, HoldsBefore, Frozen
    <2>8. ~ finalErr' /\ ((stop' = "saving" /\ saver'.pc = "idle") \/ stop' = "done") =>
             HoldsBefore(snap)' /\ (~ Remote => Frozen(snap)' /\ OnlyEnqueues')
      BY <1>1, <2>1, <2>3, <2>5 DEF LastWord, HoldsBefore, Frozen
    <2>9. stop' = "saving" /\ saver'.pc = "rotate" => snap' = saver'.data
      BY <1>1, <2>1 DEF LastWord
    <2> QED BY <1>1, <1>4, <2>7, <2>8, <2>9 DEF LastWord
  <1>5. CASE stop = "exited"
    <2>1. ended = Loops /\ UNCHANGED <<saver, snap>>
      BY <1>3, <1>5
    <2>2. ASSUME ~ Remote, OnlyEnqueues, phase # "failed" PROVE OnlyEnqueues' /\ phase' # "failed"
      <3>1. OnlyEnqueues'
        BY <2>1, <2>2, LateLog
      <3>2. CASE ReplayEvent
        <4>1. pos \in DOMAIN wal
          BY <3>2 DEF ReplayEvent, IInv, TypeOK
        <4>2. ~ ReplayFails(jm, wal[pos])
          BY <2>2, <4>1 DEF ReplayFails, OnlyEnqueues
        <4> QED BY <2>2, <3>1, <3>2, <4>2 DEF ReplayEvent
      <3>3. ASSUME ~ ReplayEvent PROVE phase' # "failed"
        BY <2>1, <2>2, <3>3, LateOthers
           DEF EnqueueLog, EnqueueAdd, WorkerTake, WorkerFinish, DiskFails, DiskRecovers,
               WriterJams, LoadSnapshot, StartLoops
      <3> QED BY <3>1, <3>2, <3>3
    <2> QED BY <1>1, <1>5, <2>1, <2>2 DEF LastWord, HoldsBefore
  <1> QED BY <1>2, <1>4, <1>5

(* takeSnapshot, called by Stop: it writes the state that was copied and     *)
(* starts a new log, or it fails.                                            *)
LEMMA SaverLastWord ==
    ASSUME IInv, SInv, SaverGoesOn PROVE LastWord'
  <1> USE DEF SInv
  <1>0. /\ saver \in SaverState /\ stop' = stop /\ before' = before /\ finalErr \in BOOLEAN
        /\ finalErr' = (finalErr \/ (stop = "saving" /\ SaverGivesUp)) /\ Saver
        /\ UNCHANGED <<phase, jm>>
    BY DEF IInv, TypeOK, SaverGoesOn, Saver, SnapWrite, SnapRotate, RotateEnds, Bound
  <1>a. stop = "saving" /\ SaverGivesUp => finalErr'
    BY <1>0
  <1>1. CASE stop \notin {"saving", "done", "exited"}
    BY <1>0, <1>1 DEF LastWord
  <1>2. CASE stop \in {"done", "exited"}
    <2>1. saver.pc = "idle" /\ writer # "rotating"
      BY <1>2 DEF Bound, Loops, Rotating
    <2> QED BY <1>0, <2>1 DEF Saver, SnapWrite, SnapRotate, RotateEnds
  <1>3. CASE stop = "saving"
    <2>1. ASSUME saver'.pc = "idle", finalErr' PROVE LastWord'
      BY <1>0, <1>3, <2>1 DEF LastWord
    <2>2. CASE SnapWrite
      <3>1. CASE diskDown
        BY <1>a, <1>3, <2>1, <2>2, <3>1 DEF SnapWrite, SaverGivesUp, IdleSaver
      <3>2. CASE ~ diskDown
        <4>1. saver.pc = "write" /\ saver' = [saver EXCEPT !.pc = "rotate"] /\ snap' = saver.data
          BY <2>2, <3>2 DEF SnapWrite
        <4>2. saver'.pc = "rotate" /\ saver'.data = saver.data
          BY <1>0, <4>1 DEF SaverState
        <4>3. HoldsBefore(saver.data) /\ (~ Remote => Frozen(saver.data))
          BY <1>3, <4>1 DEF LastWord
        <4>4. HoldsBefore(saver.data)' /\ (~ Remote => Frozen(saver.data)')
          BY <1>0, <4>2, <4>3 DEF HoldsBefore, Frozen
        <4> QED BY <1>0, <1>3, <4>1, <4>2, <4>4 DEF LastWord
      <3> QED BY <3>1, <3>2
    <2>3. CASE SnapRotate
      <3>1. CASE writer = "closed"
        BY <1>a, <1>3, <2>1, <2>3, <3>1 DEF SnapRotate, SaverGivesUp, IdleSaver
      <3>2. CASE writer # "closed"
        <4>1. saver.pc = "rotate" /\ UNCHANGED <<saver, snap>>
          BY <2>3, <3>2 DEF SnapRotate
        <4>2. /\ HoldsBefore(saver.data) /\ (~ Remote => Frozen(saver.data))
              /\ snap = saver.data
          BY <1>3, <4>1 DEF LastWord
        <4>3. HoldsBefore(saver.data)' /\ (~ Remote => Frozen(saver.data)')
          BY <1>0, <4>1, <4>2 DEF HoldsBefore, Frozen
        <4> QED BY <1>0, <1>3, <4>1, <4>2, <4>3 DEF LastWord
      <3> QED BY <3>1, <3>2
    <2>4. CASE RotateEnds
      <3>1. saver.pc = "rotate" /\ saver'.pc = "idle" /\ UNCHANGED snap
        BY <2>4 DEF RotateEnds, IdleSaver, Rotating
      <3>2. CASE writer' = "closed"
        BY <1>a, <1>3, <2>1, <3>1, <3>2 DEF SaverGivesUp
      <3>3. CASE wal' = <<>>
        <4>1. HoldsBefore(snap) /\ (~ Remote => Frozen(snap))
          BY <1>3, <3>1 DEF LastWord
        <4>2. HoldsBefore(snap)' /\ (~ Remote => Frozen(snap)' /\ OnlyEnqueues')
          BY <1>0, <3>1, <3>3, <4>1 DEF HoldsBefore, Frozen, OnlyEnqueues
        <4> QED BY <1>0, <1>3, <3>1, <4>2 DEF LastWord
      <3> QED BY <2>4, <3>2, <3>3 DEF RotateEnds
    <2> QED BY <1>0, <2>2, <2>3, <2>4 DEF Saver
  <1> QED BY <1>1, <1>2, <1>3

LEMMA LastWordStep ==
    ASSUME IInv, SInv, NextStop PROVE LastWord'
  <1> USE DEF SInv
  <1>1. CASE FinalCopy
    <2>1. /\ stop' = "saving" /\ saver' = [pc |-> "write", data |-> Snapshot(jm)]
          /\ UNCHANGED <<jm, before>> /\ Stopping
      BY <1>1 DEF FinalCopy, Goes, Stopping
    <2>2. \A j \in before' : Known(Snapshot(jm), j)
      BY <2>1 DEF KnownBefore, Snapshot, Known
    <2>3. saver'.pc = "write" /\ saver'.data = Snapshot(jm)
      BY <2>1
    <2>4. (HoldsBefore(saver.data) /\ Frozen(saver.data))'
      BY <2>1, <2>2, <2>3 DEF Frozen, HoldsBefore, Snapshot
    <2> QED BY <2>1, <2>3, <2>4 DEF LastWord
  <1>2. ASSUME stop' \notin {"saving", "done", "exited"} PROVE LastWord'
    BY <1>2 DEF LastWord
  <1>3. CASE CloseWAL
    <2>1. /\ stop = "saving" /\ saver.pc = "idle" /\ stop' = "done"
          /\ UNCHANGED <<jm, before, snap, wal, finalErr>>
      BY <1>3 DEF CloseWAL, Goes, memory
    <2> QED BY <2>1 DEF LastWord, HoldsBefore, Frozen, OnlyEnqueues
  <1>4. CASE Exit
    <2>1. /\ stop = "done" /\ stop' = "exited" /\ phase' = "down"
          /\ UNCHANGED <<before, snap, wal, finalErr>>
      BY <1>4 DEF Exit, Goes, Crash
    <2> QED BY <2>1 DEF LastWord, HoldsBefore, OnlyEnqueues
  <1>5. CASE Others
    BY <1>5, OthersLastWord
  <1>6. CASE SaverGoesOn
    BY <1>6, SaverLastWord
  <1>7. CASE StopCalled \/ PoolStop \/ CloseTasks \/ PoolWait \/ LoopWait \/ Killed
    BY <1>2, <1>7 DEF StopCalled, PoolStop, CloseTasks, PoolWait, LoopWait, Killed, Dies, Goes
  <1>8. ASSUME NEW l \in Loops, LoopEnds(l) PROVE LastWord'
    <2>1. UNCHANGED <<stop, before, finalErr, vars>>
      BY <1>8 DEF LoopEnds
    <2> QED BY <2>1 DEF LastWord, HoldsBefore, Frozen, OnlyEnqueues, vars, memory, disk
  <1>9. ASSUME NEW d \in Dispatcher,
               \/ LookAtStop(d) \/ PopAfterLook(d)
               \/ SubmitCheck(d) \/ SubmitSend(d) \/ SubmitRefused(d)
        PROVE  stop' \notin {"saving", "done", "exited"}
    <2>1. ~ Remote /\ d \notin ended /\ UNCHANGED stop
      BY <1>9 DEF LookAtStop, PopAfterLook, SubmitCheck, SubmitSend, SubmitTask, SubmitRefused,
                  Bound
    <2> QED BY <2>1 DEF Bound, Loops
  <1>10. ASSUME NEW d \in Dispatcher, SubmitPanics(d) PROVE stop' \notin {"saving", "done", "exited"}
    BY <1>10 DEF SubmitPanics, Dies
  <1> QED BY <1>1, <1>2, <1>3, <1>4, <1>5, <1>6, <1>7, <1>8, <1>9, <1>10
          DEF NextStop, Others, Stopper

-----------------------------------------------------------------------------
LEMMA StopStepInv == IInv /\ SInv /\ [NextStop]_allVars => (IInv /\ SInv)'
  <1>1. ASSUME IInv, SInv, NextStop PROVE (IInv /\ SInv)'
    BY <1>1, StopInv, RotatingKept, BoundStep, KnownBeforeStep, LastWordStep DEF SInv
  <1>2. ASSUME IInv, SInv, UNCHANGED allVars PROVE (IInv /\ SInv)'
    <2>1. UNCHANGED vars /\ UNCHANGED stopVars
      BY <1>2 DEF allVars
    <2>2. IInv'
      BY <1>2, <2>1, StepInv
    <2>3. UNCHANGED <<phase, jm, saver, wal, snap, diskDown, writer, disp,
                      stop, ended, looked, sending, before, finalErr>>
      BY <2>1 DEF vars, memory, disk, stopVars
    <2>4. SInv'
      BY <1>2, <2>3 DEF SInv, Rotating, Bound, KnownBefore, LastWord, Stopping, HoldsBefore,
                        Frozen, OnlyEnqueues
    <2> QED BY <2>2, <2>4
  <1> QED BY <1>1, <1>2

LEMMA StopInitInv == InitStop => IInv /\ SInv
  <1> SUFFICES ASSUME InitStop PROVE IInv /\ SInv
    OBVIOUS
  <1>1. IInv
    BY InitInv DEF InitStop
  <1>2. Rotating
    BY DEF InitStop, Init, Rotating
  <1>3. Bound
    BY StopNames DEF InitStop, Init, Bound, IdleSaver, Stopping
  <1>4. KnownBefore
    BY DEF InitStop, KnownBefore, Stopping
  <1>5. LastWord
    BY DEF InitStop, LastWord
  <1> QED BY <1>1, <1>2, <1>3, <1>4, <1>5 DEF SInv

LEMMA StopInvHolds == SpecStop => [](IInv /\ SInv)
  BY StopInitInv, StopStepInv, PTL DEF SpecStop

(* Stop, in local mode: the final snapshot, if it was written, has every job *)
(* the manager knew when Stop was called, and every job it has still has the *)
(* status it has there.                                                      *)
THEOREM FinalSnapshot == SpecStop => []FinalSnapshotIsFinal
  <1>1. IInv /\ SInv => FinalSnapshotIsFinal
    <2> SUFFICES ASSUME SInv, ~ Remote, stop = "done", ~ finalErr
                 PROVE  /\ \A j \in before : Known(snap, j)
                        /\ \A j \in Job : Known(snap, j) => jm.status[j] = snap.status[j]
      BY DEF FinalSnapshotIsFinal
    <2>1. HoldsBefore(snap) /\ Frozen(snap)
      BY DEF SInv, LastWord
    <2> QED BY <2>1 DEF HoldsBefore, Frozen
  <1> QED BY <1>1, StopInvHolds, PTL

(* Stop, then Start, in local mode: the replay of what Stop leaves does not  *)
(* fail, whatever the callers logged after the final snapshot.               *)
THEOREM RestartAfterStop == SpecStop => []CleanRestart
  <1>1. IInv /\ SInv => CleanRestart
    BY DEF SInv, LastWord, CleanRestart
  <1> QED BY <1>1, StopInvHolds, PTL

(* Stop, then Start, in both modes: every job the manager knew when Stop was *)
(* called is known to the next process.                                      *)
THEOREM SurvivorsOfStop == SpecStop => []StoppedJobsSurvive
  <1>1. IInv /\ SInv => StoppedJobsSurvive
    <2> SUFFICES ASSUME IInv, SInv, stop = "exited", ~ finalErr, phase = "running", NEW j \in before
                 PROVE  Known(jm, j)
      BY DEF StoppedJobsSurvive
    <2>1. Known(snap, j) /\ j \in Job
      BY DEF SInv, LastWord, KnownBefore, HoldsBefore
    <2> QED BY <2>1 DEF IInv, SnapIsPast, Later
  <1> QED BY <1>1, StopInvHolds, PTL

(* Memory is never behind the snapshot on disk while Stop runs and after the *)
(* restart either.                                                           *)
THEOREM StoppingSnapshotIsPast == SpecStop => []SnapshotIsPast
  <1>1. IInv => SnapshotIsPast
    BY DEF IInv, SnapIsPast, SnapshotIsPast
  <1> QED BY <1>1, StopInvHolds, PTL

(* Nor does a job that has ended come back while Stop runs.                  *)
THEOREM StoppingRevivesNone == SpecStop => NoRevival
  <1>1. IInv /\ [NextStop]_allVars => [phase # "down" /\ phase' # "down" => Later(jm, jm')]_vars
    <2>1. ASSUME IInv, NextStop, phase # "down", phase' # "down" PROVE Later(jm, jm')
      BY <2>1, StopLater
    <2>2. UNCHANGED allVars => UNCHANGED vars
      BY DEF allVars
    <2> QED BY <2>1, <2>2
  <1> QED BY <1>1, StopInvHolds, PTL DEF SpecStop, NoRevival
=============================================================================
