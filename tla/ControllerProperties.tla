------------------------ MODULE ControllerProperties ------------------------
(***************************************************************************)
(* What the controller promises.  Each property names the code behaviour   *)
(* it is about; which run checks it, and under which bounds, is in the cfg *)
(* files and in the README.                                                *)
(***************************************************************************)
EXTENDS Controller

ClientStep == {"log", "add", "accepted", "refused"}
Call       == [pc : ClientStep, n : Nat \ {0}]
DispStep   == {"pop", "log", "mark", "submit"}
DispState  == [pc : DispStep, batch : Seq(Job), n : Nat \ {0}]
Result     == [job : Job, ok : BOOLEAN]
Used       == [crash : Nat, expired : Nat, snap : Nat, diskErr : Nat, unsynced : Nat, jam : Nat]
SaverState == [pc : {"idle", "write", "rotate"}, data : SnapshotData]

(* The types of the variables. *)
TypeOK ==
    /\ phase \in {"down", "replay", "running", "failed"}
    /\ jm \in Manager /\ pos \in Nat \ {0}
    /\ saver \in SaverState
    /\ wal \in Seq(Event) /\ snap \in SnapshotData /\ diskDown \in BOOLEAN
    /\ writer \in {"on", "jammed", "rotating", "closed"}
    /\ disp \in [Dispatcher -> DispState]
    /\ client \in [Client -> Call]
    /\ taskCh \in Seq(Job) /\ resultCh \in Seq(Result)
    /\ running \in [Worker -> Job \cup {NoJob}]
    /\ used \in Used

-----------------------------------------------------------------------------
(* The index maps agree with the statuses through every interleaving of the  *)
(* loops, and through recovery.                                              *)
IndexConsistency == IndexesAgree(jm)

(* The jobs a dispatcher took out of the queue and has not marked yet. *)
Claimed == UNION {Elems(disp[d].batch) : d \in {e \in Dispatcher : disp[e].pc \in {"log", "mark"}}}

(* A pending job is in the queue, or between the pop and the mark of some    *)
(* dispatchLoop: between its two critical sections only the local slice jobs *)
(* holds it, while timeouts, late results, snapshots and other dispatchers   *)
(* run.  A job that is in neither would wait for ever.                       *)
NoStrandedJob == NoneStranded(jm, Claimed)

(* While the process lives, no job is forgotten and a completed or dead job  *)
(* never becomes pending or in flight again, whatever results, timeouts and  *)
(* replayed events arrive for it.                                            *)
NoRevival == [][phase # "down" /\ phase' # "down" => Later(jm, jm')]_vars

(* No deadline has passed and the process has not crashed: no result is late. *)
Quiet == used.expired = 0 /\ used.crash = 0

(* Until then a job dies only while it is in flight, as the life cycle drawn  *)
(* in job_manager.go has it: MarkDead does not look at the status, so this is *)
(* left to the order in which handleResult and timeoutLoop call it.  A late   *)
(* result breaks it.                                                         *)
DeadOnlyFromInFlight ==
    [][Quiet /\ phase = "running" /\ phase' = "running" =>
         \A j \in Job : jm'.status[j] = "dead" =>
            jm.status[j] \in {"in_flight", "dead"}]_vars

(* The places that hold a copy of j to be executed or just executed. *)
Copies(j) ==
    LET unsent(d) == {i \in DOMAIN disp[d].batch : disp[d].pc = "submit" => i >= disp[d].n}
    IN  {<<"queue", i>> : i \in {h \in DOMAIN jm.queue : jm.queue[h] = j}}
        \cup (UNION {{<<d, i>> : i \in {h \in unsent(d) : disp[d].batch[h] = j}} : d \in Dispatcher})
        \cup {<<"task", i>> : i \in {h \in DOMAIN taskCh : taskCh[h] = j}}
        \cup {<<w, 1>> : w \in {v \in Worker : running[v] = j}}
        \cup {<<"result", i>> : i \in {h \in DOMAIN resultCh : resultCh[h].job = j}}

(* Without crashes a job is claimed once: it is once in the queue, or once in *)
(* the unmarked batch of one dispatcher, so that no two dispatchers log and  *)
(* mark the same job, although timeouts and late results put it back.        *)
ClaimedOnce ==
    used.crash = 0 => \A j \in Job :
      Cardinality({i \in DOMAIN jm.queue : jm.queue[i] = j})
      + Cardinality({p \in Dispatcher \X (1 .. BatchSize) :
            /\ disp[p[1]].pc \in {"log", "mark"}
            /\ p[2] \in DOMAIN disp[p[1]].batch /\ disp[p[1]].batch[p[2]] = j}) <= 1

(* As long as no deadline passes and the process does not crash, a job is in *)
(* one place only: no two workers run it, and no result of an earlier        *)
(* attempt is on its way while it is queued again.                           *)
SingleExecution ==
    Quiet => \A j \in Job : Cardinality(Copies(j)) <= 1

(* No snapshot has started a new log, and no append was ever refused. *)
Uncut     == used.snap = 0
AllLogged == Uncut /\ used.diskErr = 0 /\ used.jam = 0

(* A job that may still run has used at most MaxRetry attempts, although two *)
(* callers and Requeue all increment Attempt, and late results do too.  (A   *)
(* result whose event was refused counts and neither retries nor ends it.)   *)
RetryBudget ==
    AllLogged => \A j \in Job : jm.status[j] \in Live => jm.attempt[j] <= MaxRetry

-----------------------------------------------------------------------------
HasEvent(types, j) == \E i \in DOMAIN wal : wal[i].type \in types /\ wal[i].job = j

(* The log is ahead of the memory ("WAL must be written before state         *)
(* changes", dispatchLoop): until a snapshot starts a new log, the event that *)
(* led to the status of a job is in the log, after a crash and a replay too. *)
(* EnqueueJobs, handleResult and timeoutLoop keep to it when an append is    *)
(* refused; dispatchLoop and Poll only print the error and mark the job.     *)
WriteAhead ==
    KeepWAL /\ Uncut /\ phase = "running" =>
      \A j \in Job :
        /\ Known(jm, j) => HasEvent({"ENQUEUE"}, j)
        /\ AllLogged /\ jm.status[j] = "in_flight" => HasEvent({"DISPATCH"}, j)
        /\ jm.status[j] = "completed" => HasEvent({"ACK"}, j)
        /\ jm.status[j] = "dead" => HasEvent({"DEAD", "TIMEOUT"}, j)

(* MaxRetry is the number of failures a job is allowed: a dead job failed or *)
(* timed out that often (in a log that was never rotated).                   *)
DeadAfterMaxRetry ==
    \A j \in Job : jm.status[j] = "dead" =>
      Cardinality({i \in DOMAIN wal : wal[i].job = j /\
                     wal[i].type \in {"RETRY", "TIMEOUT", "DEAD"}}) >= MaxRetry

(* Once the loops run, memory is never behind the snapshot on disk: every    *)
(* job the snapshot knows is known, and one that had ended there is not      *)
(* waiting or running again, through crashes, replays of a log that may be   *)
(* older than the snapshot, and snapshots being written meanwhile.           *)
SnapshotIsPast == phase = "running" => Later(snap, jm)

Accepted == UNION {Elems(Batch[c]) : c \in {b \in Client : client[b].pc = "accepted"}}

(* A job whose EnqueueJobs returned nil is known for ever after. *)
AcceptedJobsSurvive == phase = "running" => \A j \in Accepted : Known(jm, j)

(* Replaying the log never fails Start (replayWAL "implements idempotency    *)
(* checks to ensure repeated replays don't cause errors").                   *)
ReplayNeverFails == phase # "failed"

(* As long as no deadline passes and the process does not crash, Stats       *)
(* counts every job once: the four indexes partition the jobs.  A late       *)
(* result, or the replay of a DISPATCH, leaves a job in two of them.         *)
StatsCountEachJobOnce ==
    Quiet /\ phase = "running" /\ Claimed = {} =>
      StatsTotal(jm) = GetTotalJobs(jm)

(* Every job that enters the queue is completed or dead in the end. *)
EveryJobEnds == \A j \in Job : Known(jm, j) ~> jm.status[j] \in Terminal
=============================================================================
