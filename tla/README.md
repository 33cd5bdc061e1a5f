# A TLA+ model of raft-recovery

This directory holds the formal model of the job queue in this repository: TLA+ modules,
the TLC configurations that check them on small instances, and proofs checked by TLAPS.

    tlc -config MCControllerCrash.cfg MCController.tla   # any cfg with its MC module
    tlapm ControllerProofs.tla

## 1. The system

Jobs are enqueued, kept in memory by a job manager, dispatched to workers, and retried until
they complete or die. A write-ahead log (WAL) and periodic snapshots are meant to carry the
state over a crash. The queue runs in one process (local mode), as a master that remote worker
pools poll (master mode), or, in code that the command line does not wire up yet
(`internal/cli/cli.go:290`), as the state machine of a Raft group.

| Component | State | Operations | Talks to |
|---|---|---|---|
| Job manager, `internal/jobmanager` | map of jobs; `queue`, `inFlight`, `completed`, `dead` | Enqueue, PopPending, MarkInFlight, MarkCompleted, Requeue, MarkDead, Restore, Snapshot, Stats | called under `c.mu` |
| Controller, `internal/controller` | `stopped`, the loops, one mutex `c.mu` | EnqueueJobs, dispatchLoop x4, resultLoop, timeoutLoop, snapshotLoop, Start (recovery), Poll, Acknowledge, applyLoop, Stop | all of the others |
| WAL, `internal/storage/wal` | file, `seq`, `batchChan`, `closed` | Append (waits for a group fsync), Replay, Rotate, Close | controller |
| Snapshot, `internal/snapshot` | one file, replaced by rename | Write, Load | controller |
| Worker pool, `internal/worker` | `taskCh`, `resultCh`, workers | Submit, ReceiveResult, Stop; pollerLoop and ackLoop for remote pools | controller, or gRPC |
| Server, `internal/server` | worker leases | SubmitJob, PollJobs, AcknowledgeJob, heartbeats, Raft RPCs | controller, Raft |
| Raft, `internal/raft` | term, vote, log, commit and apply indexes | elections, AppendEntries, Propose, apply, Snapshot | peers, `applyCh` |

What is hard in it:

* **Two locks and no transaction.** A batch leaves the queue under `c.mu`, is logged without it,
  is marked under it again and submitted without it. Between these steps results, timeouts and
  other dispatchers touch the same jobs.
* **Late results.** A deadline only requeues the job; the worker goes on. Its result may meet the
  job pending, in flight again, completed or dead.
* **A log and a snapshot that overlap.** The snapshot is copied, written, and only then is the
  log truncated; replay runs over whatever pair the crash left.
* **Errors halfway.** An append may fail after its event reached the file, a rotation refuses
  appends while it runs, a failed rotation leaves the WAL closed, and a failed write jams the
  encoder until the next rotation.
* **A log behind a channel.** Appends of many goroutines share a batch and one fsync; a rotation
  stops the batch writer while requests are on their way, and renames the file.
* **Shutdown.** Stop closes channels that dispatchers, workers and callers still use.
* **Raft replies in goroutines.** Votes and replication replies are handled in any order, with
  state read again after the call.
* **Two machines per node.** Raft applies a command under its own lock through a bounded channel,
  the controller handles it under another, and a snapshot takes one after the other.

What makes each part correct:

* manager: the indexes agree with the statuses; no pending job is out of reach; a job that ended
  stays ended;
* controller: the same through every interleaving, plus one claim per job, a bounded number of
  attempts, a log ahead of the memory, a snapshot behind it, and every job ending;
* WAL: an event whose Append returned nil survives until a rotation clears it, none is recorded
  twice, the order is kept, only calls that were not answered can leave the log unreadable, and
  Append returns;
* snapshot file: there is always a whole one, of one moment, that of the last successful Write;
* recovery: nothing accepted is lost and a restart does not fail (**neither holds** after a crash,
  section 5; of the jobs known when a Stop was called that returned, both hold in local mode, and
  the first in master mode);
* shutdown: Stop returns, and in local mode its snapshot is the last word;
* Raft's state machine: a node's manager is what the commands up to its applied index made it,
  the snapshot covers what the log dropped, and committed commands get applied;
* Raft: election safety, log matching, sound `matchIndex`, commitment by a majority, state
  machine safety (**the last does not hold**).

## 2. Modules

| Module | What it is |
|---|---|
| `JobManagerOps` | The methods of the manager as operators on a record; the invariants of that record |
| `JobManager` | The manager alone, under arbitrary calls |
| `SavedState` | What a restart may rely on: the state of one moment, saved while it goes on changing |
| `SnapshotFile` | The manager with the file written step by step, crashes and restarts; implements `SavedState` |
| `DurableLog` | What a caller of the WAL may rely on: one log that outlives the process, until it is cleared |
| `WAL`, `WALProperties` | The WAL: callers, batch writer, rotation, file, crash; implements `DurableLog` |
| `Controller` | The controller, with its WAL, snapshot file and worker pool as it sees them: the loops, both modes, crash and recovery |
| `ControllerProperties` | What the controller promises |
| `Shutdown` | `Controller.Stop` and `Pool.Stop` among the loops of `Controller`, in both modes, the end of the process, the next start |
| `Raft`, `RaftProperties` | The Raft node among its peers, and what it promises |
| `Replica` | The queue on every node of a Raft group: log and compaction, `applyCh`, `applyLoop`, manager, snapshots, server |
| `MCJobManager`, `MCController`, `MCShutdown`, `MCWAL`, `MCRaft`, `MCReplica` | Batches and symmetry sets for TLC |
| `JobManagerLemmas`, `JobManagerProofs`, `ControllerProofs`, `ControllerClaimProofs`, `ShutdownProofs`, `WALProofs`, `RaftProofs`, `ReplicaProofs` | Proofs |

`SnapshotFile`, `Controller` and `Replica` use the operators of `JobManagerOps`; `Shutdown`
extends `Controller` and reuses its actions, so a handler is written once.

A definition whose comment begins with *Fault* is a wrong version of the definition after it.
No specification uses it; substituted for the right one, it shows that a property notices the
mistake.

### Job manager

`jm` is a record: `status` and `attempt` are the fields of the `jobs` map the methods look at;
`inFlight`, `completed` and `dead` are the key sets of the maps; `queue` is the slice. A method
that can fail has its guard as an operator (`CanFinish`, `CanMarkDead`, ...), so a caller sees the
error. `Restore` and `RequeueInFlight` are sets, because Go iterates maps in any order. In
`JobManager` the variable `held` remembers the jobs popped and not yet marked, which only the
caller knows.

### Snapshot file

`SnapshotFile` extends `JobManager`. A file has a state and the data that reading it yields: `tmp`
is `snapshot.json.tmp`, `file` is `snapshot.json`, `copy` what `Write` was called with. `Take`,
`Create`, `Encode`, `Sync`, `Rename` are the steps of `takeSnapshot` and `Write`; `WriteFails` is
each of its error returns, `Crash` and `Load` the rest. The model assumes of the file system what
the code does: a rename is whole and durable in order, and data is sure to outlive the machine only
after fsync. A file is `torn`, `written` (in the cache: a crash keeps all of it or a part) or
`synced`.

`SavedState` knows no files: a state changes, is copied, and the copy is saved or given up; a crash
loses the state, a restart has the saved one. The refinement maps `state` to the jobs of the
manager, `writing` to the copy on its way and `saved` to what `Load` would read. That a process
starts with the jobs of *one* moment is not in any single action: it depends on `Snapshot` copying
the jobs (with `EncodeShared`, which writes what the calls have made of them since, it fails), on
the temporary file, and on the order of the steps; that there is anything to read at all
(`SnapshotComplete`) depends on the sync before the rename.

### Write-ahead log

A call of `Append` stands for the event it passes.

| Code | Actions of `WAL` |
|---|---|
| `NewWAL`, `Replay` | `Open` |
| `Append` | `Number` (under `w.mu`), `Send` or `Refuse` (the select), then the wait for the answer |
| `batchWriter` | `Take`, `Tick`, `Drain` |
| `flushBatch` | `Lock`, `Encode` per record, `Sync`, `Answer`; `EncodeFails`, `SyncFails` |
| `Rotate` | `Rotate`, `Rename`, `Reopen`, `RotateFails` |
| `Close` | `Close`, `CloseFile` |
| a crash | `Crash`: what was not synced may go, from the end; the last record may be half written |

Half a record hides what follows, and a failed encoder stays failed until it is replaced, as
`bufio.Writer` does; `stuck` and `torn` are these two. `DurableLog` has none of this: a call
records its event at most once while it runs and succeeds only when it is recorded. An
acknowledged event stays until the log is cleared, through every crash, and the log is cleared
only when no call with an event in it still waits; the log can be read to its end (`whole`) unless
a call failed on the way or was not answered when the process died. The refinement maps `log` to
the current file, `whole` to "not torn", `cleared` to the events a rotation has moved away, and
`call` to "active" while it is sent or waits; a failed or lost call may have its event in the log.
A backup is no part of the log: `Replay` does not read one, and its name has a resolution of one
second (`wal.go:386`), so that a second rotation in the same second overwrites the first backup.
That clearing loses nothing is the controller's business, which writes a snapshot first
(`SnapshotIsPast`). The sequence numbers are modelled when `Numbered`, but nothing
reads them (`GetLastEvent` is a stub).

### Controller

| Code | Actions |
|---|---|
| `EnqueueJobs` | `EnqueueLog` per job without the lock, `EnqueueAdd` for the batch under it |
| `dispatchLoop` | `PopBatch`, `LogDispatch` per job, `MarkBatch`, `SubmitTask` per job |
| `Poll` | `Poll`, with a reply that may be lost |
| `Worker.Run` | `WorkerTake`, `WorkerFinish` (drops the result if `resultCh` is full) |
| `handleResult`, `Acknowledge`, `ackLoop` | `HandleResult`, `AckLost` |
| `timeoutLoop` | `Timeout`, `TimeoutUnsynced` |
| `takeSnapshot`, `WAL.Rotate` | `SnapCopy`, `SnapWrite`, `SnapRotate`, `RotateEnds` |
| `flushBatch` errors | `DiskFails`, `DiskRecovers` (fsync), `WriterJams` (write) |
| a crash; `Start` | `Crash`; `LoadSnapshot`, `ReplayEvent` per event, `StartLoops` |

A handler that appends under `c.mu` is one action: only the disk outlives a crash, and a crash
between the append and the update leaves the same disk as one after both. `Rotate` does not take
`c.mu`, so it is interleaved with the handlers; an append that waits until the rotation ends is
an append made after it, one that is refused is a step taken while `writer = "rotating"`.
`Logs(t, q)` is the set of logs an append may leave, which has two elements while fsync fails.
When the writer is jammed or closed every append is refused. In the code an append to a closed
WAL may instead wait for ever with `c.mu` held; that process only stops, so no safety property
tells the two apart.

`Shutdown` adds `stop`, the step `Stop` has reached, the loops that have ended, the dispatchers
that have looked at `stopCh` and not popped yet, and those inside the select of `Submit`. The other
steps are those of `Controller`:

| Code | Actions of `Shutdown` |
|---|---|
| `dispatchLoop`, `stopCh` and then the pop | `LookAtStop`, `PopAfterLook`: a batch may be popped, logged, marked and submitted after the signal |
| `Pool.Submit` | `SubmitCheck`, then `SubmitSend`, `SubmitRefused` or `SubmitPanics` |
| `Controller.Stop`, `Pool.Stop` | `StopCalled`, `PoolStop`, `CloseTasks`, `PoolWait`, `LoopWait`, `FinalCopy`, the steps of `takeSnapshot` (`SaverGoesOn`), `CloseWAL` |
| the loops at their selects | `Looping` while they run, `LoopEnds` |
| callers, workers, the disk | `Unaware`: Stop waits for none of the callers |
| the gRPC server of a master | `Serving`: it is never stopped, so polls and acknowledgements go on until the process ends |
| the process ends | `Exit` after Stop has returned, `Killed` before; then the recovery of `Controller` |

In master mode there is no dispatchLoop, and the local pool that Stop stops has no task, so its
steps are left out. An append after `CloseWAL` is refused; in the code it may also wait for ever,
in a process that is about to exit. Of the process started after one in which Stop was called,
`Shutdown` follows the recovery, the callers and the calls of remote pools; its own timeout and
snapshot loops are the matter of `Controller`, whose properties are proved for any number of
crashes.

In master mode a "dispatcher" is the poller of a remote pool, and its tasks, workers and results
survive a crash of the master. (`Controller` in master mode is checked by the runs
`controller_remote` and, with Stop beside it, `master`.)

### Raft

Each handler is an action (`RequestVote`, `AppendEntries`, `VoteReply`, `AppendReply`, `Propose`,
`Replicate`, `ApplyLogs`, `StartElection`). A call is a request, then a reply, each consumed when
handled, in any order; `LoseCall` drops one. The code is followed where it differs from the
paper: no comparison of logs in a vote, `matchIndex` assigned and not raised, a candidate that
accepts entries of its own term without stepping down, a reply carrying the term from before the
handler, `nextIndex` lowered by one per refusal, and a `Restart` that forgets everything.

### Raft state machine

`Replica` has one leader in office, so a term-1 entry is its index and `log` says which command it
is; elections are the matter of `Raft`. Per node: the entries left after compaction, found by
position as `MemoryLogStore` does (`GetLog`; `DeleteRange`, whose nth entry is the nth that is
kept), `applyCh` of capacity `ApplyCap`,
`applyLogs` (`ApplyLogs`, `ApplySend`) that keeps `rf.mu` while it sends, `applyLoop`
(`HandleCommand`, then `SetLastAppliedIndex` without the lock) and `takeSnapshot` (`SnapCopy`,
`SnapWrite`, `SnapCompact`). `PollJobs`, `AcknowledgeJob` and `Timeout` are local to the node that
was polled, as in `server.go`. AppendEntries may carry any past state of the leader's log, and a
follower appends entries it has compacted away, as `rpc.go:98-117` does. Nodes do not restart.

## 3. Runs and bounds

| Run (cfg) | Instance | Shows |
|---|---|---|
| `job_manager` (MCJobManager) | 2 jobs, 1 retry, 2 snapshots, 1 failed write, 1 crash | the manager's invariants under any calls; a restart finds the jobs of one moment |
| `wal` (MCWAL) | 3 appends, batches of 2, 2 rotations, 2 crashes, 1 failed file operation | one durable log until it is cleared; Append returns |
| `controller_late` (MCControllerLate) | 2 jobs in overlapping batches, 2 dispatchers, 2 workers, 6 late deadlines, fsync failing for a while | late results: indexes, claims, attempts, statistics; every job ends |
| `controller_crash` (MCControllerCrash) | 1 job, 2 dispatchers, 2 crashes, 1 snapshot, 2 deadlines, 1 jammed write | recovery: log ahead of memory, memory ahead of the snapshot |
| `controller_remote` (MCControllerRemote) | 1 job, a remote pool, 1 crash, 1 snapshot, fsync failing once for a while, 4 deadlines | late and repeated executions after lost replies and acknowledgements |
| `master` (MCMaster) | 1 job, a remote pool, Stop or a crash, 1 periodic snapshot, fsync failing once for a while, 2 deadlines | lost replies and acknowledgements, refused appends whose event is in the file, a WAL left closed; what polls and acknowledgements do beside Stop and after the restart |
| `shutdown` (MCShutdown) | 2 callers with a job each, 1 requeue per job, 1 dispatcher, 1 worker, Stop or a crash during it | Stop returns, saves the last state, and the next start succeeds |
| `raft` (MCRaft) | 3 servers, 2 elections, 1 entry per log | one leader per term, commitment by a majority |
| `raft_replication` (MCRaftReplication) | 2 servers, 2 elections, 2 entries, 2 calls under way, 1 restart | logs and `matchIndex` under late and lost calls |
| `replica` (MCReplica) | 2 nodes, 2 jobs, 2 commands, 1 snapshot, 1 deadline, a channel of 1 | what a node knows, what a compaction may drop, no deadlock of the two locks |
| `controller_lost`, `shutdown_panic` | smallest instance | a promise of the documentation the code does not keep (section 5) |

The bounds count events the environment causes (`MaxCrash`, `MaxRestart`, `MaxExpire`, `MaxSnap`,
`MaxRotate`, `MaxDiskErr`, `MaxFail`, `MaxJam`, `MaxElection`), which would otherwise repeat for
ever, and `MaxAttempt`, `MaxLog`, `MaxCalls` the size of a counter, of a log and of what is under
way. They are large enough for the cases above: in `controller_late` `MaxRetry = 3`, the value of
cli.go:250 (death at the second failure, as each counts twice), so a late result, failing or not,
meets a job that waits, runs again or has ended. `MaxExpire` covers every deadline a job can miss before it dies, so no job
waits for one that the bound forbids (deadlock is checked in the controller runs without Stop).
One job is enough for recovery, since the events of different jobs do not
touch each other's entries; where jobs interact (the queue, the batch, the channels) the runs
have two. Three appends and batches of two give a full batch, one ended by the ticker, and a
request that a rotation leaves in the channel; two rotations and two crashes put a crash before,
inside and after each. Two nodes are enough for `replica`: a majority is both, so the leader
commits only what the follower has, and the follower falls behind in every way the calls allow.
Two servers are enough for the pairwise properties of replication; elections have
three. `shutdown` puts what Stop competes with into one instance: a caller that was answered and one
that is still in EnqueueJobs, results and requeues beside it, and a batch popped after the signal.
With disk errors, deadlines and periodic snapshots as well it exceeds TLC's reach (23 million
states with one disk error alone); these are in `master`, and for local mode in the theorems of
`ShutdownProofs`, which have no bound. In `master` one crash is either the end of the process after
Stop or a death before. `KeepWAL = FALSE` leaves the log out where no crash reads it. The dispatchers, the
jobs of `job_manager` and the servers of Raft are interchangeable; a run with a liveness property
uses no symmetry.

Some properties hold under a condition, part of the formula, because late results, recovery or
compaction break them in the code: `SingleExecution`, `StatsCountEachJobOnce` and
`DeadOnlyFromInFlight` until the first deadline passes or the first crash; `ClaimedOnce` until a
crash, since a replayed DISPATCH leaves the job in the restored queue and `Start` then requeues it
once more; `RetryBudget` until an append may have been refused or a snapshot has cut the log;
`WriteAhead` until a snapshot has cut the log, through refused appends, except that a job in flight
has its DISPATCH event only as long as none was refused; `FinalSnapshotIsFinal` and `CleanRestart`
in local mode (in master mode both fail, section 5), and they and `StoppedJobsSurvive` when the
snapshot of Stop reported no error; `ElectionSafety`, `LogMatching`,
`MatchIndexSound`, `NeverBackwards` and `CommitByMajority` as long as no server has restarted; those of `Replica` about the log on nodes
that are `Unharmed` (the leader, and every node until one has compacted). `AppendReturns` stops at
a log closed for good, where an append may really wait for ever. What breaks each is said next to
it.

**Fairness** (`FairSpec`, used by `controller_late`). Weak fairness of each loop's steps: Go
schedules every runnable goroutine and the mutex is handed over. `WorkerFinish` is fair because
an execution runs under a context with a timeout; `Timeout` because the ticker fires every second
and a missed deadline stays missed; `DiskRecovers` is an assumption on the environment. Nothing
is assumed of callers, crashes or errors. Without snapshots the run has no rotation, and no write
that jams the encoder: after a jam jobs wait for the next rotation, and after a failed rotation
they wait for ever.

`FairSpec` of `WAL` (run `wal`): the batch writer, whose ticker always comes, a caller at its
select, and the goroutine in Rotate or Close; nobody has to call. `SpecStop` (run `shutdown`): the
steps of Stop, of a loop that can return, of the workers (an execution has a timeout), of a
snapshot under way and of a dispatcher inside its batch, select being fair to a closed channel.
`Spec` of `Replica` (run `replica`): `applyLogs`, `applyLoop` and a snapshot that has begun go on;
nothing is assumed of the network, of clients or of polls.

## 4. Proofs

All theorems are for any sets of jobs, calls, dispatchers, workers, clients, servers and nodes,
any batches and any bounds, in both modes (for two properties of `Shutdown`, only the local one);
the assumptions are `FiniteJobs`, `AttemptAssumption`, `ControllerAssumption`, `FileAssumption`, `WALAssumption`, `RaftAssumption` and
`ReplicaAssumption`. Every safety property that a passing run checks is proved; `PROJECT.json`
says which theorem states which.

* `JobManagerLemmas` has one lemma per method: from `Sound(m, S)` (types, indexes, every pending
  job in the queue or in `S`) the method leads to a sound manager that is `Later` than `m`.
* `JobManagerProofs`: `ManagerTyped`, `IndexesConsistent`, `NoJobStranded`, `NoJobRevived` for the
  manager with its file; `SnapshotAlwaysComplete` from "what is renamed was synced"; and
  `FileImplementsSavedState`, from "what is written is the copy, whole, by the time it is renamed"
  and from `Restore` being an inverse of `Snapshot`.
* `ControllerProofs`: the same four for the composed system, and `SnapshotBehind`.
* `ControllerClaimProofs`: `RetriesBounded`, `LogAhead`, `ClaimedByOne`, `ExecutedOnce`,
  `DeathInFlight`, `StatsPartition`.
* `ShutdownProofs`: `FinalSnapshot` and `RestartAfterStop` in local mode; `SurvivorsOfStop`,
  `StoppingSnapshotIsPast` and `StoppingRevivesNone` in both.
* `WALProofs`: `WALTyped` and the refinement `WALImplementsDurableLog`.
* `RaftProofs`: `RaftTyped`; as long as no server has restarted, `LeaderUnique`, `LogsMatch`,
  `TermsAndLogsGrow`, `MatchIndexTrue` and `CommitsByMajority`.
* `ReplicaProofs`: `SoundReplicas` and `NothingRevived` on every node; `AppliedIsKnown` and
  `DroppedIsSaved` on the nodes no compaction can have harmed.

The controller's inductive invariant `IInv` strengthens the properties by three facts. A
dispatcher with a batch is inside it (`InBatch`), or `batch[n]` would be undefined. The state that
`snapshotLoop` copied is a past state of the manager until the write ends (`SaverIsPast`), which
is what keeps the snapshot on disk behind memory when it is replaced later (`SnapIsPast`).
`NoStrandedJob` is inductive only together with the indexes: `Requeue` must find the job in
flight, and the pop is covered by `Claimed`, the batches not yet marked. `ManagerStep` goes
through the actions once; crash and load are separate, since they start a new manager.

`ControllerClaimProofs` adds to `IInv` one invariant per question. Attempts: a live job is within
its budget (`WithinBudget`), because every caller that increments `Attempt` compares it under the
same lock; a process that recovers from an uncut log without a snapshot starts with an empty
manager (`FreshStart`), so nothing old counts. The log: as long as no snapshot was taken it only
grows, though not every append succeeds (`LogGrows`). What `WriteAhead` says of a running process
holds while it starts too (`StatusLogged`), and a job that is being enqueued, or marked when no
append was refused, has its event there already (`Announced`), which is what the second critical
section of `EnqueueJobs` and `dispatchLoop` relies on. `handleResult` and `timeoutLoop` change a
status only when their own append was not refused. Claims: the queue and the unmarked batches, taken as one family of
sequences, repeat no job, and none of their jobs is in flight (`ClaimsOf`); without that clause a
timeout would requeue a job that some batch still holds. A late result may kill a job in a batch,
and the mark that follows is refused, so the claim survives it. Executions: the batches to be submitted,
`taskCh`, the workers and `resultCh` have no job twice (`OnceOf`), the jobs in them are in flight,
and what is queued or claimed is not dead (`Alone`); hence a result always meets its own attempt.
`DeathInFlight` and `StatsPartition` follow from it.

`ShutdownProofs` follows `Stop` through its steps, in both modes. A loop that has ended does nothing
any more, and from "final" on all have (`Bound`): a dispatcher that looked at `stopCh` in time may
still pop, log, mark and submit one batch, but Stop waits until it looks again. What was known when
Stop was called is still known (`KnownBefore`). From the final copy on it is in the copy, then in
the file (`LastWord`), which gives `SurvivorsOfStop`. In local mode only callers of `EnqueueJobs`
are left by then, who add jobs and change none, so the copy has every status as it stays, and what
is appended after the last rotation is ENQUEUE, which replay skips: this is why the next start
cannot fail here, while after a crash it can. In master mode polls and acknowledgements go on, and
neither holds. The condition is that the snapshot of Stop reported no error (`finalErr`): disk
errors before it, and deadlines and snapshots beside it, do no harm. That only a snapshot leaves
the log without a batch writer (`Rotating`) is what makes Stop's own rotation run to its end.

The WAL's invariant says where each event is. A request is once in the channel or in the batch and
its caller waits (`Queued`); nothing is recorded before the batch writer has it (`Fresh`);
`Flushed` gives, for each step of `flushBatch`, the part of the batch that is recorded, so that a
batch answered without an error is below the fsync mark; `Acked` keeps every acknowledged event
there, which is what a crash spares, or among those a rotation has moved away; `Waiting` says that
whoever waits has its request in the channel or in the batch, so that a rotation, which comes when
the batch is empty, moves away no event of a call that waits; `Whole` says that only a failed
encoder leaves half a record in an open log, without which `Encode` could write what cannot be read
back. Each step then maps to one of `DurableLog` or to none (`UnseenStutters`): `Encode` to Record,
`EncodeFails` to Damage, which needs a call that is not answered, `Rename` to Clear.

Raft's invariant is about the votes that exist somewhere: `Granted(q, p, t)` when a reply under
way or the count of `p`'s election holds `q`'s vote for `p` in term `t`. The term of `q` has passed
`t`, or `q` is in `t` and `votedFor` still names `p` (`Remembered`); nobody gave two
(`VotesOnce`); a leader has a majority (`Elected`). Two majorities have a server in common, so two
leaders of one term are one. A restart forgets the votes, and the invariant is given up there.

The logs need more (`Logs`). An entry in a log or in a call under way is a link: its index, the
entry, and the term before it. Index and term determine the link (`Unique`), from which
`LogMatching` follows by going down the two logs. `Unique` survives `Propose` because a leader has
every entry of its term (`Ahead`), and this survives an election because every entry has an
`Owner`: the leader of its term, in whose favour a majority is locked, so that nobody else
wins that term and a new leader meets no entry of its own.

`matchIndex` is assigned from replies that come late and in any order (`rpc.go`), so it is true
only because every reply was (`RepliesTrue`): a follower that answered in a term it is still in
has the leader's log up to the index it named (`Follows`), which rests on each call carrying a
part of its leader's log (`CallsCarry`). A late call cannot take back what the follower said: it
carries a part of the same log, and `Merged` cuts only where an entry differs (`MergedKeeps`).
Commitment then counts servers of which this holds.

For `Replica` the invariant has two halves. On every node, also one whose log a compaction and a
late AppendEntries have put out of order, each entry is the index of a command that was proposed
(`Proposed`), so `applyLoop` never meets index 0 or one without a command (`OnTheWay`), and each of
the three users of the manager keeps it sound (`HandledSound`, `PolledSound`, `TimedOutSound`).
On an `Unharmed` node the log has no gap and reaches past `commitIndex` (`Consecutive`): the
leader's because only its own compactions change it (`DeleteRangeConsecutive`), a follower's
because all it is sent follows an entry it has (`StoredConsecutive`). Then `applyLogs` finds every
entry it looks for, `applyCh` holds exactly the indexes between the manager's and Raft's
(`InOrder`), and the manager's jobs are those of the commands it has counted (`KnowsOf`). A copy
taken under `c.mu` covers the commands up to the index read with it (`CopyCovers`), which is never
behind what was compacted; so the file written before the compaction covers it (`Covered`).

Only model-checked: liveness (`EveryJobEnds`, `AppendReturns`, `StopReturns`,
`CommittedIsApplied`), which is outside the prover's reach.

## 5. Where the code and its documentation differ

* **Accepted jobs are lost** (`controller_lost`). `replayWAL` skips ENQUEUE
  (`controller.go:346`), so a crash forgets every job accepted since the last snapshot, against
  README.md:21 and docs/crash-recovery-explained.md:62-63.
* **Submit can panic during Stop** (`shutdown_panic`). `Submit` selects between `taskCh` and
  `stopCh` after `Stop` closed both; a send on a closed channel is a ready case that panics.
  The comments at `worker_pool.go:281-298` and `:333` say that the closed `stopCh` is chosen first,
  and that Stop comes after the loops have ended; `Controller.Stop` stops the pool
  (`controller.go:786`) before it waits for them (`:788`).

These have no run of their own; adding the property to the configuration named shows them:

* **Replay fails Start** (`ReplayNeverFails`, MCControllerCrash.cfg). Events about jobs the
  snapshot lacks, or has in a later status, return an error (`controller.go:358`), against the
  comment at `controller.go:336`.
* **Half the retries** (`DeadAfterMaxRetry`, MCControllerLate.cfg with `KeepWAL = TRUE`). `Attempt` is incremented by
  the caller and by `Requeue`; with `MaxRetry = 3` a job dies at its second failure.
* **A job accepted during Stop may be lost** (`LateJobsSurvive`, MCShutdown.cfg). EnqueueJobs does
  not look at `stopped`, against `cli.go:68` ("Stop accepting new jobs"): what it logs after the
  final snapshot's copy is not replayed.
* **A master serves while it stops** (`NoAccessAfterLoops`, MCMaster.cfg). Stop waits for the loops
  to "ensure no goroutines access resources anymore" (`controller.go:787`), but nothing stops the
  gRPC server (`cli.go:289-311`): polls and acknowledgements change jobs after the final snapshot was
  copied. It is then not the last word, and the events they log after the rotation can make the
  next start fail, as after a crash; without `~ Remote`, `FinalSnapshotIsFinal` and `CleanRestart`
  are violated in MCMaster.cfg. (In both modes a caller of EnqueueJobs still adds jobs.)
* **A torn record ends the start** (`ReplaySkipsTorn`, MCWAL.cfg). "Skip corrupted records" say the
  comments at `wal.go:84` and `:94`; `Replay` returns the decoding error (`wal.go:340-342`) and
  `Start` fails, although the acknowledged events before the tear could be read.
* **Sequence numbers go down** (`SeqIncreases`, MCWAL.cfg with `Numbered = TRUE`). Requests take
  their numbers before they enter the channel, and Rotate resets the counter under them, against
  "monotonically increasing" in `storage/wal/types.go`.
* **Raft elects a server with an old log** (`StateMachineSafety`, MCRaft.cfg). `isUpToDate := true`
  (`rpc.go:40`), against README.md:101.
* **Replicas differ** (`ReplicasAgree`, MCReplica.cfg). A poll marks the job in flight on one node
  only; on the others an acknowledged job cannot be marked completed (the error is dropped in
  `handleRaftCommand`), against the "strong consistency" of README.md:14.
* **A compacted log repeats entries** (`CompactionKeepsOrder`, MCReplica.cfg with one job,
  `MaxLog = 3`, `MaxExpire = 0`). `rpc.go:98-117` appends entries it does not find, also those the
  node has compacted away, behind newer ones: positions and indexes then disagree. A compaction
  that empties the log makes `FirstIndex` and `LastIndex` panic at the next call (`Panic`).

Also visible in the model, without a run of their own: a late result can kill a pending job
(`MarkDead` checks no status), which the life cycle in `job_manager.go:15-26` does not have;
`Stats` counts a job twice after a late failing result or a replayed DISPATCH; a batch is marked and
dispatched, or handed to a poll, although its DISPATCH events could not be logged, against "WAL must
be written before state changes" (`controller.go:389`); Raft's "persistent state"
(`raft.go:57`) is in memory, so after a restart a server votes twice in a term.

## 6. Not modelled

* Two processes on the same files: `enqueue` starts a second controller beside a running server
  (`cli.go:379-437`, as README.md:65-69 shows). Their handles, appends and renames interleave below
  the level of any model here.
* Raft compaction together with elections and restarts. `Replica` keeps one leader: `Raft` already
  violates `StateMachineSafety` without compaction, so what would be checked of the two together
  fails for that reason.
* `Raft.Stop`, the connection map of the transport and its data race, and worker leases, which are
  renewed while nothing reads their expiry.
* An abstract queue in which jobs are accepted, run and ended was planned as a further
  specification for `Controller`; `Later` and `NoRevival` say what it would, per step.

Left out for good: flags and output of the command line, metrics, generated code, payloads, the
wording of logs, backups of snapshots, and the unused helpers of the WAL package. A `Poll` of several jobs is
one step, so a rotation between two of its appends is left out.
