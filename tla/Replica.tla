------------------------------ MODULE Replica ------------------------------
(***************************************************************************)
(* The queue in Raft mode: on every node the Raft log and its compaction,  *)
(* applyCh, applyLoop, the job manager and takeSnapshot, and in front of   *)
(* them the gRPC server with the remote workers that poll it.              *)
(*                                                                         *)
(* Elections are in module Raft; here one leader stays in office, in term  *)
(* 1, so that an entry is its index and log says which command that is.    *)
(* Every node starts empty and none restarts: what the WAL records in this *)
(* mode is read only by a restart, and is left out.                        *)
(***************************************************************************)
EXTENDS JobManagerOps

CONSTANTS Node, Leader,
          MaxRetry,     \* Config.MaxRetry
          BatchSize,    \* jobs a worker polls at once
          ApplyCap,     \* capacity of applyCh (100)
          MaxLog,       \* bound on the commands proposed, and on the log of a node
          MaxSnap,      \* bound on the snapshots
          MaxExpire     \* bound on the deadlines that pass

ASSUME ReplicaAssumption ==
    /\ Leader \in Node /\ IsFiniteSet(Node)
    /\ {MaxRetry, MaxLog, MaxSnap, MaxExpire} \subseteq Nat
    /\ {BatchSize, ApplyCap} \subseteq Nat \ {0}

VARIABLES
    log,        \* the commands the leader has proposed, by index
    rf,         \* Raft: entries, commitIndex, lastApplied, lastIncludedIndex,
                \*   and whether applyLogs runs, which holds rf.mu
    applyCh,    \* entries on their way from applyLogs to applyLoop
    applied,    \* applyLoop: the entry handled whose index is not stored yet, or 0
    jm,         \* the job manager
    lastIndex,  \* its lastAppliedIndex
    saver,      \* takeSnapshot: its step, the copied jobs and their LastSeq
    snap,       \* the snapshot file
    held,       \* the jobs the workers of a node run
    up,         \* FALSE after a panic
    used        \* the bounded events that have happened

vars == <<log, rf, applyCh, applied, jm, lastIndex, saver, snap, held, up, used>>

EnqueueCommand(j) == [type |-> "ENQUEUE", job |-> j]
AckCommand(j, st) == [type |-> "ACK", job |-> j, status |-> st]

(* MemoryLogStore: what is left of the log, found by its distance from the   *)
(* first entry.  Index 0 is a dummy, of term 0.                              *)
First(e) == Head(e)
Last(e)  == e[Len(e)]
Has(e, i)    == i - First(e) \in 0 .. Len(e) - 1
GetLog(e, i) == e[i - First(e) + 1]
StoreLogs(e, new) == e \o new
DeleteRange(e, min, max) ==
    LET kept   == {k \in DOMAIN e : e[k] < min \/ e[k] > max}
        nth(i) == CHOOSE k \in kept : Cardinality({h \in kept : h <= k}) = i
    IN  [i \in 1 .. Cardinality(kept) |-> e[nth(i)]]
Term(i) == IF i = 0 THEN 0 ELSE 1

NewRaft  == [entries |-> <<0>>, commit |-> 0, applied |-> 0, included |-> 0, sending |-> FALSE]
IdleSaver == [pc |-> "idle", data |-> NoJobs, seq |-> 0]

Init ==
    /\ log = <<>>
    /\ rf = [n \in Node |-> NewRaft]
    /\ applyCh = [n \in Node |-> <<>>] /\ applied = [n \in Node |-> 0]
    /\ jm = [n \in Node |-> NewJobManager] /\ lastIndex = [n \in Node |-> 0]
    /\ saver = [n \in Node |-> IdleSaver] /\ snap = [n \in Node |-> NoJobs]
    /\ held = [n \in Node |-> {}] /\ up = [n \in Node |-> TRUE]
    /\ used = [snap |-> 0, expired |-> 0]

(* A handler of the Raft node can run: rf.mu is free, and FirstIndex and     *)
(* LastIndex find an entry.                                                  *)
Free(n) == up[n] /\ ~ rf[n].sending /\ rf[n].entries # <<>>

(* They index an empty slice once a compaction has removed the last entry:   *)
(* the next heartbeat, proposal or AppendEntries ends the process.           *)
Panic(n) ==
    /\ up[n] /\ ~ rf[n].sending /\ rf[n].entries = <<>>
    /\ up' = [up EXCEPT ![n] = FALSE]
    /\ UNCHANGED <<log, rf, applyCh, applied, jm, lastIndex, saver, snap, held, used>>

-----------------------------------------------------------------------------
(* Propose, of the leader: a new entry. *)
Propose(c) ==
    /\ Free(Leader) /\ Len(log) < MaxLog
    /\ log' = Append(log, c)
    /\ rf' = [rf EXCEPT ![Leader].entries = StoreLogs(@, <<Len(log) + 1>>)]

(* SubmitJob answers Success when the entry is stored.  Any other node       *)
(* answers "Not the leader" and changes nothing.                             *)
SubmitJob(j) ==
    /\ Propose(EnqueueCommand(j))
    /\ UNCHANGED <<applyCh, applied, jm, lastIndex, saver, snap, held, up, used>>

(* PollJobs hands out jobs of the node it is called on, the leader or not,   *)
(* and no other node hears of it.                                            *)
PollJobs(n) ==
    LET count == IF Len(jm[n].queue) < BatchSize THEN Len(jm[n].queue) ELSE BatchSize
        jobs  == Elems(Popped(jm[n], count))
    IN /\ up[n] /\ jobs # {}
       /\ jm' = [jm EXCEPT ![n] = MarkInFlight(PopPending(@, count), jobs)]
       /\ held' = [held EXCEPT ![n] = @ \cup jobs]
       /\ UNCHANGED <<log, rf, applyCh, applied, lastIndex, saver, snap, up, used>>

(* What ackLoop makes of a result: a failure is reported as dead. *)
Reported == {"completed", "dead"}

(* AcknowledgeJob, once and at the node that was polled: the leader proposes *)
(* it, another node rejects it and the result is lost.                       *)
AcknowledgeJob(n, j) ==
    /\ up[n] /\ j \in held[n]
    /\ held' = [held EXCEPT ![n] = @ \ {j}]
    /\ IF n = Leader THEN \E st \in Reported : Propose(AckCommand(j, st))
       ELSE UNCHANGED <<log, rf>>
    /\ UNCHANGED <<applyCh, applied, jm, lastIndex, saver, snap, up, used>>

-----------------------------------------------------------------------------
(* AppendEntries stores what follows the first entry it does not find: one   *)
(* past its last, or one that GetLog does not have.                          *)
Stored(e, sent) ==
    LET missing == {i \in DOMAIN sent : sent[i] > Last(e) \/ ~ Has(e, sent[i])}
        k == CHOOSE i \in missing : \A h \in missing : i <= h
    IN  IF missing = {} THEN e ELSE StoreLogs(e, SubSeq(sent, k, Len(sent)))

(* The first index of the leader's log. *)
Start == IF rf[Leader].included = 0 THEN 0 ELSE rf[Leader].included + 1

(* replicateToPeer sends the entries after prev that the leader has: those   *)
(* from first on.                                                            *)
Sent(prev, first, last) ==
    LET from == IF prev >= first THEN prev ELSE first - 1
    IN  [i \in 1 .. last - from |-> from + i]

(* The commit index after one of the leader's came, when the log ends at last. *)
CommitIndex(old, new, last) ==
    IF new <= old THEN old ELSE IF new < last THEN new ELSE last

(* A call was made when the leader's log ended at last and began at first;   *)
(* what it had compacted is left out, and has term 0.  A call may be lost,   *)
(* repeated, delayed and overtaken by others: any call of the past may       *)
(* arrive.                                                                   *)
AppendEntries(n) ==
    /\ n # Leader /\ Free(n)
    /\ \E last \in 0 .. Len(log), first \in 0 .. Start : first <= last /\
       \E prev \in 0 .. last, commit \in 0 .. rf[Leader].commit :
         LET e   == rf[n].entries
             new == Stored(e, Sent(prev, first, last))
         IN /\ prev <= Last(e) /\ Len(new) <= MaxLog + 1 /\ commit <= last
            /\ Has(e, prev) => Term(GetLog(e, prev)) = IF prev >= first THEN Term(prev) ELSE 0
            /\ rf' = [rf EXCEPT ![n].entries = new,
                                ![n].commit = CommitIndex(@, commit, Last(new))]
    /\ UNCHANGED <<log, applyCh, applied, jm, lastIndex, saver, snap, held, up, used>>

(* updateCommitIndex of the leader: a majority has the entry. *)
Commit ==
    /\ Free(Leader)
    /\ \E i \in rf[Leader].commit + 1 .. Last(rf[Leader].entries) :
         /\ 2 * Cardinality({n \in Node : i <= rf[n].included \/ i \in Elems(rf[n].entries)})
              > Cardinality(Node)
         /\ rf' = [rf EXCEPT ![Leader].commit = i]
    /\ UNCHANGED <<log, applyCh, applied, jm, lastIndex, saver, snap, held, up, used>>

-----------------------------------------------------------------------------
(* applyLogs locks rf.mu, ... *)
ApplyLogs(n) ==
    /\ Free(n) /\ rf[n].commit > rf[n].applied
    /\ rf' = [rf EXCEPT ![n].sending = TRUE]
    /\ UNCHANGED <<log, applyCh, applied, jm, lastIndex, saver, snap, held, up, used>>

Deliver(n, found) ==
    LET i == rf[n].applied + 1
    IN /\ up[n] /\ rf[n].sending
       /\ applyCh' = IF found THEN [applyCh EXCEPT ![n] = Append(@, GetLog(rf[n].entries, i))]
                     ELSE applyCh
       /\ rf' = [rf EXCEPT ![n].applied = i, ![n].sending = i < rf[n].commit]
       /\ UNCHANGED <<log, applied, jm, lastIndex, saver, snap, held, up, used>>

Found(n) == Has(rf[n].entries, rf[n].applied + 1)
Room(n)  == Len(applyCh[n]) < ApplyCap

(* Fault: a message that finds applyCh full is dropped. *)
ApplySendOrDrop(n) == Deliver(n, rf[n].sending /\ Found(n) /\ Room(n))

(* ... and sends the committed entries one by one, skipping those it does    *)
(* not find; it keeps rf.mu while applyCh is full.                           *)
ApplySend(n) ==
    /\ rf[n].sending /\ (Found(n) => Room(n))
    /\ Deliver(n, Found(n))

-----------------------------------------------------------------------------
(* Fault: takeSnapshot keeps c.mu until the log is compacted. *)
LockableAfterSnapshot(n) == up[n] /\ saver[n].pc = "idle"

(* c.mu is only held within a step: takeSnapshot gives it back before it     *)
(* writes the file and calls raft.Snapshot.                                  *)
Lockable(n) == up[n]

(* Fault: a job that exists is enqueued again. *)
HandledTwice(m, c) ==
    IF c.type = "ENQUEUE" THEN Enqueue(m, <<c.job>>)
    ELSE IF c.job \in m.completed \cup m.dead \/ ~ Known(m, c.job) THEN m
    ELSE IF c.status = "dead" THEN MarkDead(m, c.job)
    ELSE IF CanFinish(m, c.job) THEN MarkCompleted(m, c.job) ELSE m

(* handleRaftCommand.  A completed job this node did not dispatch is refused *)
(* by MarkCompleted, and the error is dropped.                               *)
Handled(m, c) ==
    IF c.type = "ENQUEUE" THEN IF Known(m, c.job) THEN m ELSE Enqueue(m, <<c.job>>)
    ELSE IF c.job \in m.completed \cup m.dead \/ ~ Known(m, c.job) THEN m
    ELSE IF c.status = "dead" THEN MarkDead(m, c.job)
    ELSE IF CanFinish(m, c.job) THEN MarkCompleted(m, c.job) ELSE m

(* applyLoop: the command under c.mu, ... *)
HandleCommand(n) ==
    /\ Lockable(n) /\ applied[n] = 0 /\ applyCh[n] # <<>>
    /\ applied' = [applied EXCEPT ![n] = Head(applyCh[n])]
    /\ jm' = [jm EXCEPT ![n] = Handled(@, log[Head(applyCh[n])])]
    /\ applyCh' = [applyCh EXCEPT ![n] = Tail(@)]
    /\ UNCHANGED <<log, rf, lastIndex, saver, snap, held, up, used>>

StoreIndex(n, i) ==
    /\ up[n] /\ applied[n] # 0
    /\ lastIndex' = [lastIndex EXCEPT ![n] = i]
    /\ applied' = [applied EXCEPT ![n] = 0]
    /\ UNCHANGED <<log, rf, applyCh, jm, saver, snap, held, up, used>>

(* Fault: the index Raft has reached, and not that of the command. *)
StoreRaftIndex(n) == StoreIndex(n, rf[n].applied)

(* ... then its index, without it. *)
SetLastAppliedIndex(n) == StoreIndex(n, applied[n])

-----------------------------------------------------------------------------
(* timeoutLoop runs on every node, for what that node dispatched; it counts  *)
(* the attempt, and Requeue counts it again.                                 *)
Timeout(n, j) ==
    LET m == BumpAttempt(jm[n], j)
    IN /\ Lockable(n) /\ j \in jm[n].inFlight /\ used.expired < MaxExpire
       /\ used' = [used EXCEPT !.expired = @ + 1]
       /\ jm' = [jm EXCEPT ![n] = IF m.attempt[j] >= MaxRetry THEN MarkDead(m, j) ELSE Requeue(m, j)]
       /\ UNCHANGED <<log, rf, applyCh, applied, lastIndex, saver, snap, held, up>>

Copy(n, seq) ==
    /\ Lockable(n) /\ saver[n].pc = "idle" /\ used.snap < MaxSnap
    /\ saver' = [saver EXCEPT ![n] =
          [pc |-> "write", data |-> PartialSnapshot(jm[n]), seq |-> seq]]
    /\ used' = [used EXCEPT !.snap = @ + 1]
    /\ UNCHANGED <<log, rf, applyCh, applied, jm, lastIndex, snap, held, up>>

(* Fault: LastSeq is Raft's lastApplied, and not what the manager has applied. *)
SnapCopyAhead(n) == Copy(n, rf[n].applied)

(* takeSnapshot: copy under c.mu, write the file, ... *)
SnapCopy(n) == Copy(n, lastIndex[n])

SnapWrite(n) ==
    /\ up[n] /\ saver[n].pc = "write"
    /\ snap' = [snap EXCEPT ![n] = saver[n].data]
    /\ saver' = [saver EXCEPT ![n].pc = "compact"]
    /\ UNCHANGED <<log, rf, applyCh, applied, jm, lastIndex, held, up, used>>

(* ... and let Raft drop the entries up to LastSeq.  (Rotate follows.) *)
SnapCompact(n) ==
    /\ Free(n) /\ saver[n].pc = "compact"
    /\ LET i == saver[n].seq
           e == rf[n].entries
       IN rf' = IF i <= rf[n].included \/ ~ Has(e, i) THEN rf
                ELSE [rf EXCEPT ![n].included = i, ![n].entries = DeleteRange(e, First(e), i)]
    /\ saver' = [saver EXCEPT ![n] = IdleSaver]
    /\ UNCHANGED <<log, applyCh, applied, jm, lastIndex, snap, held, up, used>>

-----------------------------------------------------------------------------
ApplyStep(n) == ApplyLogs(n) \/ ApplySend(n) \/ HandleCommand(n) \/ SetLastAppliedIndex(n)
SaverStep(n) == SnapWrite(n) \/ SnapCompact(n)

Next ==
    \/ \E j \in Job : SubmitJob(j)
    \/ Commit
    \/ \E n \in Node :
         \/ Panic(n) \/ PollJobs(n) \/ AppendEntries(n)
         \/ ApplyStep(n) \/ SnapCopy(n) \/ SaverStep(n)
         \/ \E j \in Job : AcknowledgeJob(n, j) \/ Timeout(n, j)

(* applyLogs, applyLoop and a snapshot that has begun go on. *)
Spec ==
    /\ Init /\ [][Next]_vars
    /\ \A n \in Node :
         /\ WF_vars(ApplyLogs(n)) /\ WF_vars(ApplySend(n))
         /\ WF_vars(HandleCommand(n)) /\ WF_vars(SetLastAppliedIndex(n))
         /\ WF_vars(SaverStep(n))

-----------------------------------------------------------------------------
(* On every node the indexes of the manager agree with the statuses, under   *)
(* the commands of Raft and what the node does by itself.                    *)
IndexConsistency == \A n \in Node : IndexesAgree(jm[n])

(* The same job is submitted twice, acknowledged after it timed out, or      *)
(* killed locally: no node takes back a job that has ended.                  *)
NoRevival == [][\A n \in Node : Later(jm[n], jm'[n])]_vars

(* Nodes whose log no compaction can have harmed (see CompactionKeepsOrder). *)
Unharmed == {n \in Node : n = Leader \/ \A m \in Node : rf[m].included = 0}

(* A job is known on a node exactly when the commands it has handled say so: *)
(* applyLoop takes every command once, in the order of the log.              *)
KnowsWhatWasApplied ==
    \A n \in Unharmed :
      LET count == IF applied[n] # 0 THEN applied[n] ELSE lastIndex[n]
      IN \A j \in Job : Known(jm[n], j) <=>
            \E i \in 1 .. count : log[i] = EnqueueCommand(j)

(* The entries Raft drops are in the snapshot: a job of a dropped ENQUEUE is *)
(* there, or had ended.  LastSeq is read under c.mu and written without it,  *)
(* after the command.                                                        *)
SnapshotCoversCompacted ==
    \A n \in Unharmed : \A i \in 1 .. rf[n].included :
      log[i].type = "ENQUEUE" =>
        \/ snap[n].status[log[i].job] # "absent"
        \/ jm[n].status[log[i].job] \in Terminal

(* The manager catches up with the committed commands again and again:       *)
(* applyLogs, which holds rf.mu while applyCh is full, applyLoop, which      *)
(* wants c.mu, and takeSnapshot, which takes one after the other, never wait *)
(* for each other.                                                           *)
CommittedIsApplied ==
    \A n \in Node :
      []<>(n \in Unharmed /\ up[n] => lastIndex[n] >= rf[n].commit)

(* Raft delivers the commands to every state machine one after the other in  *)
(* the order of the log (State Machine Safety, README.md), also after some   *)
(* node has compacted its log.                                               *)
CompactionKeepsOrder ==
    [][\A n \in Node : lastIndex'[n] # lastIndex[n] => lastIndex'[n] = lastIndex[n] + 1]_vars

(* Replicas that have applied the same commands agree on the jobs that are   *)
(* completed ("strong consistency").                                         *)
ReplicasAgree ==
    \A n, m \in Node :
      lastIndex[n] = lastIndex[m] /\ applied[n] = 0 /\ applied[m] = 0 =>
        WithStatus(jm[n], "completed") = WithStatus(jm[m], "completed")
=============================================================================
