--------------------------- MODULE JobManagerOps ---------------------------
(***************************************************************************)
(* The methods of internal/jobmanager as operators on the manager's state. *)
(*                                                                         *)
(* A manager is a record.  The map jobs of the code is status and attempt, *)
(* the fields of a job the methods read and write; the maps inFlight,      *)
(* completed and dead hold pointers into jobs, so here they are the sets   *)
(* of their keys; queue is the slice of pending identifiers.  Every method *)
(* runs under jm.mu, and so is one step.  A method that returns an error   *)
(* leaves the manager as it is: its guard is an operator of its own, so    *)
(* that a caller can tell the error from the success.                      *)
(*                                                                         *)
(* A definition whose comment begins with "Fault" is a wrong version of    *)
(* the one after it.  Nothing uses it but the mutants that show that a     *)
(* property notices the fault.                                             *)
(***************************************************************************)
EXTENDS Integers, Sequences, FiniteSets

CONSTANT Job            \* the job identifiers

ASSUME FiniteJobs == IsFiniteSet(Job)

Live     == {"pending", "in_flight"}
Terminal == {"completed", "dead"}
Status   == {"absent"} \cup Live \cup Terminal

Manager == [status    : [Job -> Status],
            attempt   : [Job -> Nat],
            queue     : Seq(Job),
            inFlight  : SUBSET Job,
            completed : SUBSET Job,
            dead      : SUBSET Job]

(* What a snapshot keeps of a manager: the map of jobs. *)
SnapshotData == [status : [Job -> Status], attempt : [Job -> Nat]]

NoJobs == [status |-> [j \in Job |-> "absent"], attempt |-> [j \in Job |-> 0]]

NewJobManager ==
    [status |-> NoJobs.status, attempt |-> NoJobs.attempt, queue |-> <<>>,
     inFlight |-> {}, completed |-> {}, dead |-> {}]

Elems(q) == {q[i] : i \in DOMAIN q}

WithStatus(m, st) == {j \in Job : m.status[j] = st}

Known(m, j) == m.status[j] # "absent"

-----------------------------------------------------------------------------
(* Fault: duplicates are not refused. *)
AcceptsDuplicates(m, q, n) == n = Len(q)

(* Enqueue refuses an identifier that exists (ErrDuplicateJob).  The callers *)
(* enqueue a batch q in order and stop at the first refusal: the first n     *)
(* jobs of q get in.                                                         *)
Accepts(m, q, n) ==
    LET fresh(i) == ~ Known(m, q[i]) /\ \A h \in 1 .. i - 1 : q[h] # q[i]
    IN (\A i \in 1 .. n : fresh(i)) /\ (n < Len(q) => ~ fresh(n + 1))

(* Enqueue of the jobs of q, all of them new. *)
Enqueue(m, q) ==
    [m EXCEPT !.status  = [j \in Job |-> IF j \in Elems(q) THEN "pending" ELSE @[j]],
              !.attempt = [j \in Job |-> IF j \in Elems(q) THEN 0 ELSE @[j]],
              !.queue   = @ \o q]

(* Fault: one entry too few leaves the queue. *)
PopPendingShort(m, n) == [m EXCEPT !.queue = SubSeq(@, n, Len(@))]

(* PopPending, called n times: the first n entries leave the queue; the jobs *)
(* themselves do not change.                                                 *)
Popped(m, n)     == SubSeq(m.queue, 1, n)
PopPending(m, n) == [m EXCEPT !.queue = SubSeq(@, n + 1, Len(@))]

(* Fault: any job that exists may be marked. *)
CanMarkKnown(m, j) == Known(m, j)

(* MarkInFlight: only a pending job; the queue is not looked at. *)
CanMarkInFlight(m, j) == m.status[j] = "pending"

(* MarkInFlight of every job of the set S in turn, the refusals ignored. *)
MarkInFlight(m, S) ==
    LET T == {j \in S : CanMarkInFlight(m, j)}
    IN [m EXCEPT !.status   = [j \in Job |-> IF j \in T THEN "in_flight" ELSE @[j]],
                 !.inFlight = @ \cup T]

(* Fault: only the absence of the job is an error. *)
CanFinishKnown(m, j) == Known(m, j)

(* MarkCompleted and Requeue: refused (ErrNotInFlight) unless in flight. *)
CanFinish(m, j) == m.status[j] = "in_flight"

(* Fault: the job stays in inFlight. *)
MarkCompletedInFlight(m, j) ==
    [m EXCEPT !.status[j] = "completed", !.completed = @ \cup {j}]

MarkCompleted(m, j) ==
    [m EXCEPT !.status[j] = "completed",
              !.inFlight  = @ \ {j},
              !.completed = @ \cup {j}]

(* Fault: the job does not come back to the queue. *)
RequeueUnqueued(m, j) ==
    [m EXCEPT !.status[j] = "pending", !.attempt[j] = @ + 1, !.inFlight = @ \ {j}]

(* Fault: the attempt is given back. *)
RequeueRefunded(m, j) ==
    [m EXCEPT !.status[j]  = "pending",
              !.attempt[j] = @ - 1,
              !.inFlight   = @ \ {j},
              !.queue      = Append(@, j)]

Requeue(m, j) ==
    [m EXCEPT !.status[j]  = "pending",
              !.attempt[j] = @ + 1,
              !.inFlight   = @ \ {j},
              !.queue      = Append(@, j)]

(* MarkDead: any job that exists, whatever its status; only inFlight is      *)
(* cleared of it.                                                            *)
CanMarkDead(m, j) == Known(m, j)

MarkDead(m, j) ==
    [m EXCEPT !.status[j] = "dead", !.inFlight = @ \ {j}, !.dead = @ \cup {j}]

(* The callers that hold a *Job increment its Attempt field themselves. *)
BumpAttempt(m, j) == [m EXCEPT !.attempt[j] = @ + 1]

-----------------------------------------------------------------------------
Snapshot(m) == [status |-> m.status, attempt |-> m.attempt]

(* In Raft mode a snapshot has the jobs that have not ended. *)
PartialSnapshot(m) ==
    [status  |-> [j \in Job |-> IF m.status[j] \in Live THEN m.status[j] ELSE "absent"],
     attempt |-> [j \in Job |-> IF m.status[j] \in Live THEN m.attempt[j] ELSE 0]]

(* The job map is iterated in an arbitrary order. *)
Orderings(S) ==
    {q \in [1 .. Cardinality(S) -> S] : \A j \in S : \E i \in DOMAIN q : q[i] = j}

(* The managers Restore can build from a snapshot. *)
Restore(d) ==
    {[status    |-> d.status,
      attempt   |-> d.attempt,
      queue     |-> q,
      inFlight  |-> WithStatus(d, "in_flight"),
      completed |-> WithStatus(d, "completed"),
      dead      |-> WithStatus(d, "dead")] : q \in Orderings(WithStatus(d, "pending"))}

(* Requeue of every job in flight, in the order the inFlight map yields. *)
RequeueInFlight(m) ==
    {[m EXCEPT !.status   = [j \in Job |-> IF j \in m.inFlight THEN "pending" ELSE @[j]],
               !.attempt  = [j \in Job |-> IF j \in m.inFlight THEN @[j] + 1 ELSE @[j]],
               !.inFlight = {},
               !.queue    = @ \o q] : q \in Orderings(m.inFlight)}

(* Stats: the sizes of the four indexes. *)
StatsTotal(m) ==
    Len(m.queue) + Cardinality(m.inFlight) + Cardinality(m.completed) + Cardinality(m.dead)

GetTotalJobs(m) == Cardinality({j \in Job : Known(m, j)})

-----------------------------------------------------------------------------
(* The index maps agree with the statuses.  A completed job that is marked   *)
(* dead stays in the completed map, which therefore may hold dead jobs.      *)
IndexesAgree(m) ==
    /\ m.inFlight = WithStatus(m, "in_flight")
    /\ m.dead     = WithStatus(m, "dead")
    /\ WithStatus(m, "completed") \subseteq m.completed
    /\ m.completed \subseteq {j \in Job : m.status[j] \in Terminal}

(* Every pending job is in the queue or among the jobs S. *)
NoneStranded(m, S) ==
    \A j \in Job : m.status[j] = "pending" => j \in Elems(m.queue) \cup S

(* n is a later state than m, or snapshot m of a manager: what it knows is   *)
(* still known, and what has ended there has ended.                          *)
Later(m, n) ==
    \A j \in Job : /\ Known(m, j) => Known(n, j)
                   /\ m.status[j] \in Terminal => n.status[j] \in Terminal
=============================================================================
