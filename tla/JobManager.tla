----------------------------- MODULE JobManager -----------------------------
(***************************************************************************)
(* internal/jobmanager on its own, called by clients that keep no order:   *)
(* any method may be called on any job at any time.  SnapshotFile adds the *)
(* restarts; Controller uses the same operators under the calling          *)
(* discipline of the real loops.                                           *)
(*                                                                         *)
(* held is the set of jobs popped by callers that have not yet called      *)
(* MarkInFlight on them: PopPending takes a job out of the queue without   *)
(* changing its status, so in between only the caller knows the job waits. *)
(***************************************************************************)
EXTENDS JobManagerOps

CONSTANT MaxAttempt     \* bound: no Requeue of a job tried this many times

ASSUME AttemptAssumption == MaxAttempt \in Nat

VARIABLES jm,           \* the manager
          held          \* jobs popped and not yet marked by the popper

managerVars == <<jm, held>>

InitManager == jm = NewJobManager /\ held = {}

-----------------------------------------------------------------------------
EnqueueJob(j) ==
    /\ ~ Known(jm, j)
    /\ jm' = Enqueue(jm, <<j>>)
    /\ UNCHANGED held

Pop ==
    /\ jm.queue # <<>>
    /\ held' = held \cup {Head(jm.queue)}
    /\ jm' = PopPending(jm, 1)

(* The caller that popped j gives it up whether or not the call succeeds. *)
Mark(j) ==
    /\ Known(jm, j)
    /\ jm' = MarkInFlight(jm, {j})
    /\ held' = held \ {j}

Complete(j) ==
    /\ CanFinish(jm, j)
    /\ jm' = MarkCompleted(jm, j)
    /\ UNCHANGED held

Retry(j) ==
    /\ CanFinish(jm, j)
    /\ jm.attempt[j] < MaxAttempt
    /\ jm' = Requeue(jm, j)
    /\ UNCHANGED held

Kill(j) ==
    /\ CanMarkDead(jm, j)
    /\ jm' = MarkDead(jm, j)
    /\ UNCHANGED held

-----------------------------------------------------------------------------
(* The index maps follow the statuses through every sequence of calls: they  *)
(* are what GetExpiredJobs, IsCompleted, IsDead and Stats read, and six      *)
(* methods update them by hand.                                              *)
IndexConsistency == IndexesAgree(jm)

(* A job that waits can still be run: it is in the queue, or a caller that   *)
(* popped it is about to mark it.  PopPending drops the queue entry while    *)
(* the status stays pending, so nothing else would ever find the job again.  *)
NoStrandedJob == NoneStranded(jm, held)
=============================================================================
