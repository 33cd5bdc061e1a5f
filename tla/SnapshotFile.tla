---------------------------- MODULE SnapshotFile ----------------------------
(***************************************************************************)
(* internal/snapshot under the job manager: how Write replaces the file,   *)
(* what a crash leaves of it, and what Load makes of what is left.         *)
(*                                                                         *)
(* A file has a state and the data that reading it would yield.  A rename  *)
(* is atomic, says the file system; the data of a file outlives a crash of *)
(* the machine only when it was synced.                                    *)
(***************************************************************************)
EXTENDS JobManager

CONSTANTS MaxRestart,   \* bound on the restarts
          MaxSnap,      \* bound on the snapshots
          MaxFail       \* bound on the file operations that fail

ASSUME FileAssumption == {MaxRestart, MaxSnap, MaxFail} \subseteq Nat

VARIABLES
    process,    \* "running" or "down"
    step,       \* what Write does next
    copy,       \* what it was called with (nothing when it is not running)
    tmp,        \* snapshot.json.tmp
    file,       \* snapshot.json
    used        \* the bounded events that have happened

allVars == <<jm, held, process, step, copy, tmp, file, used>>

(* Missing; a part of the data; all of it in the cache; on the platter. *)
File    == [state : {"none", "torn", "written", "synced"}, data : SnapshotData]
Missing == [state |-> "none", data |-> NoJobs]
Torn    == [state |-> "torn", data |-> NoJobs]

InitFile ==
    /\ InitManager
    /\ process = "running" /\ step = "idle" /\ copy = NoJobs
    /\ tmp = Missing /\ file = Missing
    /\ used = [snap |-> 0, fail |-> 0, restart |-> 0]

-----------------------------------------------------------------------------
(* The methods of the manager, at any moment of a Write. *)
Calls ==
    /\ process = "running"
    /\ \/ \E j \in Job : EnqueueJob(j) \/ Mark(j) \/ Complete(j) \/ Retry(j) \/ Kill(j)
       \/ Pop
    /\ UNCHANGED <<process, step, copy, tmp, file, used>>

(* takeSnapshot: copy the jobs under the lock, call Write. *)
Take ==
    /\ process = "running" /\ step = "idle" /\ used.snap < MaxSnap
    /\ copy' = Snapshot(jm)
    /\ step' = "create"
    /\ used' = [used EXCEPT !.snap = @ + 1]
    /\ UNCHANGED <<managerVars, process, tmp, file>>

Goes(from, to) ==
    /\ process = "running" /\ step = from /\ step' = to
    /\ UNCHANGED <<managerVars, process, used>>

(* os.Create truncates a file that an earlier process left behind. *)
Create == Goes("create", "encode") /\ tmp' = Torn /\ UNCHANGED <<copy, file>>

Encoded(data, next) ==
    /\ Goes("encode", next)
    /\ tmp' = [state |-> "written", data |-> data]
    /\ UNCHANGED <<copy, file>>

(* Fault: the data is not synced before the rename. *)
EncodeUnsynced == Encoded(copy, "rename")

(* Fault: Snapshot returned the jobs themselves, and not copies of them. *)
EncodeShared == Encoded(Snapshot(jm), "sync")

(* Encode and Flush. *)
Encode == Encoded(copy, "sync")

Sync ==
    /\ Goes("sync", "rename")
    /\ tmp' = [tmp EXCEPT !.state = "synced"]
    /\ UNCHANGED <<copy, file>>

Rename == Goes("rename", "idle") /\ file' = tmp /\ tmp' = Missing /\ copy' = NoJobs

(* A step that fails: Write removes the temporary file, unless it could not  *)
(* be created, and takeSnapshot gives up.                                    *)
WriteFails ==
    /\ process = "running" /\ step # "idle" /\ used.fail < MaxFail
    /\ tmp' = IF step = "create" THEN tmp ELSE Missing
    /\ step' = "idle" /\ copy' = NoJobs /\ used' = [used EXCEPT !.fail = @ + 1]
    /\ UNCHANGED <<managerVars, process, file>>

-----------------------------------------------------------------------------
(* What a crash of the machine leaves of a file. *)
Left(f) == IF f.state = "written" THEN {f, Torn} ELSE {f}

Crash ==
    /\ process = "running" /\ used.restart < MaxRestart
    /\ process' = "down" /\ step' = "idle" /\ copy' = NoJobs
    /\ jm' = NewJobManager /\ held' = {}
    /\ tmp' \in Left(tmp) /\ file' \in Left(file)
    /\ used' = [used EXCEPT !.restart = @ + 1]

(* Load and Restore in a new process.  A missing file is no jobs, one that   *)
(* does not parse an error.                                                  *)
Load ==
    /\ process = "down" /\ file.state # "torn"
    /\ process' = "running"
    /\ jm' \in Restore(file.data)
    /\ UNCHANGED <<held, step, copy, tmp, file, used>>

NextFile ==
    \/ Calls \/ Take \/ Create \/ Encode \/ Sync \/ Rename \/ WriteFails
    \/ Crash \/ Load

SpecFile == InitFile /\ [][NextFile]_allVars
-----------------------------------------------------------------------------
(* The types of the variables. *)
TypeOK ==
    /\ jm \in Manager /\ held \subseteq Job
    /\ process \in {"running", "down"}
    /\ step \in {"idle", "create", "encode", "sync", "rename"}
    /\ copy \in SnapshotData /\ tmp \in File /\ file \in File
    /\ used \in [snap : Nat, fail : Nat, restart : Nat]

(* As long as a process runs, no job is forgotten, and one that is completed *)
(* or dead is never pending or in flight again.                              *)
NoRevival == [][process = "running" /\ process' = "running" => Later(jm, jm')]_allVars

(* A snapshot file "is either complete or non-existent" (comment at the head *)
(* of snapshot_manager.go): Load never finds a part of one, wherever the     *)
(* machine stopped in Write.                                                 *)
SnapshotComplete == process = "down" => file.state # "torn"

Saved == INSTANCE SavedState WITH
           Data <- SnapshotData, Empty <- NoJobs,
           up <- process = "running", state <- Snapshot(jm),
           writing <- IF step = "idle" THEN {} ELSE {copy}, saved <- file.data

(* A restart finds the manager as it was at one moment, that of the last     *)
(* snapshot whose Write succeeded, whatever calls changed the jobs while the *)
(* file was written, and wherever Write failed or the machine stopped.       *)
ImplementsSavedState == Saved!Spec
=============================================================================
