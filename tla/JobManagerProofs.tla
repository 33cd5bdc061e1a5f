-------------------------- MODULE JobManagerProofs --------------------------
(* The job manager's guarantees, for any set of jobs, any sequence of calls  *)
(* and any number of snapshots, crashes and failing file operations; and     *)
(* those of the snapshot file: it is whole, and a restart finds in it the    *)
(* manager of one moment.                                                    *)
EXTENDS SnapshotFile, JobManagerLemmas

(* IndexConsistency, NoStrandedJob and the type of the manager together are  *)
(* inductive: each method's lemma carries the three from the manager before  *)
(* it to the one after it.  Restore needs the type of what the file holds.   *)
IInv == TypeOK /\ Sound(jm, held)

LEMMA NoJobsData == NoJobs \in SnapshotData
  BY DEF NoJobs, SnapshotData, Status

LEMMA InitInv == InitFile => IInv
  BY NewSound, NoJobsData DEF InitFile, InitManager, IInv, TypeOK, Sound, Missing, File

(* A method of the manager keeps the three, forgets no job and revives none. *)
LEMMA CallsSound ==
    ASSUME Sound(jm, held), held \subseteq Job, Calls
    PROVE  Sound(jm, held)' /\ held' \subseteq Job /\ Later(jm, jm')
  <1>0. jm \in Manager
    BY DEF Sound
  <1>1. ASSUME NEW j \in Job, EnqueueJob(j)
        PROVE  Sound(jm, held)' /\ held' \subseteq Job /\ Later(jm, jm')
    <2>1. <<j>> \in Seq(Job) /\ Elems(<<j>>) = {j}
      BY DEF Elems
    <2> QED BY <1>1, <2>1, EnqueueSound DEF EnqueueJob
  <1>2. ASSUME Pop PROVE Sound(jm, held)' /\ held' \subseteq Job /\ Later(jm, jm')
    <2>1. jm.queue \in Seq(Job) /\ Len(jm.queue) \in Nat /\ 1 \in 0 .. Len(jm.queue)
      BY <1>0, <1>2 DEF Pop, Manager
    <2>2. Elems(Popped(jm, 1)) = {Head(jm.queue)}
      <3>1. /\ Len(Popped(jm, 1)) = 1 /\ Popped(jm, 1) \in Seq(Job)
            /\ Popped(jm, 1)[1] = jm.queue[1]
        BY <2>1, SubSeqProperties DEF Popped
      <3>2. Head(jm.queue) = jm.queue[1]
        BY <1>2, <2>1 DEF Pop
      <3> HIDE DEF Popped
      <3> QED BY <3>1, <3>2 DEF Elems
    <2>3. /\ Sound(PopPending(jm, 1), held \cup Elems(Popped(jm, 1)))
          /\ Later(jm, PopPending(jm, 1))
          /\ Elems(Popped(jm, 1)) \subseteq Job
      BY <2>1, PopSound, ElemsOfJobs
    <2> QED BY <1>2, <2>2, <2>3 DEF Pop
  <1>3. ASSUME NEW j \in Job, Mark(j)
        PROVE  Sound(jm, held)' /\ held' \subseteq Job /\ Later(jm, jm')
    BY <1>3, MarkInFlightSound DEF Mark
  <1>4. ASSUME NEW j \in Job, Complete(j)
        PROVE  Sound(jm, held)' /\ held' \subseteq Job /\ Later(jm, jm')
    BY <1>4, MarkCompletedSound DEF Complete
  <1>5. ASSUME NEW j \in Job, Retry(j)
        PROVE  Sound(jm, held)' /\ held' \subseteq Job /\ Later(jm, jm')
    BY <1>5, RequeueSound DEF Retry
  <1>6. ASSUME NEW j \in Job, Kill(j)
        PROVE  Sound(jm, held)' /\ held' \subseteq Job /\ Later(jm, jm')
    BY <1>6, MarkDeadSound DEF Kill
  <1> QED BY <1>1, <1>2, <1>3, <1>4, <1>5, <1>6 DEF Calls

(* One step preserves the invariant, and only a restart loses a job or       *)
(* revives one.                                                              *)
LEMMA StepInv ==
    ASSUME IInv, [NextFile]_allVars
    PROVE  IInv' /\ (process = "running" /\ process' = "running" => Later(jm, jm'))
  <1> USE DEF IInv, TypeOK
  <1>0. jm \in Manager
    BY DEF Sound
  <1>a. Missing \in File /\ Torn \in File /\ NoJobs \in SnapshotData
    BY NoJobsData DEF Missing, Torn, File
  <1>b. ASSUME UNCHANGED managerVars PROVE Sound(jm, held)' /\ Later(jm, jm')
    BY <1>b DEF managerVars, Later
  <1>1. CASE Calls
    <2>1. Sound(jm, held)' /\ held' \subseteq Job /\ Later(jm, jm')
      BY <1>1, CallsSound
    <2> QED BY <1>1, <2>1 DEF Calls, Sound
  <1>2. CASE Take
    BY <1>0, <1>2, <1>b, SnapshotLater DEF Take, managerVars
  <1>3. CASE Create \/ Sync \/ Rename
    BY <1>3, <1>a, <1>b DEF Create, Sync, Rename, Goes, File, managerVars
  <1>4. CASE Encode
    <2>1. tmp' \in File
      BY <1>4 DEF Encode, Encoded, File
    <2> QED BY <1>4, <1>b, <2>1 DEF Encode, Encoded, Goes, managerVars
  <1>5. CASE WriteFails
    BY <1>5, <1>a, <1>b DEF WriteFails, managerVars
  <1>6. CASE Crash
    BY <1>6, <1>a, NewSound DEF Crash, Left, Sound
  <1>7. CASE Load
    <2>1. file.data \in SnapshotData
      BY DEF File
    <2>2. Sound(jm', {})
      BY <1>7, <2>1, RestoreSound DEF Load
    <2>3. Sound(jm', held)
      BY <2>2 DEF Sound, NoneStranded
    <2> QED BY <1>7, <2>3 DEF Load, Sound
  <1>8. CASE UNCHANGED allVars
    BY <1>8 DEF allVars, Later
  <1> QED BY <1>1, <1>2, <1>3, <1>4, <1>5, <1>6, <1>7, <1>8 DEF NextFile

LEMMA InvHolds == SpecFile => []IInv
  <1>1. IInv /\ [NextFile]_allVars => IInv'
    BY StepInv
  <1> QED BY InitInv, <1>1, PTL DEF SpecFile

(* The variables keep their types. *)
THEOREM ManagerTyped == SpecFile => []TypeOK
  <1>1. IInv => TypeOK
    BY DEF IInv
  <1> QED BY InvHolds, <1>1, PTL

(* After any sequence of calls and restarts the index maps agree with the    *)
(* statuses.                                                                 *)
THEOREM IndexesConsistent == SpecFile => []IndexConsistency
  <1>1. IInv => IndexConsistency
    BY DEF IInv, Sound, IndexConsistency
  <1> QED BY InvHolds, <1>1, PTL

(* No pending job is out of reach of every caller. *)
THEOREM NoJobStranded == SpecFile => []NoStrandedJob
  <1>1. IInv => NoStrandedJob
    BY DEF IInv, Sound, NoStrandedJob
  <1> QED BY InvHolds, <1>1, PTL

(* A completed or dead job stays so until the process ends. *)
THEOREM NoJobRevived == SpecFile => NoRevival
  <1>1. IInv /\ [NextFile]_allVars =>
          [process = "running" /\ process' = "running" => Later(jm, jm')]_allVars
    BY StepInv
  <1> QED BY InvHolds, <1>1, PTL DEF SpecFile, NoRevival

-----------------------------------------------------------------------------
(* Only a synced file that holds the copy is ever renamed. *)
FileInv ==
    /\ file.state \in {"none", "synced"}
    /\ step = "sync" => tmp.data = copy
    /\ step = "rename" => tmp.state = "synced" /\ tmp.data = copy
    /\ process = "down" => jm = NewJobManager /\ step = "idle"

LEMMA FileInit == InitFile => FileInv
  BY DEF InitFile, FileInv, Missing

LEMMA FileStep == IInv /\ FileInv /\ [NextFile]_allVars => FileInv'
  <1> SUFFICES ASSUME IInv, FileInv, [NextFile]_allVars PROVE FileInv'
    OBVIOUS
  <1> USE DEF FileInv
  <1>0. tmp \in File /\ file \in File
    BY DEF IInv, TypeOK
  <1>1. CASE Calls
    BY <1>1 DEF Calls
  <1>2. CASE Take
    BY <1>2 DEF Take, managerVars
  <1>3. CASE Create \/ Encode
    BY <1>3 DEF Create, Encode, Encoded, Goes, managerVars
  <1>4. CASE Sync
    <2>1. tmp'.state = "synced" /\ tmp'.data = tmp.data
      BY <1>0, <1>4 DEF Sync, File
    <2> QED BY <1>4, <2>1 DEF Sync, Goes, managerVars
  <1>5. CASE Rename
    BY <1>5 DEF Rename, Goes, managerVars
  <1>6. CASE WriteFails
    BY <1>6 DEF WriteFails, managerVars
  <1>7. CASE Crash
    BY <1>7 DEF Crash, Left
  <1>8. CASE Load
    BY <1>8 DEF Load
  <1>9. CASE UNCHANGED allVars
    BY <1>9 DEF allVars
  <1> QED BY <1>1, <1>2, <1>3, <1>4, <1>5, <1>6, <1>7, <1>8, <1>9 DEF NextFile

LEMMA FileInvHolds == SpecFile => [](IInv /\ FileInv)
  <1>1. IInv /\ FileInv /\ [NextFile]_allVars => (IInv /\ FileInv)'
    BY StepInv, FileStep
  <1> QED BY InitInv, FileInit, <1>1, PTL DEF SpecFile

(* A restart never finds a part of a snapshot, wherever Write was stopped.   *)
THEOREM SnapshotAlwaysComplete == SpecFile => []SnapshotComplete
  <1>1. FileInv => SnapshotComplete
    BY DEF FileInv, SnapshotComplete
  <1> QED BY FileInvHolds, <1>1, PTL

(* A manager that was restored has the state of the snapshot. *)
LEMMA RestoreRead ==
    ASSUME NEW d \in SnapshotData, NEW m \in Restore(d) PROVE Snapshot(m) = d
  <1>1. PICK q : m = [status |-> d.status, attempt |-> d.attempt, queue |-> q,
                      inFlight |-> WithStatus(d, "in_flight"),
                      completed |-> WithStatus(d, "completed"),
                      dead |-> WithStatus(d, "dead")]
    BY DEF Restore
  <1>2. m.status = d.status /\ m.attempt = d.attempt
    BY <1>1
  <1> QED BY <1>2 DEF Snapshot, SnapshotData

(* What a step of Write, of a crash and of Load is to the saved state.       *)
LEMMA StepImplements ==
    ASSUME IInv, IInv', FileInv, [NextFile]_allVars PROVE [Saved!Next]_Saved!vars
  <1> DEFINE writing == IF step = "idle" THEN {} ELSE {copy}
             up == process = "running"
  <1> USE DEF Saved!vars, Saved!Next
  <1>0. tmp \in File /\ file \in File /\ Snapshot(jm') \in SnapshotData
    BY SnapshotLater DEF IInv, TypeOK, Sound
  <1>m. UNCHANGED managerVars => UNCHANGED Snapshot(jm)
    BY DEF managerVars
  <1>1. CASE Calls
    <2>1. Saved!Change
      BY <1>0, <1>1 DEF Calls, Saved!Change
    <2> QED BY <2>1
  <1>2. CASE Take
    <2>1. Saved!Copy
      BY <1>2, <1>m DEF Take, Saved!Copy, managerVars
    <2> QED BY <2>1
  <1>3. CASE Create \/ Encode \/ Sync
    BY <1>3, <1>m DEF Create, Encode, Encoded, Sync, Goes
  <1>4. CASE Rename
    <2>1. Saved!Save
      BY <1>4, <1>m DEF Rename, Goes, FileInv, Saved!Save
    <2> QED BY <2>1
  <1>5. CASE WriteFails
    <2>1. Saved!GiveUp
      BY <1>5, <1>m DEF WriteFails, Saved!GiveUp
    <2> QED BY <2>1
  <1>6. CASE Crash
    <2>1. file' = file
      BY <1>6 DEF Crash, Left, FileInv
    <2>2. Snapshot(jm') = NoJobs
      BY <1>6 DEF Crash, NewJobManager, Snapshot, NoJobs
    <2>3. Saved!Crash
      BY <1>6, <2>1, <2>2 DEF Crash, Saved!Crash
    <2> QED BY <2>3
  <1>7. CASE Load
    <2>1. Snapshot(jm') = file.data
      BY <1>0, <1>7, RestoreRead DEF Load, File
    <2>2. Saved!Restart
      BY <1>7, <2>1 DEF Load, Saved!Restart
    <2> QED BY <2>2
  <1>8. CASE UNCHANGED allVars
    BY <1>8 DEF allVars
  <1> QED BY <1>1, <1>2, <1>3, <1>4, <1>5, <1>6, <1>7, <1>8 DEF NextFile

(* Write, a crash of the machine and Load implement the saved state: a start *)
(* finds the jobs as they were at one moment, that of the last snapshot      *)
(* whose Write returned nil.                                                 *)
THEOREM FileImplementsSavedState == SpecFile => ImplementsSavedState
  <1>1. InitFile => Saved!Init
    BY DEF InitFile, InitManager, Saved!Init, Snapshot, NewJobManager, NoJobs, Missing
  <1>2. IInv /\ FileInv /\ IInv' /\ [NextFile]_allVars => [Saved!Next]_Saved!vars
    BY StepImplements
  <1> QED BY <1>1, <1>2, FileInvHolds, PTL DEF SpecFile, ImplementsSavedState, Saved!Spec
=============================================================================
