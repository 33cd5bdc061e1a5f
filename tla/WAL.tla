-------------------------------- MODULE WAL --------------------------------
(***************************************************************************)
(* internal/storage/wal/wal.go: the write-ahead log by itself.             *)
(*                                                                         *)
(* The goroutines are the callers of Append, the batch writer, and the one *)
(* that rotates and closes the log (snapshotLoop, and Controller.Stop once *)
(* snapshotLoop has ended).  A call of Append stands for the event it      *)
(* passes.  The log is the file that Replay opens: what a rotation moves   *)
(* away is no longer in it (nothing reads the backups, whose names have a  *)
(* resolution of one second, so that one may replace another).             *)
(***************************************************************************)
EXTENDS Integers, Sequences, FiniteSets

CONSTANTS Call,         \* the calls of Append
          BufferSize,   \* records in a batch; batchChan holds twice as many
          Numbered,     \* FALSE where nothing reads the numbers: they stay 0
          MaxRotate,    \* bound on rotations
          MaxCrash,     \* bound on crashes
          MaxFail       \* bound on file operations that fail

ASSUME WALAssumption ==
    /\ BufferSize \in Nat \ {0}
    /\ Numbered \in BOOLEAN
    /\ {MaxRotate, MaxCrash, MaxFail} \subseteq Nat

VARIABLES
    state,      \* of the instance; isClosed, and the channel closed, say # "open"
    seq,        \* w.seq
    call,       \* Append: its step and the number it took
    batchChan,  \* calls sent to the batch writer
    writer,     \* batchWriter and flushBatch
    stuck,      \* the encoder has failed: it refuses every later record
    file,       \* on disk: the records of the current log that can be read,
    torn,       \*   whether half a record follows them,
    synced,     \*   and how many of them are known to be on the platter
    rotated,    \* the calls whose records a rotation moved away (a history)
    used        \* the bounded events that have happened

disk == <<file, torn, synced, rotated>>
vars == <<state, seq, call, batchChan, writer, stuck, disk, used>>

(* rotating, closing: the batch writer is being stopped; renamed: Rotate has *)
(* moved the file away; broken: a rotation failed; failed: Replay did.       *)
State == {"down", "open", "rotating", "renamed", "broken", "closing", "closed", "failed"}
Up    == state \notin {"down", "failed"}

NewWriter == [pc |-> "select", batch |-> <<>>, n |-> 1, err |-> FALSE, last |-> FALSE]
Stopped   == [NewWriter EXCEPT !.pc = "stopped"]

(* w.mu is held by flushBatch and by the second half of Rotate. *)
MutexFree == writer.pc \in {"select", "lock", "stopped"} /\ state # "renamed"

CallsOf(q) == {q[i] : i \in DOMAIN q}
Log == [i \in DOMAIN file |-> file[i].call]
Fails == used.fail < MaxFail /\ used' = [used EXCEPT !.fail = @ + 1]

Init ==
    /\ state = "down" /\ seq = 0
    /\ call = [c \in Call |-> [pc |-> "idle", seq |-> 0]]
    /\ batchChan = <<>> /\ writer = Stopped /\ stuck = FALSE
    /\ file = <<>> /\ torn = FALSE /\ synced = 0 /\ rotated = {}
    /\ used = [rotate |-> 0, crash |-> 0, fail |-> 0]

-----------------------------------------------------------------------------
(* NewWAL, then the Replay of Controller.Start.  GetLastEvent is a stub, so  *)
(* the numbers start again; half a record is a decoding error, and Start     *)
(* returns it.                                                          *)
Open ==
    /\ state = "down"
    /\ state' = IF torn THEN "failed" ELSE "open"
    /\ seq' = 0 /\ writer' = NewWriter /\ stuck' = FALSE
    /\ UNCHANGED <<call, batchChan, disk, used>>

(* Append takes its number under w.mu, ... *)
Number(c) ==
    /\ Up /\ MutexFree /\ call[c].pc = "idle"
    /\ seq' = IF Numbered THEN seq + 1 ELSE seq
    /\ call' = [call EXCEPT ![c] = [pc |-> "send", seq |-> seq']]
    /\ UNCHANGED <<state, batchChan, writer, stuck, disk, used>>

(* ... then chooses between the channel, while it has room, and w.closed: *)
(* a log that is closed, or being rotated, may still take the request.    *)
Send(c) ==
    /\ Up /\ call[c].pc = "send" /\ Len(batchChan) < 2 * BufferSize
    /\ batchChan' = Append(batchChan, c)
    /\ call' = [call EXCEPT ![c].pc = "wait"]
    /\ UNCHANGED <<state, seq, writer, stuck, disk, used>>

Refuse(c) ==
    /\ Up /\ state # "open" /\ call[c].pc = "send"
    /\ call' = [call EXCEPT ![c].pc = "failed"]
    /\ UNCHANGED <<state, seq, batchChan, writer, stuck, disk, used>>

-----------------------------------------------------------------------------
Taken(full) ==
    /\ Up /\ writer.pc = "select" /\ batchChan # <<>>
    /\ writer' = [writer EXCEPT !.batch = Append(@, Head(batchChan)),
                                !.pc = IF Len(writer.batch) + 1 >= full THEN "lock" ELSE "select"]
    /\ batchChan' = Tail(batchChan)
    /\ UNCHANGED <<state, seq, call, stuck, disk, used>>

(* Fault: the batch is flushed one request too late. *)
TakeTooMany == Taken(BufferSize + 1)

(* batchWriter: a request, ... *)
Take == Taken(BufferSize)

(* ... a tick, ... *)
Tick ==
    /\ Up /\ writer.pc = "select" /\ writer.batch # <<>>
    /\ writer' = [writer EXCEPT !.pc = "lock"]
    /\ UNCHANGED <<state, seq, call, batchChan, stuck, disk, used>>

(* ... or the order to stop: what is in the channel stays there. *)
Drain ==
    /\ state \in {"rotating", "closing"} /\ writer.pc = "select"
    /\ writer' = IF writer.batch = <<>> THEN Stopped
                 ELSE [writer EXCEPT !.pc = "lock", !.last = TRUE]
    /\ UNCHANGED <<state, seq, call, batchChan, stuck, disk, used>>

(* flushBatch locks w.mu, ... *)
Lock ==
    /\ Up /\ writer.pc = "lock" /\ MutexFree
    /\ writer' = [writer EXCEPT !.pc = "write", !.n = 1, !.err = FALSE]
    /\ UNCHANGED <<state, seq, call, batchChan, stuck, disk, used>>

(* What follows half a record cannot be read. *)
Extended(c) == IF torn THEN file ELSE Append(file, [call |-> c, seq |-> call[c].seq])
Encoded ==
    /\ writer' = [writer EXCEPT !.n = @ + 1,
                                !.pc = IF writer.n = Len(writer.batch) THEN "sync" ELSE "write"]
    /\ file' = Extended(writer.batch[writer.n])
    /\ UNCHANGED <<state, seq, call, batchChan, stuck, torn, synced, rotated, used>>

(* Fault: the encoder forgets that a write has failed. *)
EncodeOn == Up /\ writer.pc = "write" /\ Encoded

(* ... encodes one record after the other, ... *)
Encode == Up /\ writer.pc = "write" /\ ~ stuck /\ Encoded

(* ... up to a write that fails, which may leave a part of its record; the *)
(* encoder then fails until Rotate or NewWAL replaces it.                  *)
EncodeFails ==
    /\ Up /\ writer.pc = "write"
    /\ IF stuck THEN UNCHANGED <<torn, used>> ELSE torn' \in BOOLEAN /\ Fails
    /\ stuck' = TRUE
    /\ writer' = [writer EXCEPT !.pc = "answer", !.err = TRUE]
    /\ UNCHANGED <<state, seq, call, batchChan, file, synced, rotated>>

Sync ==
    /\ Up /\ writer.pc = "sync"
    /\ writer' = [writer EXCEPT !.pc = "answer"]
    /\ synced' = Len(file)
    /\ UNCHANGED <<state, seq, call, batchChan, stuck, file, torn, rotated, used>>

SyncFails ==
    /\ Up /\ writer.pc = "sync"
    /\ Fails
    /\ writer' = [writer EXCEPT !.pc = "answer", !.err = TRUE]
    /\ UNCHANGED <<state, seq, call, batchChan, stuck, disk>>

(* ... and answers the whole batch with one result. *)
Answer ==
    /\ Up /\ writer.pc = "answer"
    /\ call' = [c \in Call |-> IF c \in CallsOf(writer.batch)
                   THEN [call[c] EXCEPT !.pc = IF writer.err THEN "failed" ELSE "ok"]
                   ELSE call[c]]
    /\ writer' = IF writer.last THEN Stopped ELSE NewWriter
    /\ UNCHANGED <<state, seq, batchChan, stuck, disk, used>>

-----------------------------------------------------------------------------
(* Rotate marks the log closed and stops the batch writer, ... *)
Rotate ==
    /\ state = "open" /\ MutexFree /\ used.rotate < MaxRotate
    /\ state' = "rotating"
    /\ used' = [used EXCEPT !.rotate = @ + 1]
    /\ UNCHANGED <<seq, call, batchChan, writer, stuck, disk>>

(* ... waits for it, closes and renames the file, ... *)
Rename ==
    /\ state = "rotating" /\ writer.pc = "stopped"
    /\ state' = "renamed"
    /\ rotated' = rotated \cup CallsOf(Log)
    /\ file' = <<>> /\ torn' = FALSE /\ synced' = 0
    /\ UNCHANGED <<seq, call, batchChan, writer, stuck, used>>

(* Fault: the new batch writer is not started. *)
ReopenWithoutWriter ==
    /\ state = "renamed"
    /\ state' = "open"
    /\ seq' = 0 /\ stuck' = FALSE
    /\ UNCHANGED <<call, batchChan, writer, disk, used>>

(* ... and opens a new one, with a new encoder and a new batch writer, which *)
(* finds the requests the last one left in the channel.                      *)
Reopen ==
    /\ state = "renamed"
    /\ state' = "open"
    /\ seq' = 0 /\ writer' = NewWriter /\ stuck' = FALSE
    /\ UNCHANGED <<call, batchChan, disk, used>>

(* On an error it leaves the log closed, for good. *)
RotateFails ==
    /\ \/ state = "rotating" /\ writer.pc = "stopped"
       \/ state = "renamed"
    /\ Fails
    /\ state' = "broken"
    /\ UNCHANGED <<seq, call, batchChan, writer, stuck, disk>>

(* Close stops the batch writer and closes the file; it returns at once from *)
(* a broken log.                                                             *)
Close ==
    /\ state = "open" /\ MutexFree
    /\ state' = "closing"
    /\ UNCHANGED <<seq, call, batchChan, writer, stuck, disk, used>>

CloseFile ==
    /\ state = "closing" /\ writer.pc = "stopped"
    /\ state' = "closed"
    /\ UNCHANGED <<seq, call, batchChan, writer, stuck, disk, used>>

(* The machine or the process stops, between any two writes or in the middle *)
(* of one.  What was synced stays.                                           *)
Crash ==
    /\ Up /\ used.crash < MaxCrash
    /\ used' = [used EXCEPT !.crash = @ + 1]
    /\ state' = "down"
    /\ call' = [c \in Call |-> IF call[c].pc \in {"send", "wait"}
                   THEN [call[c] EXCEPT !.pc = "lost"] ELSE call[c]]
    /\ batchChan' = <<>> /\ writer' = Stopped
    /\ \E n \in synced .. Len(file) :
         /\ file' = SubSeq(file, 1, n)
         /\ torn' \in {FALSE, torn \/ n < Len(file) \/ writer.pc = "write"}
    /\ UNCHANGED <<seq, stuck, synced, rotated>>

-----------------------------------------------------------------------------
BatchWriter == Take \/ Tick \/ Drain \/ Lock \/ Encode \/ EncodeFails \/ Sync \/ SyncFails \/ Answer
Rotator == Rename \/ Reopen \/ RotateFails \/ CloseFile

Next ==
    \/ Open \/ BatchWriter \/ Rotate \/ Rotator \/ Close \/ Crash
    \/ \E c \in Call : Number(c) \/ Send(c) \/ Refuse(c)

Spec == Init /\ [][Next]_vars

(* The scheduler runs every goroutine: a caller at its select, the batch     *)
(* writer, whose ticker ends a batch nobody joins, and the one in Rotate or  *)
(* Close.  Nobody has to call.                                               *)
Fairness ==
    /\ \A c \in Call : WF_vars(Send(c) \/ Refuse(c))
    /\ WF_vars(BatchWriter)
    /\ WF_vars(Rotator)

FairSpec == Spec /\ Fairness
=============================================================================
