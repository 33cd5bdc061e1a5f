--------------------------- MODULE WALProperties ---------------------------
(* What the write-ahead log owes its callers, and what it only says. *)
EXTENDS WAL

CallState   == [pc : {"idle", "send", "wait", "ok", "failed", "lost"}, seq : Nat]
WriterState == [pc : {"select", "lock", "write", "sync", "answer", "stopped"},
                batch : Seq(Call), n : Nat, err : BOOLEAN, last : BOOLEAN]

(* Every variable has its type, and the batch is never longer than           *)
(* bufferSize, the channel never fuller than its capacity.                   *)
TypeOK ==
    /\ state \in State /\ seq \in Nat /\ {stuck, torn} \subseteq BOOLEAN
    /\ call \in [Call -> CallState]
    /\ batchChan \in Seq(Call) /\ Len(batchChan) <= 2 * BufferSize
    /\ writer \in WriterState /\ Len(writer.batch) <= BufferSize
    /\ file \in Seq([call : Call, seq : Nat])
    /\ synced \in 0 .. Len(file) /\ rotated \subseteq Call

(* Append, Rotate, Close, NewWAL and flushBatch implement a durable log: an  *)
(* event is written at most once, between the call and the return of its     *)
(* Append; an acknowledged event survives every crash until a rotation moves *)
(* it away; a rotation moves away no event whose call still waits; two       *)
(* appends that follow each other are in the log in that order; and a log    *)
(* that no call was writing to when the process died can be read.            *)
D == INSTANCE DurableLog WITH
    log     <- Log,
    whole   <- ~ torn,
    cleared <- rotated,
    call    <- [c \in Call |-> IF call[c].pc \in {"send", "wait"} THEN "active" ELSE call[c].pc]
ImplementsDurableLog == D!Spec

(* Append returns, unless the process dies or the log is closed for good: it *)
(* waits on errCh without a timeout, also for a batch writer that a rotation *)
(* has stopped while its request was in the channel.                         *)
ClosedForGood == state \in {"broken", "closing", "closed", "down", "failed"}
AppendReturns ==
    \A c \in Call : call[c].pc \in {"send", "wait"} ~>
                        call[c].pc \notin {"send", "wait"} \/ ClosedForGood

(* "Replay failure: Skip corrupted records, log warnings" and "Skip corrupted *)
(* records during replay", say the comments at the head of wal.go: a torn    *)
(* record would not keep the controller from starting.                       *)
ReplaySkipsTorn == state # "failed"

(* types.go calls Seq "monotonically increasing": in the current log the     *)
(* numbers would then grow from one record to the next.                      *)
SeqIncreases == \A i, k \in DOMAIN file : i < k => file[i].seq < file[k].seq
=============================================================================
