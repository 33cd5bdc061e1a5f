----------------------------- MODULE DurableLog -----------------------------
(***************************************************************************)
(* What internal/storage/wal promises its callers: a log that outlives the *)
(* process, until it is cleared.  A call of Append records its event while *)
(* it runs, or not at all; an acknowledged event stays in the log until a  *)
(* rotation clears it, with every call that has an event in it answered;   *)
(* an event whose call failed or died with the process may be in the log.  *)
(* Only while a call runs can a failure or a crash make the log            *)
(* unreadable.  The module WAL implements it: batches, the channel, the    *)
(* steps of a rotation and the file do not show here.                      *)
(***************************************************************************)
EXTENDS Sequences, Naturals

CONSTANT Call       \* the calls of Append, each with the event it passes

VARIABLES log,      \* the events a replay would be given
          whole,    \* it would read all of the log, and return no error
          cleared,  \* the events that rotations have cleared
          call

vars == <<log, whole, cleared, call>>

Recorded == {log[i] : i \in DOMAIN log}
Active   == {c \in Call : call[c] = "active"}

Init == log = <<>> /\ whole = TRUE /\ cleared = {} /\ call = [c \in Call |-> "idle"]

Begin(c) ==
    /\ call[c] = "idle"
    /\ call' = [call EXCEPT ![c] = "active"]
    /\ UNCHANGED <<log, whole, cleared>>

Record(c) ==
    /\ whole /\ c \in Active \ (Recorded \cup cleared)
    /\ log' = Append(log, c)
    /\ UNCHANGED <<whole, cleared, call>>

(* A batch is answered at once. *)
Answered(S, answer) ==
    /\ S \subseteq Active
    /\ call' = [c \in Call |-> IF c \in S THEN answer ELSE call[c]]
    /\ UNCHANGED <<log, whole, cleared>>

Succeed(S) == S \subseteq Recorded /\ Answered(S, "ok")

Fail(S) == Answered(S, "failed")

Damage == Active # {} /\ whole' = FALSE /\ UNCHANGED <<log, cleared, call>>

Clear ==
    /\ Recorded \cap Active = {}
    /\ log' = <<>> /\ whole' = TRUE /\ cleared' = cleared \cup Recorded
    /\ UNCHANGED call

(* The process dies; what was not acknowledged may be lost from the end, a   *)
(* part of it perhaps still there.                                           *)
Crash(n) ==
    /\ log' = SubSeq(log, 1, n)
    /\ \A c \in Call \ cleared : call[c] = "ok" => c \in {log[i] : i \in 1 .. n}
    /\ whole' \in {TRUE, whole /\ n = Len(log) /\ Active = {}}
    /\ call' = [c \in Call |-> IF call[c] = "active" THEN "lost" ELSE call[c]]
    /\ UNCHANGED cleared

Next ==
    \/ \E c \in Call : Begin(c) \/ Record(c)
    \/ \E S \in SUBSET Call : Succeed(S) \/ Fail(S)
    \/ Damage \/ Clear
    \/ \E n \in 0 .. Len(log) : Crash(n)

Spec == Init /\ [][Next]_vars
=============================================================================
