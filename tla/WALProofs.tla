------------------------------ MODULE WALProofs ------------------------------
(* The write-ahead log implements DurableLog, for any calls, buffer size and *)
(* number of rotations, crashes and failures.                                *)
EXTENDS WALProperties, SequenceTheorems, TLAPS

Record == [call : Call, seq : Nat]

(* The calls whose records the sequence s holds. *)
Names(s) == {s[i].call : i \in DOMAIN s}
Synced   == {file[i].call : i \in 1 .. synced}
Written  == rotated \cup Names(file)
Kept     == rotated \cup Synced

Distinct(q) == \A i, k \in DOMAIN q : q[i] = q[k] => i = k

-----------------------------------------------------------------------------
(* Sequences of records and of calls. *)
LEMMA NamesAppend ==
    ASSUME NEW s \in Seq(Record), NEW r \in Record
    PROVE  /\ Names(Append(s, r)) = Names(s) \cup {r.call}
           /\ Append(s, r) \in Seq(Record) /\ Len(Append(s, r)) = Len(s) + 1
  <1>1. /\ Append(s, r) \in Seq(Record) /\ Len(Append(s, r)) = Len(s) + 1
        /\ \A i \in 1 .. Len(s) : Append(s, r)[i] = s[i]
        /\ Append(s, r)[Len(s) + 1] = r
    OBVIOUS
  <1> DEFINE t == Append(s, r)
  <1>2. DOMAIN t = 1 .. Len(s) + 1 /\ DOMAIN s = 1 .. Len(s) /\ Len(s) \in Nat
    BY <1>1
  <1> HIDE DEF t
  <1>3. DOMAIN t = DOMAIN s \cup {Len(s) + 1}
    BY <1>2
  <1>4. \A i \in DOMAIN s : t[i] = s[i]
    BY <1>1, <1>2 DEF t
  <1>5. t[Len(s) + 1] = r
    BY <1>1 DEF t
  <1>6. Names(t) = Names(s) \cup {r.call}
    BY <1>3, <1>4, <1>5 DEF Names
  <1> QED BY <1>1, <1>6 DEF t

(* Log, of the records f. *)
Logged(f) == [i \in DOMAIN f |-> f[i].call]

LEMMA LoggedShape ==
    ASSUME NEW f \in Seq(Record)
    PROVE  /\ Logged(f) \in Seq(Call) /\ Len(Logged(f)) = Len(f)
           /\ \A i \in 1 .. Len(f) : Logged(f)[i] = f[i].call
           /\ CallsOf(Logged(f)) = Names(f)
  <1>1. \A i \in DOMAIN f : f[i].call \in Call
    <2>1. \A i \in DOMAIN f : f[i] \in Record
      OBVIOUS
    <2> QED BY <2>1 DEF Record
  <1>2. DOMAIN f = 1 .. Len(f) /\ Len(f) \in Nat
    OBVIOUS
  <1>3. Logged(f) \in [1 .. Len(f) -> Call]
    BY <1>1, <1>2 DEF Logged
  <1>4. CallsOf(Logged(f)) = Names(f)
    BY DEF Logged, CallsOf, Names
  <1>5. \A i \in 1 .. Len(f) : Logged(f)[i] = f[i].call
    BY <1>2 DEF Logged
  <1> QED BY <1>2, <1>3, <1>4, <1>5

LEMMA LogShape == {Log[i] : i \in DOMAIN Log} = Names(file) /\ Log = Logged(file)
  BY DEF Log, Logged, Names

LEMMA CallsAppend ==
    ASSUME NEW q \in Seq(Call), NEW c \in Call
    PROVE  /\ Append(q, c) \in Seq(Call) /\ Len(Append(q, c)) = Len(q) + 1
           /\ CallsOf(Append(q, c)) = CallsOf(q) \cup {c}
           /\ Distinct(q) /\ c \notin CallsOf(q) => Distinct(Append(q, c))
  <1> DEFINE t == Append(q, c)
  <1>1. /\ t \in Seq(Call) /\ Len(t) = Len(q) + 1
        /\ \A i \in 1 .. Len(q) : t[i] = q[i]
        /\ t[Len(q) + 1] = c
    OBVIOUS
  <1>2. DOMAIN t = 1 .. Len(q) + 1 /\ DOMAIN q = 1 .. Len(q) /\ Len(q) \in Nat
    BY <1>1
  <1> HIDE DEF t
  <1>3. DOMAIN t = DOMAIN q \cup {Len(q) + 1}
    BY <1>2
  <1>4. \A i \in DOMAIN q : t[i] = q[i]
    BY <1>1, <1>2
  <1>5. CallsOf(t) = CallsOf(q) \cup {c}
    BY <1>1, <1>3, <1>4 DEF CallsOf
  <1>6. ASSUME Distinct(q), c \notin CallsOf(q) PROVE Distinct(t)
    BY <1>1, <1>3, <1>4, <1>6 DEF CallsOf, Distinct
  <1> QED BY <1>1, <1>5, <1>6 DEF t

LEMMA CallsTail ==
    ASSUME NEW q \in Seq(Call), q # <<>>
    PROVE  /\ Head(q) \in Call /\ Tail(q) \in Seq(Call) /\ Len(Tail(q)) = Len(q) - 1
           /\ CallsOf(q) = {Head(q)} \cup CallsOf(Tail(q))
           /\ Distinct(q) => Head(q) \notin CallsOf(Tail(q)) /\ Distinct(Tail(q))
  <1> DEFINE t == Tail(q)
  <1>1. /\ Head(q) = q[1] /\ Head(q) \in Call
        /\ t \in Seq(Call) /\ Len(t) = Len(q) - 1
        /\ \A i \in 1 .. Len(q) - 1 : t[i] = q[i + 1]
    OBVIOUS
  <1>2. /\ DOMAIN q = 1 .. Len(q) /\ Len(q) \in Nat \ {0}
        /\ DOMAIN t = 1 .. Len(q) - 1
    BY <1>1
  <1> HIDE DEF t
  <1>3. \A i \in DOMAIN q : i = 1 \/ \E k \in DOMAIN t : i = k + 1
    <2>1. ASSUME NEW i \in DOMAIN q, i # 1 PROVE i - 1 \in DOMAIN t /\ i = (i - 1) + 1
      BY <1>2, <2>1
    <2> QED BY <2>1
  <1>4. 1 \in DOMAIN q /\ \A k \in DOMAIN t : k + 1 \in DOMAIN q /\ k + 1 # 1 /\ t[k] = q[k + 1]
    BY <1>1, <1>2
  <1>5. CallsOf(q) = {q[1]} \cup CallsOf(t)
    BY <1>3, <1>4 DEF CallsOf
  <1>6. ASSUME Distinct(q) PROVE q[1] \notin CallsOf(t) /\ Distinct(t)
    <2>1. q[1] \notin CallsOf(t)
      BY <1>4, <1>6 DEF CallsOf, Distinct
    <2>2. ASSUME NEW i \in DOMAIN t, NEW k \in DOMAIN t, t[i] = t[k] PROVE i = k
      <3>1. i + 1 = k + 1
        BY <1>4, <1>6, <2>2 DEF Distinct
      <3> QED BY <1>2, <3>1
    <2> QED BY <2>1, <2>2 DEF Distinct
  <1> QED BY <1>1, <1>5, <1>6 DEF t

LEMMA CallsEmpty == CallsOf(<<>>) = {} /\ Distinct(<<>>)
  BY DEF CallsOf, Distinct

LEMMA CallsTyped == ASSUME NEW q \in Seq(Call) PROVE CallsOf(q) \subseteq Call
  BY DEF CallsOf

-----------------------------------------------------------------------------
(* The requests under way wait for their answer, each once in the channel or *)
(* in the batch.                                                             *)
Queued ==
    /\ Distinct(batchChan) /\ Distinct(writer.batch)
    /\ CallsOf(batchChan) \cap CallsOf(writer.batch) = {}
    /\ \A c \in CallsOf(batchChan) \cup CallsOf(writer.batch) : call[c].pc = "wait"

(* Every call that waits has its request in one of the two, and a batch writer *)
(* that has stopped left none in its batch.                                    *)
Waiting ==
    /\ \A c \in Call : call[c].pc = "wait" => c \in CallsOf(batchChan) \cup CallsOf(writer.batch)
    /\ writer.pc = "stopped" => writer.batch = <<>>

(* What has not reached the batch writer is not in the log. *)
Fresh ==
    /\ \A c \in Call : call[c].pc \in {"idle", "send"} => c \notin Written
    /\ CallsOf(batchChan) \cap Written = {}

(* How much of the batch is in the log at each step of flushBatch. *)
Flushed ==
    /\ writer.pc \in {"select", "lock"} => CallsOf(writer.batch) \cap Written = {}
    /\ writer.pc = "lock" => writer.batch # <<>>
    /\ writer.pc = "write" =>
          /\ writer.n \in DOMAIN writer.batch
          /\ \A i \in DOMAIN writer.batch :
                /\ i < writer.n => writer.batch[i] \in Names(file)
                /\ i >= writer.n => writer.batch[i] \notin Written
    /\ writer.pc = "sync" => CallsOf(writer.batch) \subseteq Names(file)
    /\ writer.pc = "answer" /\ ~ writer.err => CallsOf(writer.batch) \subseteq Synced

(* What was acknowledged outlives a crash. *)
Acked == \A c \in Call : call[c].pc = "ok" => c \in Kept

(* Nothing is written after half a record. *)
Whole ==
    /\ Up /\ torn => stuck
    /\ state = "renamed" => ~ torn
    /\ state \in {"down", "renamed"} => writer.pc = "stopped"

(* A batch that is full is flushed at once. *)
Short == writer.pc = "select" => Len(writer.batch) < BufferSize

IInv == TypeOK /\ Short /\ Queued /\ Waiting /\ Fresh /\ Flushed /\ Acked /\ Whole

LEMMA WriterType ==
    ASSUME NEW p \in {"select", "lock", "write", "sync", "answer", "stopped"},
           NEW q \in Seq(Call), NEW k \in Nat, NEW e \in BOOLEAN, NEW l \in BOOLEAN
    PROVE  [pc |-> p, batch |-> q, n |-> k, err |-> e, last |-> l] \in WriterState
  BY DEF WriterState

LEMMA WriterFields ==
    /\ NewWriter \in WriterState /\ NewWriter.pc = "select" /\ NewWriter.batch = <<>>
    /\ Stopped \in WriterState /\ Stopped.pc = "stopped" /\ Stopped.batch = <<>>
  <1>1. NewWriter = [pc |-> "select", batch |-> <<>>, n |-> 1, err |-> FALSE, last |-> FALSE]
    BY DEF NewWriter
  <1>2. <<>> \in Seq(Call) /\ 1 \in Nat /\ FALSE \in BOOLEAN
    OBVIOUS
  <1>3. NewWriter \in WriterState
    BY <1>1, <1>2, WriterType
  <1>4. NewWriter.pc = "select" /\ NewWriter.batch = <<>>
    BY <1>1
  <1> HIDE DEF NewWriter
  <1>5. Stopped \in WriterState /\ Stopped.pc = "stopped" /\ Stopped.batch = NewWriter.batch
    BY <1>3 DEF Stopped, WriterState
  <1> QED BY <1>3, <1>4, <1>5

LEMMA InitInv == Init => IInv
  <1> SUFFICES ASSUME Init PROVE IInv
    OBVIOUS
  <1> USE DEF Init
  <1>0. /\ <<>> \in Seq(Call) /\ <<>> \in Seq([call : Call, seq : Nat])
        /\ Len(<<>>) = 0 /\ DOMAIN <<>> = {}
    OBVIOUS
  <1>b. /\ writer \in WriterState /\ Len(writer.batch) = 0
        /\ writer.pc = "stopped" /\ writer.batch = <<>>
    BY <1>0, WriterFields
  <1>c. call \in [Call -> CallState]
    BY DEF CallState
  <1>d. {stuck, torn} \subseteq BOOLEAN
    OBVIOUS
  <1>1. TypeOK
    BY <1>0, <1>b, <1>c, <1>d, WALAssumption DEF TypeOK, State
  <1>2. Written = {}
    BY <1>0 DEF Written, Names
  <1>3. Queued /\ Waiting /\ Fresh /\ Flushed
    BY <1>2, <1>b, CallsEmpty DEF Queued, Waiting, Fresh, Flushed
  <1> QED BY <1>0, <1>1, <1>b, <1>3, WALAssumption DEF IInv, Short, Acked, Whole, Up

-----------------------------------------------------------------------------
(* The types of what one step changes. *)
LEMMA TakenType ==
    ASSUME TypeOK, Short, Take
    PROVE  /\ writer.pc = "select" /\ batchChan # <<>>
           /\ batchChan' = Tail(batchChan)
           /\ writer'.batch = Append(writer.batch, Head(batchChan))
           /\ writer'.pc \in {"select", "lock"}
           /\ writer' \in WriterState /\ Len(writer'.batch) <= BufferSize /\ Short'
  <1> DEFINE q == Append(writer.batch, Head(batchChan))
             p == IF Len(writer.batch) + 1 >= BufferSize THEN "lock" ELSE "select"
  <1>1. /\ writer.pc = "select" /\ batchChan # <<>>
        /\ batchChan' = Tail(batchChan)
        /\ writer' = [writer EXCEPT !.batch = q, !.pc = p]
    BY DEF Take, Taken
  <1>2. /\ writer \in WriterState /\ writer.batch \in Seq(Call)
        /\ Len(writer.batch) \in Nat /\ Len(writer.batch) < BufferSize
    BY <1>1 DEF TypeOK, Short, WriterState
  <1>3. q \in Seq(Call) /\ Len(q) = Len(writer.batch) + 1
    BY <1>1, <1>2, CallsTail, CallsAppend DEF TypeOK
  <1>4. p \in {"select", "lock"} /\ (p = "select" => Len(q) < BufferSize) /\ Len(q) <= BufferSize
    BY <1>2, <1>3, WALAssumption
  <1>5. q = Append(writer.batch, Head(batchChan))
    OBVIOUS
  <1> HIDE DEF q, p
  <1>6. writer' \in WriterState /\ writer'.batch = q /\ writer'.pc = p
    BY <1>1, <1>2, <1>3, <1>4 DEF WriterState
  <1> QED BY <1>1, <1>4, <1>5, <1>6 DEF Short

(* The batch writer goes on to its next step with the batch it has. *)
Becomes(p) == writer' \in WriterState /\ writer'.pc = p /\ writer'.batch = writer.batch

LEMMA WriterMoves ==
    ASSUME TypeOK
    PROVE  /\ Tick => Becomes("lock")
           /\ Drain => (Becomes("lock") /\ writer.batch # <<>>) \/ writer' = Stopped
           /\ Lock => Becomes("write") /\ writer'.n = 1
           /\ Encode => /\ Becomes(IF writer.n = Len(writer.batch) THEN "sync" ELSE "write")
                        /\ writer'.n = writer.n + 1
           /\ EncodeFails \/ SyncFails => Becomes("answer") /\ writer'.err
           /\ Sync => Becomes("answer")
  <1>1. writer \in WriterState /\ writer.n \in Nat
    BY DEF TypeOK, WriterState
  <1>2. ASSUME Tick PROVE Becomes("lock")
    BY <1>1, <1>2 DEF Tick, Becomes, WriterState
  <1>3. ASSUME Drain, writer.batch # <<>> PROVE Becomes("lock")
    BY <1>1, <1>3 DEF Drain, Becomes, WriterState
  <1>4. ASSUME Drain, writer.batch = <<>> PROVE writer' = Stopped
    BY <1>4 DEF Drain
  <1>5. ASSUME Lock PROVE Becomes("write") /\ writer'.n = 1
    BY <1>1, <1>5 DEF Lock, Becomes, WriterState
  <1>6. ASSUME Encode
        PROVE  /\ Becomes(IF writer.n = Len(writer.batch) THEN "sync" ELSE "write")
               /\ writer'.n = writer.n + 1
    <2> DEFINE k == writer.n + 1
               p == IF writer.n = Len(writer.batch) THEN "sync" ELSE "write"
    <2>1. writer' = [writer EXCEPT !.n = k, !.pc = p]
      BY <1>6 DEF Encode, Encoded
    <2>2. k \in Nat /\ p \in {"sync", "write"}
      BY <1>1
    <2> HIDE DEF k, p
    <2>3. Becomes(p) /\ writer'.n = k
      BY <1>1, <2>1, <2>2 DEF Becomes, WriterState
    <2> QED BY <2>3 DEF k, p
  <1>7. ASSUME EncodeFails \/ SyncFails PROVE Becomes("answer") /\ writer'.err
    BY <1>1, <1>7 DEF EncodeFails, SyncFails, Becomes, WriterState
  <1>8. ASSUME Sync PROVE Becomes("answer")
    BY <1>1, <1>8 DEF Sync, Becomes, WriterState
  <1> QED BY <1>2, <1>3, <1>4, <1>5, <1>6, <1>7, <1>8

-----------------------------------------------------------------------------
(* What a step leaves alone it cannot disturb. *)
LEMMA SameFile ==
    ASSUME UNCHANGED <<file, synced, rotated>>
    PROVE  Written' = Written /\ Kept' = Kept /\ Synced' = Synced
  BY DEF Written, Kept, Synced, Names

(* The callers of Append. *)
LEMMA CallerStep ==
    ASSUME IInv, NEW c \in Call, Number(c) \/ Send(c) \/ Refuse(c)
    PROVE  IInv'
  <1> USE DEF IInv
  <1>0. /\ call[c] \in CallState
        /\ UNCHANGED <<state, writer, stuck, file, torn, synced, rotated>>
        /\ \A b \in Call : b # c => call'[b] = call[b]
    BY DEF TypeOK, Number, Send, Refuse, disk
  <1>1. Written' = Written /\ Kept' = Kept /\ Synced' = Synced
    BY <1>0, SameFile
  <1>2. Short' /\ Whole'
    BY <1>0 DEF Short, Whole, Up
  <1>3. Flushed'
    BY <1>0, <1>1 DEF Flushed, CallsOf, Names
  <1>4. CASE Number(c) \/ Refuse(c)
    <2>1. /\ call[c].pc \in {"idle", "send"} /\ UNCHANGED batchChan
          /\ call'[c] \in CallState /\ call'[c].pc \in {"send", "failed"}
          /\ call'[c].pc = "send" => call[c].pc = "idle"
          /\ seq' \in Nat /\ call' \in [Call -> CallState]
      <3>1. CASE Number(c)
        BY <3>1 DEF Number, TypeOK, CallState
      <3>2. CASE Refuse(c)
        BY <3>2 DEF Refuse, TypeOK, CallState
      <3> QED BY <1>4, <3>1, <3>2
    <2>2. TypeOK'
      BY <1>0, <2>1 DEF TypeOK
    <2>3. c \notin CallsOf(batchChan) \cup CallsOf(writer.batch)
      BY <2>1 DEF Queued
    <2>4. Queued'
      BY <1>0, <2>1, <2>3, CallsTyped DEF Queued, TypeOK, WriterState
    <2>5. Fresh' /\ Acked' /\ Waiting'
      BY <1>0, <1>1, <2>1 DEF Fresh, Acked, Waiting
    <2> QED BY <1>2, <1>3, <2>2, <2>4, <2>5
  <1>5. CASE Send(c)
    <2>1. /\ call[c].pc = "send" /\ batchChan' = Append(batchChan, c)
          /\ call' = [call EXCEPT ![c].pc = "wait"] /\ seq' = seq
          /\ Len(batchChan) < 2 * BufferSize
      BY <1>5 DEF Send
    <2>2. call' \in [Call -> CallState] /\ call'[c].pc = "wait"
      BY <2>1 DEF TypeOK, CallState
    <2>3. c \notin CallsOf(batchChan) \cup CallsOf(writer.batch)
      BY <2>1 DEF Queued
    <2>4. /\ batchChan' \in Seq(Call) /\ Len(batchChan') = Len(batchChan) + 1
          /\ CallsOf(batchChan') = CallsOf(batchChan) \cup {c}
          /\ Distinct(batchChan')
      BY <2>1, <2>3, CallsAppend DEF Queued, TypeOK
    <2>5. Len(batchChan') <= 2 * BufferSize
      BY <2>1, <2>4, WALAssumption DEF TypeOK
    <2>6. TypeOK'
      BY <1>0, <2>1, <2>2, <2>4, <2>5 DEF TypeOK
    <2>7. Queued'
      BY <1>0, <2>2, <2>3, <2>4, CallsTyped DEF Queued, TypeOK, WriterState
    <2>8. Fresh' /\ Acked' /\ Waiting'
      BY <1>0, <1>1, <2>1, <2>2, <2>4 DEF Fresh, Acked, Waiting
    <2> QED BY <1>2, <1>3, <2>6, <2>7, <2>8
  <1> QED BY <1>4, <1>5

(* batchWriter and the lock of flushBatch: the log is left alone. *)
LEMMA CollectStep ==
    ASSUME IInv, Take \/ Tick \/ Drain \/ Lock
    PROVE  IInv'
  <1> USE DEF IInv
  <1>0. UNCHANGED <<state, seq, call, stuck, file, torn, synced, rotated>>
    BY DEF Take, Taken, Tick, Drain, Lock, disk
  <1>1. Written' = Written /\ Kept' = Kept /\ Synced' = Synced
    BY <1>0, SameFile
  <1>2. Acked' /\ (\A c \in Call : call'[c].pc \in {"idle", "send"} => c \notin Written')
    BY <1>0, <1>1 DEF Acked, Fresh
  <1>3. writer.pc # "stopped" /\ Whole'
    <2>1. writer.pc # "stopped"
      BY DEF Take, Taken, Tick, Drain, Lock
    <2> QED BY <1>0, <2>1 DEF Whole, Up
  <1>4. CASE Take
    <2>1. /\ writer.pc = "select" /\ batchChan # <<>>
          /\ batchChan' = Tail(batchChan)
          /\ writer'.batch = Append(writer.batch, Head(batchChan))
          /\ writer'.pc \in {"select", "lock"}
          /\ writer' \in WriterState /\ Len(writer'.batch) <= BufferSize /\ Short'
      BY <1>4, TakenType
    <2>2. /\ Head(batchChan) \in Call /\ batchChan' \in Seq(Call)
          /\ Len(batchChan') = Len(batchChan) - 1
          /\ CallsOf(batchChan) = {Head(batchChan)} \cup CallsOf(batchChan')
          /\ Head(batchChan) \notin CallsOf(batchChan') /\ Distinct(batchChan')
      BY <2>1, CallsTail DEF TypeOK, Queued
    <2>3. Head(batchChan) \notin CallsOf(writer.batch)
      BY <2>2 DEF Queued
    <2>a. writer.batch \in Seq(Call) /\ Distinct(writer.batch)
      BY DEF TypeOK, WriterState, Queued
    <2>b. /\ CallsOf(writer'.batch) = CallsOf(writer.batch) \cup {Head(batchChan)}
          /\ Len(writer'.batch) = Len(writer.batch) + 1
          /\ Distinct(writer'.batch)
      BY <2>1, <2>2, <2>3, <2>a, CallsAppend
    <2>c. writer'.batch # <<>>
      BY <2>a, <2>b
    <2>4. /\ CallsOf(writer'.batch) = CallsOf(writer.batch) \cup {Head(batchChan)}
          /\ Distinct(writer'.batch) /\ writer'.batch # <<>>
      BY <2>b, <2>c
    <2>5. TypeOK'
      BY <1>0, <2>1, <2>2, WALAssumption DEF TypeOK
    <2>6. Queued' /\ Waiting'
      BY <1>0, <2>1, <2>2, <2>3, <2>4 DEF Queued, Waiting
    <2>7. Fresh' /\ Flushed'
      BY <1>1, <1>2, <2>1, <2>2, <2>4 DEF Fresh, Flushed
    <2> QED BY <1>2, <1>3, <2>1, <2>5, <2>6, <2>7
  <1>5. CASE Tick \/ Drain \/ Lock
    <2>1. /\ batchChan' = batchChan
          /\ writer.pc \in {"select", "lock"} /\ (Lock => writer.pc = "lock")
      <3>1. CASE Tick
        BY <3>1 DEF Tick, Lock
      <3>2. CASE Drain
        BY <3>2 DEF Drain, Lock
      <3>3. CASE Lock
        BY <3>3 DEF Lock
      <3> QED BY <1>5, <3>1, <3>2, <3>3
    <2>2. Fresh'
      BY <1>1, <1>2, <2>1 DEF Fresh
    <2>3. CASE writer' = Stopped
      <3>1. TypeOK' /\ Short'
        BY <1>0, <2>1, <2>3, WriterFields, WALAssumption DEF TypeOK, Short
      <3>2. Queued' /\ Flushed'
        BY <1>0, <2>1, <2>3, WriterFields, CallsEmpty DEF Queued, Flushed
      <3>3. writer.batch = <<>>
        <4>1. Tick => writer'.pc = "lock"
          BY WriterMoves DEF Becomes
        <4>2. Lock => writer'.pc = "write"
          BY WriterMoves DEF Becomes
        <4>3. Drain /\ writer.batch # <<>> => writer'.pc = "lock"
          BY DEF Drain, TypeOK, WriterState
        <4> QED BY <1>5, <2>3, <4>1, <4>2, <4>3, WriterFields
      <3>4. Waiting'
        BY <1>0, <2>1, <2>3, <3>3, WriterFields DEF Waiting
      <3> QED BY <1>2, <1>3, <2>2, <3>1, <3>2, <3>4
    <2>4. CASE writer' # Stopped
      <3>1. /\ writer.batch # <<>>
            /\ Becomes("lock") \/ (Becomes("write") /\ writer'.n = 1)
        <4>1. CASE Tick
          BY <4>1, WriterMoves DEF Tick
        <4>2. CASE Drain
          BY <4>2, <2>4, WriterMoves
        <4>3. CASE Lock
          BY <4>3, <2>1, WriterMoves DEF Flushed
        <4> QED BY <1>5, <4>1, <4>2, <4>3
      <3>2. writer'.batch = writer.batch /\ writer' \in WriterState
        BY <3>1 DEF Becomes
      <3>3. TypeOK' /\ Short'
        BY <1>0, <2>1, <3>1, <3>2 DEF TypeOK, Short, Becomes
      <3>4. Queued' /\ Waiting'
        BY <1>0, <2>1, <3>1, <3>2 DEF Queued, Waiting, Becomes
      <3>5. CallsOf(writer.batch) \cap Written = {}
        BY <2>1 DEF Flushed
      <3>6. 1 \in DOMAIN writer.batch /\ \A i \in DOMAIN writer.batch : i >= 1 /\ ~ i < 1
        BY <3>1 DEF TypeOK, WriterState
      <3>7. Flushed'
        BY <1>1, <3>1, <3>2, <3>5, <3>6 DEF Flushed, Becomes, CallsOf
      <3> QED BY <1>2, <1>3, <2>2, <3>3, <3>4, <3>7
    <2> QED BY <2>3, <2>4
  <1> QED BY <1>4, <1>5

(* What is safe from a crash is in the log. *)
LEMMA KeptWritten == ASSUME TypeOK PROVE Synced \subseteq Names(file) /\ Kept \subseteq Written
  <1>1. 1 .. synced \subseteq DOMAIN file
    BY DEF TypeOK
  <1> QED BY <1>1 DEF Kept, Synced, Written, Names

(* The record an Encode adds, and where. *)
LEMMA EncodedRecord ==
    ASSUME IInv, Encode
    PROVE  LET b == writer.batch[writer.n]
               r == [call |-> b, seq |-> call[b].seq]
           IN /\ b \in Call /\ b \in CallsOf(writer.batch) /\ b \notin Written
              /\ r \in Record /\ r.call = b
              /\ file' = Append(file, r) /\ file \in Seq(Record)
              /\ Written' = Written \cup {b} /\ Kept' = Kept /\ ~ torn
              /\ UNCHANGED <<state, seq, call, batchChan, stuck, torn, synced, rotated>>
              /\ file' \in Seq(Record) /\ Len(file') = Len(file) + 1
              /\ Names(file') = Names(file) \cup {b}
  <1> DEFINE b == writer.batch[writer.n]
             r == [call |-> b, seq |-> call[b].seq]
  <1> USE DEF IInv
  <1>1. /\ writer.pc = "write" /\ Up /\ ~ stuck
        /\ UNCHANGED <<state, seq, call, batchChan, stuck, torn, synced, rotated>>
        /\ file' = IF torn THEN file ELSE Append(file, r)
    BY DEF Encode, Encoded, Extended
  <1>2. /\ writer.n \in DOMAIN writer.batch /\ b \notin Written
        /\ writer.batch \in Seq(Call)
    <2>1. writer.n \in DOMAIN writer.batch /\ writer.batch \in Seq(Call) /\ writer.n >= writer.n
      BY <1>1 DEF Flushed, TypeOK, WriterState
    <2> QED BY <1>1, <2>1 DEF Flushed
  <1>3. b \in Call /\ b \in CallsOf(writer.batch)
    BY <1>2 DEF CallsOf
  <1>4. r \in Record /\ r.call = b
    BY <1>3 DEF Record, TypeOK, CallState
  <1>5. ~ torn /\ file' = Append(file, r)
    BY <1>1 DEF Whole
  <1>6. file \in Seq(Record) /\ synced \in 0 .. Len(file)
    BY DEF TypeOK, Record
  <1> HIDE DEF b, r
  <1>7. /\ Names(file') = Names(file) \cup {b}
        /\ file' \in Seq(Record) /\ Len(file') = Len(file) + 1
    BY <1>4, <1>5, <1>6, NamesAppend
  <1>8. Written' = Written \cup {b}
    BY <1>1, <1>7 DEF Written, Names
  <1>9. Kept' = Kept
    <2>1. \A i \in 1 .. synced : file'[i] = file[i]
      BY <1>4, <1>5, <1>6
    <2> QED BY <1>1, <2>1 DEF Kept, Synced
  <1> QED BY <1>1, <1>2, <1>3, <1>4, <1>5, <1>6, <1>7, <1>8, <1>9 DEF b, r

(* One record more of the batch is in the log. *)
LEMMA EncodeStep == ASSUME IInv, Encode PROVE IInv'
  <1> DEFINE b == writer.batch[writer.n]
  <1> USE DEF IInv
  <1>1. /\ b \in Call /\ b \in CallsOf(writer.batch) /\ b \notin Written
        /\ Written' = Written \cup {b} /\ Kept' = Kept
        /\ UNCHANGED <<state, seq, call, batchChan, stuck, torn, synced, rotated>>
        /\ file' \in Seq(Record) /\ Len(file') = Len(file) + 1
        /\ Names(file') = Names(file) \cup {b}
    BY EncodedRecord
  <1>2. /\ Becomes(IF writer.n = Len(writer.batch) THEN "sync" ELSE "write")
        /\ writer'.n = writer.n + 1 /\ writer.pc = "write"
    BY WriterMoves DEF Encode
  <1>3. /\ writer'.batch = writer.batch /\ writer' \in WriterState
        /\ writer'.pc \in {"sync", "write"}
        /\ writer'.pc = "sync" <=> writer.n = Len(writer.batch)
    BY <1>2 DEF Becomes
  <1>4. synced' \in 0 .. Len(file')
    BY <1>1 DEF TypeOK
  <1>5. TypeOK' /\ Short'
    BY <1>1, <1>3, <1>4 DEF TypeOK, Short, Record
  <1>6. Queued' /\ Waiting'
    BY <1>1, <1>3 DEF Queued, Waiting
  <1>7. Fresh' /\ Acked' /\ Whole'
    BY <1>1, <1>2, <1>3 DEF Fresh, Acked, Whole, Up, Queued
  <1>8. Flushed'
    <2>1. /\ writer.n \in DOMAIN writer.batch
          /\ \A i \in DOMAIN writer.batch :
                /\ i < writer.n => writer.batch[i] \in Names(file)
                /\ i >= writer.n => writer.batch[i] \notin Written
          /\ \A i, k \in DOMAIN writer.batch : writer.batch[i] = writer.batch[k] => i = k
      BY <1>2 DEF Flushed, Queued, Distinct
    <2>2. /\ DOMAIN writer.batch = 1 .. Len(writer.batch) /\ Len(writer.batch) \in Nat
          /\ writer.n \in Nat
      BY DEF TypeOK, WriterState
    <2>3. \A i \in DOMAIN writer.batch :
            /\ i < writer.n + 1 => writer.batch[i] \in Names(file')
            /\ i >= writer.n + 1 => writer.batch[i] \notin Written'
      <3>1. ASSUME NEW i \in DOMAIN writer.batch, i < writer.n + 1 PROVE i < writer.n \/ i = writer.n
        BY <2>2, <3>1
      <3>2. ASSUME NEW i \in DOMAIN writer.batch, i >= writer.n + 1 PROVE i >= writer.n /\ i # writer.n
        BY <2>2, <3>2
      <3>3. \A i \in DOMAIN writer.batch : i < writer.n + 1 => writer.batch[i] \in Names(file')
        BY <1>1, <2>1, <3>1
      <3>4. \A i \in DOMAIN writer.batch : i >= writer.n + 1 => writer.batch[i] \notin Written'
        BY <1>1, <2>1, <3>2
      <3> QED BY <3>3, <3>4
    <2>4. CASE writer.n = Len(writer.batch)
      <3>1. \A i \in DOMAIN writer.batch : i < writer.n + 1
        BY <2>2, <2>4
      <3>2. CallsOf(writer.batch) \subseteq Names(file')
        BY <2>3, <3>1 DEF CallsOf
      <3> QED BY <1>3, <2>4, <3>2 DEF Flushed
    <2>5. CASE writer.n # Len(writer.batch)
      <3>1. writer.n + 1 \in DOMAIN writer.batch
        BY <2>1, <2>2, <2>5
      <3>2. writer'.pc = "write"
        BY <1>3, <2>5
      <3> QED BY <1>2, <1>3, <2>3, <3>1, <3>2 DEF Flushed
    <2> QED BY <2>4, <2>5
  <1> QED BY <1>5, <1>6, <1>7, <1>8

(* The end of a batch. *)
LEMMA SyncStep ==
    ASSUME IInv, EncodeFails \/ Sync \/ SyncFails
    PROVE  IInv'
  <1> USE DEF IInv
  <1>1. /\ UNCHANGED <<state, seq, call, batchChan, file, rotated>>
        /\ writer.pc \in {"write", "sync"}
    BY DEF EncodeFails, Sync, SyncFails, disk
  <1>2. /\ writer'.pc = "answer" /\ writer'.batch = writer.batch /\ writer' \in WriterState
        /\ ~ writer'.err => Sync
    BY WriterMoves DEF Becomes
  <1>3. Written' = Written
    BY <1>1 DEF Written, Names
  <1>4. /\ stuck' \in BOOLEAN /\ torn' \in BOOLEAN
        /\ Up /\ torn' => stuck'
    <2>1. CASE EncodeFails
      BY <2>1 DEF EncodeFails, TypeOK, Whole
    <2>2. CASE Sync \/ SyncFails
      BY <2>2 DEF Sync, SyncFails, disk, TypeOK, Whole
    <2> QED BY <2>1, <2>2
  <1>5. synced' \in 0 .. Len(file) /\ Kept \subseteq Kept' /\ (Sync => Synced' = Names(file))
    <2>1. CASE Sync
      <3>1. synced' = Len(file) /\ Len(file) \in Nat /\ 1 .. Len(file) = DOMAIN file
        BY <2>1 DEF Sync, TypeOK
      <3>2. Synced' = Names(file)
        BY <1>1, <3>1 DEF Synced, Names
      <3> QED BY <1>1, <3>1, <3>2, KeptWritten DEF Kept
    <2>2. CASE ~ Sync
      <3>1. synced' = synced
        BY <2>2 DEF EncodeFails, SyncFails, disk
      <3> QED BY <1>1, <2>2, <3>1 DEF Kept, Synced, TypeOK
    <2> QED BY <2>1, <2>2
  <1>6. TypeOK' /\ Short'
    BY <1>1, <1>2, <1>4, <1>5 DEF TypeOK, Short
  <1>7. Queued' /\ Waiting' /\ Fresh' /\ Acked'
    BY <1>1, <1>2, <1>3, <1>5 DEF Queued, Waiting, Fresh, Acked
  <1>8. Whole'
    BY <1>1, <1>2, <1>4 DEF Whole, Up, EncodeFails, Sync, SyncFails
  <1>9. Sync => CallsOf(writer.batch) \subseteq Names(file)
    BY DEF Flushed, Sync
  <1>10. Flushed'
    BY <1>2, <1>5, <1>9 DEF Flushed
  <1> QED BY <1>1, <1>6, <1>7, <1>8, <1>10

LEMMA AnswerStep == ASSUME IInv, Answer PROVE IInv'
  <1> USE DEF IInv
  <1> DEFINE B == CallsOf(writer.batch)
             st == IF writer.err THEN "failed" ELSE "ok"
  <1>1. /\ writer.pc = "answer" /\ writer' \in {Stopped, NewWriter}
        /\ call' = [c \in Call |-> IF c \in B THEN [call[c] EXCEPT !.pc = st] ELSE call[c]]
        /\ UNCHANGED <<state, seq, batchChan, stuck, file, torn, synced, rotated>>
    BY DEF Answer, disk
  <1>2. st \in {"failed", "ok"} /\ (st = "ok" => B \subseteq Kept)
    BY <1>1 DEF Flushed, Kept
  <1>3. B \cap CallsOf(batchChan) = {} /\ B \subseteq Call /\ CallsOf(batchChan) \subseteq Call
    BY CallsTyped DEF Queued, TypeOK, WriterState
  <1> HIDE DEF B, st
  <1>4. call' \in [Call -> CallState]
    <2>1. ASSUME NEW c \in Call PROVE [call[c] EXCEPT !.pc = st] \in CallState
      BY <1>2 DEF TypeOK, CallState
    <2> QED BY <1>1, <2>1 DEF TypeOK
  <1>5. \A c \in Call : IF c \in B THEN call'[c].pc = st ELSE call'[c] = call[c]
    BY <1>1 DEF TypeOK, CallState
  <1>6. Written' = Written /\ Kept' = Kept
    BY <1>1, SameFile
  <1>7. /\ writer' \in WriterState /\ writer'.pc \in {"select", "stopped"}
        /\ writer'.batch = <<>> /\ Len(writer'.batch) = 0
    BY <1>1, WriterFields
  <1>8. TypeOK' /\ Short'
    BY <1>1, <1>4, <1>7, WALAssumption DEF TypeOK, Short
  <1>9. Queued'
    BY <1>1, <1>3, <1>5, <1>7, CallsEmpty DEF Queued
  <1>a. Waiting'
    BY <1>1, <1>2, <1>5, <1>7, CallsEmpty DEF Waiting, B
  <1>10. Fresh' /\ Acked'
    BY <1>1, <1>2, <1>5, <1>6 DEF Fresh, Acked
  <1>11. Flushed' /\ Whole'
    BY <1>1, <1>7, CallsEmpty DEF Flushed, Whole, Up
  <1> QED BY <1>8, <1>9, <1>a, <1>10, <1>11

-----------------------------------------------------------------------------
(* Opening, rotating and closing: no call and no request changes. *)
LEMMA RotatorStep ==
    ASSUME IInv, Open \/ Rotate \/ Rename \/ Reopen \/ RotateFails \/ Close \/ CloseFile
    PROVE  IInv' /\ Written' = Written /\ UNCHANGED call
  <1> USE DEF IInv
  <1>1. UNCHANGED <<call, batchChan>> /\ state' \in State /\ seq' \in Nat
    BY DEF Open, Rotate, Rename, Reopen, RotateFails, Close, CloseFile, State, TypeOK
  <1>2. /\ file' \in Seq(Record) /\ rotated' \subseteq Call /\ synced' \in 0 .. Len(file')
        /\ Written' = Written /\ Kept \subseteq Kept'
        /\ torn' \in BOOLEAN /\ stuck' \in BOOLEAN
    <2>1. CASE Rename
      <3>1. /\ rotated' = rotated \cup CallsOf(Log)
            /\ file' = <<>> /\ synced' = 0 /\ torn' = FALSE /\ stuck' = stuck
        BY <2>1 DEF Rename
      <3>2. CallsOf(Log) = Names(file) /\ Names(file) \subseteq Call
        <4>1. file \in Seq(Record)
          BY DEF TypeOK, Record
        <4>2. \A i \in DOMAIN file : file[i] \in Record
          BY <4>1
        <4> QED BY <4>2, LogShape DEF CallsOf, Names, Record
      <3>3. rotated' = Written /\ rotated' \subseteq Call
        BY <3>1, <3>2 DEF Written, TypeOK
      <3>4. Names(file') = {} /\ Synced' = {} /\ file' \in Seq(Record) /\ Len(file') = 0
        BY <3>1 DEF Names, Synced
      <3>5. Written' = Written /\ Kept' = Written
        BY <3>3, <3>4 DEF Written, Kept
      <3>6. synced' \in 0 .. Len(file')
        BY <3>1, <3>4
      <3>8. torn' \in BOOLEAN /\ stuck' \in BOOLEAN
        BY <3>1 DEF TypeOK
      <3> QED BY <3>3, <3>4, <3>5, <3>6, <3>8, KeptWritten
    <2>2. CASE ~ Rename
      <3>1. UNCHANGED <<file, torn, synced, rotated>> /\ stuck' \in BOOLEAN
        BY <2>2 DEF Open, Rotate, Reopen, RotateFails, Close, CloseFile, disk, TypeOK
      <3> QED BY <3>1, SameFile DEF TypeOK, Record
    <2> QED BY <2>1, <2>2
  <1>3. Acked'
    BY <1>1, <1>2 DEF Acked
  <1>4. Fresh'
    BY <1>1, <1>2 DEF Fresh
  <1>5. CASE Open \/ Reopen
    <2>1. writer' = NewWriter /\ stuck' = FALSE /\ torn' = torn /\ state' # "renamed"
      BY <1>5 DEF Open, Reopen, disk
    <2>2. TypeOK' /\ Short'
      BY <1>1, <1>2, <2>1, WriterFields, WALAssumption DEF TypeOK, Short, Record
    <2>3. Queued' /\ Flushed'
      BY <1>1, <2>1, WriterFields, CallsEmpty DEF Queued, Flushed
    <2>5. Waiting'
      <3>1. writer.batch = <<>>
        BY <1>5 DEF Open, Reopen, Whole, Waiting
      <3> QED BY <1>1, <2>1, <3>1, WriterFields DEF Waiting
    <2>4. Whole'
      <3>1. CASE Open
        BY <3>1 DEF Open, disk, Whole, Up
      <3>2. CASE Reopen
        BY <3>2 DEF Reopen, disk, Whole, Up
      <3> QED BY <1>5, <3>1, <3>2
    <2> QED BY <1>1, <1>2, <1>3, <1>4, <2>2, <2>3, <2>4, <2>5
  <1>6. CASE Rename
    <2>1. writer' = writer /\ writer.pc = "stopped" /\ torn' = FALSE
      BY <1>6 DEF Rename
    <2>2. TypeOK' /\ Short' /\ Queued' /\ Waiting' /\ Flushed' /\ Whole'
      BY <1>1, <1>2, <2>1 DEF TypeOK, Short, Queued, Waiting, Flushed, Whole, Record
    <2> QED BY <1>1, <1>2, <1>3, <1>4, <2>2
  <1>7. CASE Rotate \/ RotateFails \/ Close \/ CloseFile
    <2>1. /\ UNCHANGED <<writer, stuck, file, torn, synced, rotated>>
          /\ state' \notin {"renamed", "down"} /\ Up
      BY <1>7 DEF Rotate, RotateFails, Close, CloseFile, disk, Up
    <2>2. Written' = Written /\ Kept' = Kept /\ Synced' = Synced
      BY <2>1, SameFile
    <2>3. TypeOK' /\ Short' /\ Queued' /\ Waiting' /\ Whole'
      BY <1>1, <2>1 DEF TypeOK, Short, Queued, Waiting, Whole
    <2>4. Flushed'
      BY <2>1, <2>2 DEF Flushed, CallsOf, Names
    <2> QED BY <1>1, <1>2, <1>3, <1>4, <2>3, <2>4
  <1> QED BY <1>5, <1>6, <1>7

-----------------------------------------------------------------------------
(* A crash keeps a part of the file that ends no earlier than the last sync. *)
LEMMA CrashStep ==
    ASSUME IInv, Crash
    PROVE  IInv' /\ \E n \in 0 .. Len(file) : synced <= n /\ file' = SubSeq(file, 1, n)
  <1> USE DEF IInv
  <1>1. PICK n \in synced .. Len(file) : file' = SubSeq(file, 1, n)
    BY DEF Crash
  <1>2. /\ file \in Seq(Record) /\ synced \in 0 .. Len(file)
        /\ Len(file) \in Nat /\ n \in 0 .. Len(file) /\ synced <= n
    BY <1>1 DEF TypeOK, Record
  <1>3. /\ file' \in Seq(Record) /\ Len(file') = n
        /\ \A i \in 1 .. n : file'[i] = file[i]
    BY <1>1, <1>2, SubSeqProperties
  <1>4. /\ state' = "down" /\ batchChan' = <<>> /\ writer' = Stopped
        /\ UNCHANGED <<seq, stuck, synced, rotated>>
        /\ call' = [c \in Call |-> IF call[c].pc \in {"send", "wait"}
                       THEN [call[c] EXCEPT !.pc = "lost"] ELSE call[c]]
    BY DEF Crash
  <1>5. torn' \in BOOLEAN
    BY DEF Crash
  <1>6. /\ call' \in [Call -> CallState]
        /\ \A c \in Call : IF call[c].pc \in {"send", "wait"} THEN call'[c].pc = "lost"
                           ELSE call'[c] = call[c]
    <2>1. ASSUME NEW c \in Call
          PROVE  /\ [call[c] EXCEPT !.pc = "lost"] \in CallState
                 /\ [call[c] EXCEPT !.pc = "lost"].pc = "lost"
      BY DEF TypeOK, CallState
    <2> QED BY <1>4, <2>1 DEF TypeOK
  <1>7. Names(file') \subseteq Names(file) /\ Kept' = Kept
    <2>1. DOMAIN file' = 1 .. n /\ DOMAIN file = 1 .. Len(file)
      BY <1>2, <1>3
    <2>2. \A i \in DOMAIN file' : i \in DOMAIN file /\ file'[i] = file[i]
      BY <1>2, <1>3, <2>1
    <2>3. \A i \in 1 .. synced : file'[i] = file[i]
      BY <1>2, <1>3
    <2> QED BY <1>4, <2>2, <2>3 DEF Names, Kept, Synced
  <1>8. Written' \subseteq Written
    BY <1>4, <1>7 DEF Written, Names
  <1>9. TypeOK' /\ Short'
    <2>1. synced' \in 0 .. Len(file')
      BY <1>2, <1>3, <1>4
    <2>2. stuck' \in BOOLEAN /\ Len(<<>>) = 0 /\ <<>> \in Seq(Call)
      BY <1>4 DEF TypeOK
    <2>3. state' \in State /\ seq' \in Nat
      BY <1>4 DEF TypeOK, State
    <2> QED BY <1>3, <1>4, <1>5, <1>6, <2>1, <2>2, <2>3, WriterFields, WALAssumption
            DEF TypeOK, Short, Record
  <1>10. Queued' /\ Waiting' /\ Flushed' /\ Whole'
    BY <1>4, <1>6, WriterFields, CallsEmpty DEF Queued, Waiting, Flushed, Whole, Up
  <1>11. Fresh' /\ Acked'
    BY <1>4, <1>6, <1>7, <1>8, CallsEmpty DEF Fresh, Acked
  <1> QED BY <1>1, <1>2, <1>9, <1>10, <1>11

LEMMA StepInv == IInv /\ [Next]_vars => IInv'
  <1> SUFFICES ASSUME IInv, [Next]_vars PROVE IInv'
    OBVIOUS
  <1>1. CASE \E c \in Call : Number(c) \/ Send(c) \/ Refuse(c)
    BY <1>1, CallerStep
  <1>2. CASE BatchWriter
    BY <1>2, CollectStep, EncodeStep, SyncStep, AnswerStep DEF BatchWriter
  <1>3. CASE Open \/ Rotate \/ Rotator \/ Close
    BY <1>3, RotatorStep DEF Rotator
  <1>4. CASE Crash
    BY <1>4, CrashStep
  <1>5. CASE UNCHANGED vars
    <2>1. UNCHANGED <<state, seq, call, batchChan, writer, stuck, file, torn, synced, rotated>>
      BY <1>5 DEF vars, disk
    <2>2. Written' = Written /\ Kept' = Kept /\ Synced' = Synced
      BY <2>1, SameFile
    <2>3. TypeOK' /\ Short' /\ Queued' /\ Waiting' /\ Whole'
      BY <2>1 DEF IInv, TypeOK, Short, Queued, Waiting, Whole, Up
    <2>4. Fresh' /\ Flushed' /\ Acked'
      BY <2>1, <2>2 DEF IInv, Fresh, Flushed, Acked, CallsOf, Names
    <2> QED BY <2>3, <2>4 DEF IInv
  <1> QED BY <1>1, <1>2, <1>3, <1>4, <1>5 DEF Next

LEMMA InvHolds == Spec => []IInv
  BY InitInv, StepInv, PTL DEF Spec

(* The variables keep their types, and batch and channel their bounds. *)
THEOREM WALTyped == Spec => []TypeOK
  <1>1. IInv => TypeOK
    BY DEF IInv
  <1> QED BY InvHolds, <1>1, PTL

-----------------------------------------------------------------------------
(* The calls as DurableLog sees them. *)
Calls == [c \in Call |-> IF call[c].pc \in {"send", "wait"} THEN "active" ELSE call[c].pc]

(* An answered call was waiting, and ends with the result of its batch. *)
LEMMA AnswerImplements == ASSUME IInv, Answer PROVE D!Next
  <1> USE DEF IInv
  <1> DEFINE B  == CallsOf(writer.batch)
             st == IF writer.err THEN "failed" ELSE "ok"
  <1>1. /\ writer.pc = "answer"
        /\ call' = [c \in Call |-> IF c \in B THEN [call[c] EXCEPT !.pc = st] ELSE call[c]]
        /\ UNCHANGED <<file, torn, rotated>>
    BY DEF Answer, disk
  <1>2. st \in {"failed", "ok"} /\ (st = "ok" => B \subseteq Names(file))
    BY <1>1, KeptWritten DEF Flushed
  <1>3. B \subseteq Call /\ \A c \in B : call[c].pc = "wait"
    BY CallsTyped DEF Queued, TypeOK, WriterState
  <1> HIDE DEF B, st
  <1>4. \A c \in Call : IF c \in B THEN call'[c].pc = st ELSE call'[c] = call[c]
    BY <1>1 DEF TypeOK, CallState
  <1>5. Calls' = [c \in Call |-> IF c \in B THEN st ELSE Calls[c]]
    BY <1>2, <1>4 DEF Calls
  <1>6. B \subseteq D!Active
    BY <1>3 DEF Calls, D!Active
  <1>7. Log' = Log /\ (~ torn)' = ~ torn /\ rotated' = rotated
    BY <1>1 DEF Log
  <1>8. B \in SUBSET Call
    BY <1>3
  <1>9. CASE st = "ok"
    <2>1. D!Succeed(B)
      BY <1>2, <1>5, <1>6, <1>7, <1>9, LogShape DEF D!Succeed, D!Answered, D!Recorded, Calls
    <2> QED BY <1>8, <2>1 DEF D!Next, D!Succeed, D!Answered
  <1>10. CASE st = "failed"
    <2>1. D!Fail(B)
      BY <1>5, <1>6, <1>7, <1>10 DEF D!Fail, D!Answered, Calls
    <2> QED BY <1>8, <2>1 DEF D!Next, D!Fail, D!Answered
  <1> QED BY <1>2, <1>9, <1>10

(* A call of Append begins when it takes its number, and may be refused. *)
LEMMA CallerImplements ==
    ASSUME IInv, NEW c \in Call, Number(c) \/ Refuse(c) PROVE D!Next
  <1> USE DEF IInv
  <1>1. Log' = Log /\ (~ torn)' = ~ torn /\ rotated' = rotated
    BY DEF Number, Refuse, disk, Log
  <1>2. \A b \in Call : b # c => call'[b] = call[b]
    BY DEF Number, Refuse, TypeOK
  <1>3. CASE Number(c)
    <2>1. call[c].pc = "idle" /\ call'[c].pc = "send"
      BY <1>3 DEF Number, TypeOK, CallState
    <2>2. Calls[c] = "idle" /\ Calls' = [Calls EXCEPT ![c] = "active"]
      BY <1>2, <2>1 DEF Calls
    <2>3. D!Begin(c)
      BY <1>1, <2>2 DEF D!Begin, Calls
    <2> QED BY <2>3 DEF D!Next
  <1>4. CASE Refuse(c)
    <2>1. call[c].pc = "send" /\ call'[c].pc = "failed"
      BY <1>4 DEF Refuse, TypeOK, CallState
    <2>2. Calls[c] = "active" /\ Calls' = [b \in Call |-> IF b \in {c} THEN "failed" ELSE Calls[b]]
      BY <1>2, <2>1 DEF Calls
    <2>3. {c} \in SUBSET Call /\ {c} \subseteq D!Active
      BY <2>2 DEF D!Active, Calls
    <2>4. D!Fail({c})
      BY <1>1, <2>2, <2>3 DEF D!Fail, D!Answered, Calls
    <2> QED BY <2>3, <2>4 DEF D!Next
  <1> QED BY <1>3, <1>4

(* An event is recorded once, while its call waits, in a log that can be read. *)
LEMMA EncodeImplements == ASSUME IInv, Encode PROVE D!Next
  <1> USE DEF IInv
  <1> DEFINE b == writer.batch[writer.n]
             r == [call |-> b, seq |-> call[b].seq]
  <1>1. /\ b \in Call /\ b \in CallsOf(writer.batch) /\ b \notin Written /\ ~ torn
        /\ r \in Record /\ r.call = b
        /\ file' = Append(file, r) /\ file \in Seq(Record)
        /\ UNCHANGED <<call, torn, rotated>>
    BY EncodedRecord
  <1>2. call[b].pc = "wait"
    BY <1>1 DEF Queued
  <1> HIDE DEF b, r
  <1>3. Calls' = Calls /\ b \in D!Active
    BY <1>1, <1>2 DEF Calls, D!Active
  <1>4. Log' = Append(Log, b)
    <2> DEFINE L == Logged(file)
               M == Logged(file')
    <2>1. /\ file' \in Seq(Record) /\ Len(file') = Len(file) + 1 /\ Len(file) \in Nat
          /\ file'[Len(file) + 1] = r /\ \A i \in 1 .. Len(file) : file'[i] = file[i]
      BY <1>1
    <2>2. /\ L \in Seq(Call) /\ Len(L) = Len(file)
          /\ \A i \in 1 .. Len(file) : L[i] = file[i].call
      BY <1>1, LoggedShape
    <2>3. /\ M \in Seq(Call) /\ Len(M) = Len(file')
          /\ \A i \in 1 .. Len(file') : M[i] = file'[i].call
      BY <2>1, LoggedShape
    <2>4. Log = L /\ Log' = M
      BY DEF Log, Logged
    <2> HIDE DEF L, M
    <2>5. /\ Append(L, b) \in Seq(Call) /\ Len(Append(L, b)) = Len(file) + 1
          /\ \A i \in 1 .. Len(file) : Append(L, b)[i] = L[i]
          /\ Append(L, b)[Len(file) + 1] = b
      BY <1>1, <2>2
    <2>6. \A i \in 1 .. Len(file) + 1 : Append(L, b)[i] = M[i]
      <3>1. \A i \in 1 .. Len(file) + 1 : i \in 1 .. Len(file) \/ i = Len(file) + 1
        BY <2>1
      <3>2. \A i \in 1 .. Len(file) : i \in 1 .. Len(file')
        BY <2>1
      <3>3. Len(file) + 1 \in 1 .. Len(file')
        BY <2>1
      <3> QED BY <1>1, <2>1, <2>2, <2>3, <2>5, <3>1, <3>2, <3>3
    <2> QED BY <2>1, <2>3, <2>4, <2>5, <2>6, SeqEqual
  <1>5. b \notin D!Recorded \cup rotated
    BY <1>1, LogShape DEF Written, D!Recorded
  <1>6. D!Record(b)
    BY <1>1, <1>3, <1>4, <1>5 DEF D!Record, Calls
  <1> QED BY <1>1, <1>6 DEF D!Next

(* A write that fails may damage the log: it belongs to a call that waits. *)
LEMMA EncodeFailsImplements ==
    ASSUME IInv, EncodeFails PROVE D!Next \/ UNCHANGED <<Log, ~ torn, rotated, Calls>>
  <1> USE DEF IInv
  <1>1. /\ UNCHANGED <<call, file, rotated>> /\ Up /\ writer.pc = "write"
        /\ IF stuck THEN torn' = torn ELSE torn' \in BOOLEAN
    BY DEF EncodeFails
  <1>2. Log' = Log /\ Calls' = Calls
    BY <1>1 DEF Log, Calls
  <1>3. CASE torn' = torn
    BY <1>1, <1>2, <1>3
  <1>4. CASE torn' # torn
    <2>1. torn' = TRUE
      BY <1>1, <1>4 DEF Whole, TypeOK
    <2>2. writer.batch[writer.n] \in D!Active
      <3>1. writer.batch[writer.n] \in CallsOf(writer.batch) /\ writer.batch[writer.n] \in Call
        BY <1>1 DEF Flushed, CallsOf, TypeOK, WriterState
      <3> QED BY <3>1 DEF Queued, D!Active
    <2>3. D!Damage
      BY <1>1, <1>2, <2>1, <2>2 DEF D!Damage, Calls
    <2> QED BY <2>3 DEF D!Next
  <1> QED BY <1>3, <1>4

(* A rotation finds no event in the file whose call still waits: the batch     *)
(* writer has answered its batch, and what is in the channel is not written.   *)
LEMMA RenameImplements == ASSUME IInv, Rename PROVE D!Next
  <1> USE DEF IInv
  <1>1. /\ writer.pc = "stopped" /\ file' = <<>> /\ torn' = FALSE
        /\ rotated' = rotated \cup CallsOf(Log) /\ call' = call
    BY DEF Rename
  <1>2. CallsOf(Log) = D!Recorded /\ D!Recorded = Names(file)
    BY LogShape DEF CallsOf, D!Recorded
  <1>3. D!Recorded \cap D!Active = {}
    <2>1. SUFFICES ASSUME NEW c \in D!Active PROVE c \notin Names(file)
      BY <1>2
    <2>2. c \in Call /\ call[c].pc \in {"send", "wait"}
      BY DEF D!Active, TypeOK, CallState
    <2>3. CASE call[c].pc = "send"
      BY <2>2, <2>3 DEF Fresh, Written
    <2>4. CASE call[c].pc = "wait"
      <3>1. c \in CallsOf(batchChan)
        BY <1>1, <2>2, <2>4, CallsEmpty DEF Waiting
      <3> QED BY <3>1 DEF Fresh, Written
    <2> QED BY <2>2, <2>3, <2>4
  <1>4. Log' = <<>> /\ Calls' = Calls
    BY <1>1 DEF Log, Calls
  <1>5. D!Clear
    BY <1>1, <1>2, <1>3, <1>4 DEF D!Clear, Calls
  <1> QED BY <1>5 DEF D!Next

(* A crash takes records from the end of the log, none that was acknowledged, *)
(* and leaves a part of one only where a call was waiting.                    *)
LEMMA CrashImplements == ASSUME IInv, Crash PROVE D!Next
  <1> USE DEF IInv
  <1>1. PICK n \in synced .. Len(file) :
            /\ file' = SubSeq(file, 1, n)
            /\ torn' \in {FALSE, torn \/ n < Len(file) \/ writer.pc = "write"}
    BY DEF Crash
  <1>2. /\ UNCHANGED rotated
        /\ call' = [c \in Call |-> IF call[c].pc \in {"send", "wait"}
                       THEN [call[c] EXCEPT !.pc = "lost"] ELSE call[c]]
    BY DEF Crash
  <1>3. Calls' = [c \in Call |-> IF Calls[c] = "active" THEN "lost" ELSE Calls[c]]
    <2>1. ASSUME NEW c \in Call
          PROVE  /\ [call[c] EXCEPT !.pc = "lost"].pc = "lost"
                 /\ call[c].pc \notin {"active"}
      BY DEF TypeOK, CallState
    <2> QED BY <1>2, <2>1 DEF Calls, TypeOK
  <1> DEFINE L == Logged(file)
             M == Logged(file')
  <1>4. /\ file \in Seq(Record) /\ synced \in 0 .. Len(file)
        /\ Len(file) \in Nat /\ n \in 0 .. Len(file) /\ synced <= n
    BY <1>1 DEF TypeOK, Record
  <1>5. /\ file' \in Seq(Record) /\ Len(file') = n
        /\ \A i \in 1 .. n : file'[i] = file[i]
    BY <1>1, <1>4, SubSeqProperties
  <1>6. /\ L \in Seq(Call) /\ Len(L) = Len(file)
        /\ \A i \in 1 .. Len(file) : L[i] = file[i].call
    BY <1>4, LoggedShape
  <1>7. /\ M \in Seq(Call) /\ Len(M) = n
        /\ \A i \in 1 .. n : M[i] = file'[i].call
    BY <1>4, <1>5, LoggedShape
  <1>8. Log = L /\ Log' = M
    BY DEF Log, Logged
  <1> HIDE DEF L, M
  <1>9. M = SubSeq(L, 1, n)
    <2>1. \A i \in 1 .. n : i \in 1 .. Len(file)
      BY <1>4
    <2>2. \A i \in 1 .. n : L[i] \in Call
      BY <1>6, <2>1
    <2>3. /\ SubSeq(L, 1, n) \in Seq(Call) /\ Len(SubSeq(L, 1, n)) = n
          /\ \A i \in 1 .. n : SubSeq(L, 1, n)[i] = L[i]
      BY <1>4, <1>6, <2>2, SubSeqProperties
    <2>4. \A i \in 1 .. n : SubSeq(L, 1, n)[i] = M[i]
      BY <1>5, <1>6, <1>7, <2>1, <2>3
    <2> QED BY <1>7, <2>3, <2>4, SeqEqual
  <1>10. ASSUME NEW c \in Call \ rotated, Calls[c] = "ok" PROVE c \in {L[i] : i \in 1 .. n}
    <2>1. call[c].pc = "ok"
      BY <1>10 DEF Calls
    <2>2. PICK i \in 1 .. synced : c = file[i].call
      BY <1>10, <2>1 DEF Acked, Kept, Synced
    <2>3. i \in 1 .. Len(file) /\ i \in 1 .. n
      BY <1>4, <2>2
    <2> QED BY <1>6, <2>2, <2>3
  <1>11. (~ torn') = TRUE \/ (~ torn') = (~ torn /\ n = Len(file) /\ D!Active = {})
    <2>1. CASE writer.pc = "write"
      <3>1. writer.batch[writer.n] \in CallsOf(writer.batch) /\ writer.batch[writer.n] \in Call
        BY <2>1 DEF Flushed, CallsOf, TypeOK, WriterState
      <3>2. D!Active # {}
        BY <3>1 DEF Queued, D!Active
      <3>3. torn' = FALSE \/ torn'
        BY <1>1, <2>1
      <3> QED BY <3>2, <3>3
    <2>2. CASE writer.pc # "write"
      <3>1. torn' = FALSE \/ torn' = (torn \/ n < Len(file))
        BY <1>1, <2>2
      <3>2. n < Len(file) <=> n # Len(file)
        BY <1>4
      <3> QED BY <3>1, <3>2 DEF TypeOK
    <2> QED BY <2>1, <2>2
  <1>12. n \in 0 .. Len(Log) /\ Len(Log) = Len(file)
    BY <1>4, <1>6, <1>8
  <1>13. D!Crash(n)
    BY <1>2, <1>3, <1>8, <1>9, <1>10, <1>11, <1>12 DEF D!Crash, Calls
  <1> QED BY <1>12, <1>13 DEF D!Next

(* The rest of the work does not show: a request on its way, the batch, the  *)
(* other steps of a rotation.                                                *)
Unseen ==
    \/ \E c \in Call : Send(c)
    \/ Take \/ Tick \/ Drain \/ Lock \/ Sync \/ SyncFails
    \/ Open \/ Rotate \/ Reopen \/ RotateFails \/ Close \/ CloseFile \/ UNCHANGED vars

LEMMA UnseenStutters == ASSUME IInv, Unseen PROVE UNCHANGED <<Log, ~ torn, rotated, Calls>>
  <1> USE DEF IInv
  <1>1. CASE \E c \in Call : Send(c)
    <2>1. PICK c \in Call : Send(c)
      BY <1>1
    <2>2. Log' = Log /\ torn' = torn /\ rotated' = rotated
      BY <2>1 DEF Send, disk, Log
    <2>3. call[c].pc = "send" /\ call'[c].pc = "wait"
      BY <2>1 DEF Send, TypeOK, CallState
    <2>4. \A b \in Call : b # c => call'[b] = call[b]
      BY <2>1 DEF Send, TypeOK
    <2>5. Calls' = Calls
      BY <2>3, <2>4 DEF Calls
    <2> QED BY <2>2, <2>5
  <1>2. CASE Take \/ Tick \/ Drain \/ Lock \/ Sync \/ SyncFails
    <2>1. UNCHANGED <<call, file, torn, rotated>>
      BY <1>2 DEF Take, Taken, Tick, Drain, Lock, Sync, SyncFails, disk
    <2> QED BY <2>1 DEF Log, Calls
  <1>3. CASE Open \/ Rotate \/ Reopen \/ RotateFails \/ Close \/ CloseFile \/ UNCHANGED vars
    <2>1. UNCHANGED <<call, file, torn, rotated>>
      BY <1>3 DEF Open, Rotate, Reopen, RotateFails, Close, CloseFile, vars, disk
    <2> QED BY <2>1 DEF Log, Calls
  <1> QED BY <1>1, <1>2, <1>3 DEF Unseen

LEMMA InitImplements == Init => D!Init
  <1> SUFFICES ASSUME Init PROVE D!Init
    OBVIOUS
  <1>1. Log = <<>> /\ torn = FALSE /\ rotated = {}
    BY DEF Init, Log
  <1>2. Calls = [c \in Call |-> "idle"]
    BY DEF Init, Calls
  <1> QED BY <1>1, <1>2 DEF D!Init, Calls

LEMMA StepImplements == IInv /\ [Next]_vars => [D!Next]_<<Log, ~ torn, rotated, Calls>>
  <1> SUFFICES ASSUME IInv, [Next]_vars
               PROVE  D!Next \/ UNCHANGED <<Log, ~ torn, rotated, Calls>>
    OBVIOUS
  <1>1. CASE Unseen
    BY <1>1, UnseenStutters
  <1>2. CASE Encode \/ EncodeFails \/ Answer \/ Rename \/ Crash
    BY <1>2, EncodeImplements, EncodeFailsImplements, AnswerImplements, RenameImplements,
       CrashImplements
  <1>3. CASE \E c \in Call : Number(c) \/ Refuse(c)
    BY <1>3, CallerImplements
  <1>4. \/ Unseen \/ Encode \/ EncodeFails \/ Answer \/ Rename \/ Crash
        \/ \E c \in Call : Number(c) \/ Refuse(c)
    BY DEF Next, BatchWriter, Rotator, Unseen
  <1> QED BY <1>1, <1>2, <1>3, <1>4

(* Whatever the number of callers, rotations, crashes and failing writes, the *)
(* write-ahead log behaves as one durable log: an event is recorded at most   *)
(* once and in order, an acknowledged one stays until a rotation moves it     *)
(* away, a rotation moves away no event whose call still waits, and a log no  *)
(* call was writing to can be read.                                           *)
THEOREM WALImplementsDurableLog == Spec => ImplementsDurableLog
  <1>1. Spec => D!Init
    BY InitImplements, PTL DEF Spec
  <1>2. Spec => [][D!Next]_<<Log, ~ torn, rotated, Calls>>
    BY InvHolds, StepImplements, PTL DEF Spec
  <1> QED BY <1>1, <1>2, PTL DEF ImplementsDurableLog, D!Spec, D!vars, Calls
=============================================================================
