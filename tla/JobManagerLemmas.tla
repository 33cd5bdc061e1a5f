-------------------------- MODULE JobManagerLemmas --------------------------
(***************************************************************************)
(* What each method of the job manager does to its type, to the agreement  *)
(* of its indexes and to its queue: the facts the proofs about JobManager  *)
(* and Controller rest on.                                                 *)
(***************************************************************************)
EXTENDS JobManagerOps, TLAPS, SequenceTheorems, FiniteSetTheorems

(* The elements of a sequence of jobs are jobs. *)
LEMMA ElemsOfJobs == ASSUME NEW q \in Seq(Job) PROVE Elems(q) \subseteq Job
  BY DEF Elems

(* Appending a job adds it to the elements. *)
LEMMA ElemsAppend ==
    ASSUME NEW q \in Seq(Job), NEW j \in Job
    PROVE  Elems(Append(q, j)) = Elems(q) \cup {j}
  <1>1. /\ Len(Append(q, j)) = Len(q) + 1
        /\ \A i \in 1 .. Len(q) : Append(q, j)[i] = q[i]
        /\ Append(q, j)[Len(q) + 1] = j
        /\ Append(q, j) \in Seq(Job)
    OBVIOUS
  <1>2. Elems(Append(q, j)) \subseteq Elems(q) \cup {j}
    BY <1>1 DEF Elems
  <1>3. Elems(q) \subseteq Elems(Append(q, j))
    BY <1>1 DEF Elems
  <1>4. j \in Elems(Append(q, j))
    BY <1>1 DEF Elems
  <1> QED BY <1>2, <1>3, <1>4

(* Concatenation joins the elements. *)
LEMMA ElemsConcat ==
    ASSUME NEW q \in Seq(Job), NEW r \in Seq(Job)
    PROVE  Elems(q \o r) = Elems(q) \cup Elems(r)
  <1> DEFINE s == q \o r
  <1>1. /\ s \in Seq(Job)
        /\ Len(s) = Len(q) + Len(r)
        /\ \A i \in 1 .. Len(q) : s[i] = q[i]
        /\ \A i \in Len(q) + 1 .. Len(s) : s[i] = r[i - Len(q)]
    OBVIOUS
  <1>2. \A i \in 1 .. Len(r) : s[Len(q) + i] = r[i]
    BY <1>1
  <1>3. Elems(s) \subseteq Elems(q) \cup Elems(r)
    <2> SUFFICES ASSUME NEW i \in 1 .. Len(s) PROVE s[i] \in Elems(q) \cup Elems(r)
      BY <1>1 DEF Elems
    <2>1. CASE i \in 1 .. Len(q)
      BY <2>1, <1>1 DEF Elems
    <2>2. CASE i \in Len(q) + 1 .. Len(s)
      <3>1. i - Len(q) \in 1 .. Len(r)
        BY <2>2, <1>1
      <3> QED BY <2>2, <3>1, <1>1 DEF Elems
    <2> QED BY <2>1, <2>2, <1>1
  <1>4. Elems(q) \subseteq Elems(s)
    BY <1>1 DEF Elems
  <1>5. Elems(r) \subseteq Elems(s)
    <2> SUFFICES ASSUME NEW i \in 1 .. Len(r) PROVE r[i] \in Elems(s)
      BY DEF Elems
    <2>1. Len(q) + i \in 1 .. Len(s)
      BY <1>1
    <2> QED BY <2>1, <1>1, <1>2 DEF Elems
  <1> QED BY <1>3, <1>4, <1>5

(* Taking n entries off the front splits the elements. *)
LEMMA ElemsSplit ==
    ASSUME NEW q \in Seq(Job), NEW n \in 0 .. Len(q)
    PROVE  /\ SubSeq(q, 1, n) \in Seq(Job)
           /\ SubSeq(q, n + 1, Len(q)) \in Seq(Job)
           /\ Elems(q) = Elems(SubSeq(q, 1, n)) \cup Elems(SubSeq(q, n + 1, Len(q)))
  <1> DEFINE a == SubSeq(q, 1, n)
             b == SubSeq(q, n + 1, Len(q))
  <1>1. /\ a \in Seq(Job) /\ Len(a) = n
        /\ \A i \in 1 .. n : a[i] = q[i]
    BY SubSeqProperties
  <1>2. /\ b \in Seq(Job) /\ Len(b) = Len(q) - n
        /\ \A i \in 1 .. Len(b) : b[i] = q[n + i]
    BY SubSeqProperties
  <1> HIDE DEF a, b
  <1>0. n \in Nat /\ Len(q) \in Nat /\ DOMAIN q = 1 .. Len(q)
    OBVIOUS
  <1>3. Elems(a) \subseteq Elems(q)
    BY <1>1 DEF Elems
  <1>4. Elems(b) \subseteq Elems(q)
    <2>1. DOMAIN b = 1 .. Len(b)
      BY <1>2
    <2>2. ASSUME NEW i \in 1 .. Len(b) PROVE b[i] \in Elems(q)
      <3>1. i \in Nat \ {0} /\ i <= Len(q) - n
        BY <1>2
      <3>2. n + i \in 1 .. Len(q)
        BY <3>1, <1>0
      <3> QED BY <3>2, <1>0, <1>2 DEF Elems
    <2> QED BY <2>1, <2>2 DEF Elems
  <1>5. Elems(q) \subseteq Elems(a) \cup Elems(b)
    <2> SUFFICES ASSUME NEW i \in 1 .. Len(q) PROVE q[i] \in Elems(a) \cup Elems(b)
      BY DEF Elems
    <2>1. CASE i <= n
      <3>1. i \in 1 .. Len(a) /\ a[i] = q[i]
        BY <2>1, <1>1
      <3> QED BY <3>1, <1>1 DEF Elems
    <2>2. CASE i > n
      <3>1. i - n \in 1 .. Len(b) /\ n + (i - n) = i
        BY <2>2, <1>2
      <3>2. b[i - n] = q[i]
        BY <3>1, <1>2
      <3> QED BY <3>1, <3>2, <1>2 DEF Elems
    <2> QED BY <2>1, <2>2
  <1> QED BY <1>1, <1>2, <1>3, <1>4, <1>5 DEF a, b

(* Sequences without repetition: appended to, joined, split, and without     *)
(* their first element.                                                      *)
LEMMA InjectiveAppend ==
    ASSUME NEW q \in Seq(Job), NEW j \in Job, IsInjective(q), j \notin Elems(q)
    PROVE  IsInjective(Append(q, j))
  <1> DEFINE s == Append(q, j)
  <1>1. /\ s \in Seq(Job) /\ Len(s) = Len(q) + 1 /\ Len(q) \in Nat
        /\ \A i \in 1 .. Len(q) : s[i] = q[i] /\ s[i] \in Elems(q)
        /\ s[Len(q) + 1] = j
    BY DEF Elems
  <1> HIDE DEF s
  <1>2. \A i \in DOMAIN s : i \in 1 .. Len(q) \/ i = Len(q) + 1
    BY <1>1
  <1>3. \A a, b \in 1 .. Len(q) : q[a] = q[b] => a = b
    BY DEF IsInjective
  <1>4. IsInjective(s)
    BY <1>1, <1>2, <1>3 DEF IsInjective
  <1> QED BY <1>4 DEF s

LEMMA InjectiveConcat ==
    ASSUME NEW q \in Seq(Job), NEW r \in Seq(Job), IsInjective(q), IsInjective(r),
           Elems(q) \cap Elems(r) = {}
    PROVE  IsInjective(q \o r)
  <1> DEFINE s == q \o r
  <1>1. /\ s \in Seq(Job) /\ Len(s) = Len(q) + Len(r) /\ Len(q) \in Nat /\ Len(r) \in Nat
        /\ \A i \in 1 .. Len(q) : s[i] = q[i]
        /\ \A i \in Len(q) + 1 .. Len(s) : s[i] = r[i - Len(q)]
    OBVIOUS
  <1> HIDE DEF s
  <1>2. /\ \A a, b \in 1 .. Len(q) : q[a] = q[b] => a = b
        /\ \A a, b \in 1 .. Len(r) : r[a] = r[b] => a = b
        /\ \A a \in 1 .. Len(q), b \in 1 .. Len(r) : q[a] # r[b]
    BY DEF IsInjective, Elems
  <1>3. ASSUME NEW a \in DOMAIN s, NEW b \in DOMAIN s, s[a] = s[b] PROVE a = b
    <2>1. a \in 1 .. Len(s) /\ b \in 1 .. Len(s)
      BY <1>1
    <2>2. CASE a <= Len(q) /\ b <= Len(q)
      BY <1>1, <1>2, <1>3, <2>1, <2>2
    <2>3. CASE a > Len(q) /\ b > Len(q)
      <3>1. a - Len(q) \in 1 .. Len(r) /\ b - Len(q) \in 1 .. Len(r)
        BY <1>1, <2>1, <2>3
      <3>2. s[a] = r[a - Len(q)] /\ s[b] = r[b - Len(q)]
        <4>1. a \in Len(q) + 1 .. Len(s) /\ b \in Len(q) + 1 .. Len(s)
          BY <1>1, <2>1, <2>3
        <4> QED BY <1>1, <4>1
      <3>3. a - Len(q) = b - Len(q)
        BY <1>2, <1>3, <3>1, <3>2
      <3>4. a \in Int /\ b \in Int /\ Len(q) \in Int
        BY <1>1, <2>1
      <3> QED BY <3>3, <3>4
    <2>4. CASE a <= Len(q) /\ b > Len(q)
      <3>1. a \in 1 .. Len(q) /\ b - Len(q) \in 1 .. Len(r)
        BY <1>1, <2>1, <2>4
      <3>2. s[a] = q[a] /\ s[b] = r[b - Len(q)]
        BY <1>1, <2>1, <2>4
      <3> QED BY <1>2, <1>3, <3>1, <3>2
    <2>5. CASE a > Len(q) /\ b <= Len(q)
      <3>1. b \in 1 .. Len(q) /\ a - Len(q) \in 1 .. Len(r)
        BY <1>1, <2>1, <2>5
      <3>2. s[b] = q[b] /\ s[a] = r[a - Len(q)]
        BY <1>1, <2>1, <2>5
      <3> QED BY <1>2, <1>3, <3>1, <3>2
    <2> QED BY <1>1, <2>1, <2>2, <2>3, <2>4, <2>5
  <1> QED BY <1>3 DEF IsInjective, s

LEMMA InjectiveSplit ==
    ASSUME NEW q \in Seq(Job), NEW n \in 0 .. Len(q), IsInjective(q)
    PROVE  /\ IsInjective(SubSeq(q, 1, n)) /\ IsInjective(SubSeq(q, n + 1, Len(q)))
           /\ Elems(SubSeq(q, 1, n)) \cap Elems(SubSeq(q, n + 1, Len(q))) = {}
  <1> DEFINE a == SubSeq(q, 1, n)
             b == SubSeq(q, n + 1, Len(q))
  <1>0. n \in Nat /\ Len(q) \in Nat /\ n <= Len(q)
    OBVIOUS
  <1>1. /\ DOMAIN a = 1 .. n
        /\ \A i \in 1 .. n : a[i] = q[i] /\ i \in 1 .. Len(q)
    BY <1>0, SubSeqProperties
  <1>2. /\ DOMAIN b = 1 .. Len(q) - n
        /\ \A i \in 1 .. Len(q) - n : b[i] = q[n + i] /\ n + i \in 1 .. Len(q)
    BY <1>0, SubSeqProperties
  <1>3. \A h, k \in 1 .. Len(q) : q[h] = q[k] => h = k
    BY DEF IsInjective
  <1> HIDE DEF a, b
  <1>4. IsInjective(a)
    BY <1>1, <1>3 DEF IsInjective
  <1>5. IsInjective(b)
    <2> SUFFICES ASSUME NEW h \in 1 .. Len(q) - n, NEW k \in 1 .. Len(q) - n, b[h] = b[k]
                 PROVE  h = k
      BY <1>2 DEF IsInjective
    <2>1. n + h = n + k
      BY <1>2, <1>3
    <2> QED BY <1>0, <2>1
  <1>6. ASSUME NEW x \in Elems(a), x \in Elems(b) PROVE FALSE
    <2>1. PICK h \in 1 .. n : x = q[h] /\ h \in 1 .. Len(q)
      BY <1>1 DEF Elems
    <2>2. PICK k \in 1 .. Len(q) - n : x = q[n + k] /\ n + k \in 1 .. Len(q)
      BY <1>2, <1>6 DEF Elems
    <2>3. h = n + k
      BY <1>3, <2>1, <2>2
    <2> QED BY <1>0, <2>1, <2>2, <2>3
  <1> QED BY <1>4, <1>5, <1>6 DEF a, b

LEMMA InjectiveTail ==
    ASSUME NEW q \in Seq(Job), q # <<>>, IsInjective(q)
    PROVE  /\ Head(q) \in Job /\ Tail(q) \in Seq(Job) /\ IsInjective(Tail(q))
           /\ Elems(q) = Elems(Tail(q)) \cup {Head(q)} /\ Head(q) \notin Elems(Tail(q))
  <1> DEFINE t == Tail(q)
  <1>1. /\ t \in Seq(Job) /\ Len(t) = Len(q) - 1 /\ Len(q) \in Nat \ {0}
        /\ \A i \in 1 .. Len(q) - 1 : t[i] = q[i + 1]
        /\ Head(q) = q[1] /\ Head(q) \in Job
    OBVIOUS
  <1> HIDE DEF t
  <1>2. \A h, k \in 1 .. Len(q) : q[h] = q[k] => h = k
    BY DEF IsInjective
  <1>3. DOMAIN t = 1 .. Len(q) - 1 /\ \A i \in DOMAIN t : i + 1 \in 1 .. Len(q) /\ i + 1 # 1
    BY <1>1
  <1>4. IsInjective(t)
    BY <1>1, <1>2, <1>3 DEF IsInjective
  <1>5. Head(q) \notin Elems(t)
    BY <1>1, <1>2, <1>3 DEF Elems
  <1>6. Elems(t) \cup {Head(q)} \subseteq Elems(q)
    BY <1>1, <1>3 DEF Elems
  <1>7. ASSUME NEW i \in 1 .. Len(q) PROVE q[i] \in Elems(t) \cup {Head(q)}
    <2>1. CASE i = 1
      BY <1>1, <2>1
    <2>2. CASE i # 1
      <3>1. i - 1 \in 1 .. Len(q) - 1 /\ (i - 1) + 1 = i
        BY <1>1, <2>2
      <3>2. t[i - 1] = q[i] /\ i - 1 \in DOMAIN t
        BY <1>1, <1>3, <3>1
      <3>3. t[i - 1] \in Elems(t)
        BY <3>2 DEF Elems
      <3> QED BY <3>2, <3>3
    <2> QED BY <2>1, <2>2
  <1>8. Elems(q) \subseteq Elems(t) \cup {Head(q)}
    <2>1. DOMAIN q = 1 .. Len(q)
      OBVIOUS
    <2> QED BY <1>7, <2>1 DEF Elems
  <1>9. Elems(q) = Elems(t) \cup {Head(q)}
    BY <1>6, <1>8
  <1> QED BY <1>1, <1>4, <1>5, <1>9 DEF t

-----------------------------------------------------------------------------
(* What every method preserves: the type, the agreement of the indexes, and  *)
(* no pending job outside the queue and the set S.                           *)
Sound(m, S) == m \in Manager /\ IndexesAgree(m) /\ NoneStranded(m, S)

(* What each method leaves of the fields of the manager. *)
LEMMA EnqueueFields ==
    ASSUME NEW m \in Manager, NEW q \in Seq(Job)
    PROVE  LET n == Enqueue(m, q)
           IN /\ n \in Manager /\ n.queue = m.queue \o q
              /\ n.inFlight = m.inFlight /\ n.dead = m.dead /\ n.completed = m.completed
              /\ \A k \in Job :
                   /\ n.status[k] = IF k \in Elems(q) THEN "pending" ELSE m.status[k]
                   /\ n.attempt[k] = IF k \in Elems(q) THEN 0 ELSE m.attempt[k]
  <1> DEFINE st == [j \in Job |-> IF j \in Elems(q) THEN "pending" ELSE m.status[j]]
             at == [j \in Job |-> IF j \in Elems(q) THEN 0 ELSE m.attempt[j]]
             n  == Enqueue(m, q)
  <1>1. st \in [Job -> Status] /\ at \in [Job -> Nat] /\ m.queue \o q \in Seq(Job)
    BY DEF Manager, Status, Live
  <1>2. n = [m EXCEPT !.status = st, !.attempt = at, !.queue = m.queue \o q]
    BY DEF Enqueue
  <1>3. \A j \in Job : /\ st[j] = IF j \in Elems(q) THEN "pending" ELSE m.status[j]
                       /\ at[j] = IF j \in Elems(q) THEN 0 ELSE m.attempt[j]
    OBVIOUS
  <1> HIDE DEF st, at, n
  <1>4. /\ n \in Manager /\ n.status = st /\ n.attempt = at /\ n.queue = m.queue \o q
        /\ n.inFlight = m.inFlight /\ n.dead = m.dead /\ n.completed = m.completed
    BY <1>1, <1>2 DEF Manager
  <1> QED BY <1>3, <1>4 DEF n

LEMMA PopFields ==
    ASSUME NEW m \in Manager, NEW k \in 0 .. Len(m.queue)
    PROVE  LET n == PopPending(m, k)
           IN /\ n \in Manager /\ n.queue = SubSeq(m.queue, k + 1, Len(m.queue))
              /\ n.inFlight = m.inFlight /\ n.dead = m.dead /\ n.completed = m.completed
              /\ n.status = m.status /\ n.attempt = m.attempt
  <1>1. SubSeq(m.queue, k + 1, Len(m.queue)) \in Seq(Job)
    BY ElemsSplit DEF Manager
  <1> QED BY <1>1 DEF Manager, PopPending

LEMMA MarkInFlightFields ==
    ASSUME NEW m \in Manager, NEW T \in SUBSET Job
    PROVE  LET n == MarkInFlight(m, T)
               U == {j \in T : m.status[j] = "pending"}
           IN /\ n \in Manager /\ n.queue = m.queue /\ n.attempt = m.attempt
              /\ n.inFlight = m.inFlight \cup U /\ n.dead = m.dead /\ n.completed = m.completed
              /\ \A k \in Job : n.status[k] = IF k \in U THEN "in_flight" ELSE m.status[k]
  <1> DEFINE n  == MarkInFlight(m, T)
             U  == {j \in T : m.status[j] = "pending"}
             st == [j \in Job |-> IF j \in U THEN "in_flight" ELSE m.status[j]]
  <1>1. st \in [Job -> Status] /\ m.inFlight \cup U \in SUBSET Job
    BY DEF Manager, Status, Live
  <1>2. n = [m EXCEPT !.status = st, !.inFlight = m.inFlight \cup U]
    BY DEF MarkInFlight, CanMarkInFlight
  <1>3. \A j \in Job : st[j] = IF j \in U THEN "in_flight" ELSE m.status[j]
    OBVIOUS
  <1> HIDE DEF st, n, U
  <1>4. /\ n \in Manager /\ n.queue = m.queue /\ n.attempt = m.attempt
        /\ n.inFlight = m.inFlight \cup U /\ n.dead = m.dead /\ n.completed = m.completed
        /\ n.status = st
    BY <1>1, <1>2 DEF Manager
  <1> QED BY <1>3, <1>4 DEF n, U

LEMMA MarkCompletedFields ==
    ASSUME NEW m \in Manager, NEW j \in Job
    PROVE  LET n == MarkCompleted(m, j)
           IN /\ n \in Manager /\ n.queue = m.queue /\ n.attempt = m.attempt
              /\ n.inFlight = m.inFlight \ {j} /\ n.dead = m.dead
              /\ n.completed = m.completed \cup {j}
              /\ \A k \in Job : n.status[k] = IF k = j THEN "completed" ELSE m.status[k]
  BY DEF Manager, MarkCompleted, Status, Terminal

LEMMA MarkDeadFields ==
    ASSUME NEW m \in Manager, NEW j \in Job
    PROVE  LET n == MarkDead(m, j)
           IN /\ n \in Manager /\ n.queue = m.queue /\ n.attempt = m.attempt
              /\ n.inFlight = m.inFlight \ {j} /\ n.completed = m.completed
              /\ n.dead = m.dead \cup {j}
              /\ \A k \in Job : n.status[k] = IF k = j THEN "dead" ELSE m.status[k]
  BY DEF Manager, MarkDead, Status, Terminal

LEMMA RequeueFields ==
    ASSUME NEW m \in Manager, NEW j \in Job
    PROVE  LET n == Requeue(m, j)
           IN /\ n \in Manager /\ n.queue = Append(m.queue, j)
              /\ n.inFlight = m.inFlight \ {j} /\ n.dead = m.dead /\ n.completed = m.completed
              /\ \A k \in Job :
                   /\ n.status[k] = IF k = j THEN "pending" ELSE m.status[k]
                   /\ n.attempt[k] = IF k = j THEN m.attempt[k] + 1 ELSE m.attempt[k]
  <1> DEFINE st == [m.status EXCEPT ![j] = "pending"]
             at == [m.attempt EXCEPT ![j] = @ + 1]
             n  == Requeue(m, j)
  <1>1. st \in [Job -> Status] /\ at \in [Job -> Nat] /\ Append(m.queue, j) \in Seq(Job)
    BY DEF Manager, Status, Live
  <1>2. n = [m EXCEPT !.status = st, !.attempt = at, !.inFlight = m.inFlight \ {j},
                      !.queue = Append(m.queue, j)]
    BY DEF Requeue, Manager
  <1>3. \A k \in Job : /\ st[k] = IF k = j THEN "pending" ELSE m.status[k]
                       /\ at[k] = IF k = j THEN m.attempt[k] + 1 ELSE m.attempt[k]
    BY DEF Manager
  <1> HIDE DEF st, at, n
  <1>4. /\ n \in Manager /\ n.status = st /\ n.attempt = at /\ n.queue = Append(m.queue, j)
        /\ n.inFlight = m.inFlight \ {j} /\ n.dead = m.dead /\ n.completed = m.completed
    BY <1>1, <1>2 DEF Manager
  <1> QED BY <1>3, <1>4 DEF n

LEMMA BumpAttemptFields ==
    ASSUME NEW m \in Manager, NEW j \in Job
    PROVE  LET n == BumpAttempt(m, j)
           IN /\ n \in Manager /\ n.queue = m.queue /\ n.status = m.status
              /\ n.inFlight = m.inFlight /\ n.dead = m.dead /\ n.completed = m.completed
              /\ \A k \in Job :
                   n.attempt[k] = IF k = j THEN m.attempt[k] + 1 ELSE m.attempt[k]
  <1> DEFINE at == [m.attempt EXCEPT ![j] = @ + 1]
             n  == BumpAttempt(m, j)
  <1>1. /\ at \in [Job -> Nat]
        /\ \A k \in Job : at[k] = IF k = j THEN m.attempt[k] + 1 ELSE m.attempt[k]
    BY DEF Manager
  <1>2. n = [m EXCEPT !.attempt = at]
    BY DEF BumpAttempt, Manager
  <1> HIDE DEF at, n
  <1>3. /\ n \in Manager /\ n.queue = m.queue /\ n.status = m.status /\ n.attempt = at
        /\ n.inFlight = m.inFlight /\ n.dead = m.dead /\ n.completed = m.completed
    BY <1>1, <1>2 DEF Manager
  <1> QED BY <1>1, <1>3 DEF n

-----------------------------------------------------------------------------
(* A new manager is sound. *)
LEMMA NewSound == Sound(NewJobManager, {})
  BY DEF Sound, Manager, NewJobManager, NoJobs, Status, IndexesAgree, WithStatus,
         NoneStranded, Terminal

(* Enqueue of unknown jobs. *)
LEMMA EnqueueSound ==
    ASSUME NEW m, NEW S, Sound(m, S), NEW q \in Seq(Job),
           \A j \in Elems(q) : ~ Known(m, j)
    PROVE  Sound(Enqueue(m, q), S) /\ Later(m, Enqueue(m, q))
  <1> DEFINE n == Enqueue(m, q)
  <1>1. Elems(m.queue \o q) = Elems(m.queue) \cup Elems(q) /\ Elems(q) \subseteq Job
    BY ElemsConcat, ElemsOfJobs DEF Sound, Manager
  <1>2. /\ n \in Manager
        /\ n.inFlight = m.inFlight /\ n.dead = m.dead /\ n.completed = m.completed
        /\ n.queue = m.queue \o q
        /\ \A j \in Job : n.status[j] = IF j \in Elems(q) THEN "pending" ELSE m.status[j]
    BY EnqueueFields DEF Sound
  <1>3. \A j \in Elems(q) : m.status[j] = "absent"
    BY DEF Known
  <1> HIDE DEF n
  <1>4. IndexesAgree(n)
    <2>1. /\ m.inFlight = WithStatus(m, "in_flight") /\ m.dead = WithStatus(m, "dead")
          /\ WithStatus(m, "completed") \subseteq m.completed
          /\ m.completed \subseteq {j \in Job : m.status[j] \in Terminal}
      BY DEF Sound, IndexesAgree
    <2>2. \A j \in Job : \/ n.status[j] = m.status[j]
                         \/ m.status[j] = "absent" /\ n.status[j] = "pending"
      BY <1>2, <1>3
    <2>3. WithStatus(n, "in_flight") = WithStatus(m, "in_flight")
      BY <2>2 DEF WithStatus
    <2>4. WithStatus(n, "dead") = WithStatus(m, "dead")
      BY <2>2 DEF WithStatus
    <2>5. WithStatus(n, "completed") = WithStatus(m, "completed")
      BY <2>2 DEF WithStatus
    <2>6. n.completed \subseteq {j \in Job : n.status[j] \in Terminal}
      BY <1>2, <2>1, <2>2 DEF Terminal
    <2> QED BY <1>2, <2>1, <2>3, <2>4, <2>5, <2>6 DEF IndexesAgree
  <1>5. NoneStranded(n, S)
    BY <1>1, <1>2 DEF Sound, NoneStranded
  <1>6. Later(m, n)
    BY <1>1, <1>2, <1>3 DEF Later, Known, Terminal
  <1> QED BY <1>2, <1>4, <1>5, <1>6 DEF Sound, n

(* PopPending: the popped jobs are now the caller's. *)
LEMMA PopSound ==
    ASSUME NEW m, NEW S, Sound(m, S), NEW k \in 0 .. Len(m.queue)
    PROVE  /\ Sound(PopPending(m, k), S \cup Elems(Popped(m, k)))
           /\ Popped(m, k) \in Seq(Job)
           /\ Later(m, PopPending(m, k))
           /\ PopPending(m, k).status = m.status
  <1> DEFINE n == PopPending(m, k)
  <1>1. /\ Popped(m, k) \in Seq(Job)
        /\ SubSeq(m.queue, k + 1, Len(m.queue)) \in Seq(Job)
        /\ Elems(m.queue) = Elems(Popped(m, k)) \cup Elems(SubSeq(m.queue, k + 1, Len(m.queue)))
    BY ElemsSplit DEF Popped, Sound, Manager
  <1>2. /\ n \in Manager
        /\ n.inFlight = m.inFlight /\ n.dead = m.dead /\ n.completed = m.completed
        /\ n.status = m.status
        /\ n.queue = SubSeq(m.queue, k + 1, Len(m.queue))
    BY PopFields DEF Sound
  <1> HIDE DEF n
  <1>3. IndexesAgree(n) /\ NoneStranded(n, S \cup Elems(Popped(m, k))) /\ Later(m, n)
    BY <1>1, <1>2 DEF Sound, IndexesAgree, WithStatus, NoneStranded, Later, Known
  <1> QED BY <1>1, <1>2, <1>3 DEF Sound, n

(* MarkInFlight: whatever was refused, none of the jobs T is pending after.  *)
LEMMA MarkInFlightSound ==
    ASSUME NEW m, NEW S, NEW T \in SUBSET Job, Sound(m, S)
    PROVE  Sound(MarkInFlight(m, T), S \ T) /\ Later(m, MarkInFlight(m, T))
  <1> DEFINE n  == MarkInFlight(m, T)
             U  == {j \in T : m.status[j] = "pending"}
  <1>1. /\ n \in Manager
        /\ n.inFlight = m.inFlight \cup U /\ n.dead = m.dead /\ n.completed = m.completed
        /\ n.queue = m.queue
        /\ \A j \in Job : n.status[j] = IF j \in U THEN "in_flight" ELSE m.status[j]
    BY MarkInFlightFields DEF Sound
  <1>2. \A j \in Job : j \in U <=> j \in T /\ m.status[j] = "pending"
    OBVIOUS
  <1>a. U \subseteq Job
    OBVIOUS
  <1> HIDE DEF n, U
  <1>3. IndexesAgree(n)
    BY <1>1, <1>2, <1>a DEF Sound, IndexesAgree, WithStatus, Terminal
  <1>4. NoneStranded(n, S \ T)
    BY <1>1, <1>2 DEF Sound, NoneStranded
  <1>5. Later(m, n)
    BY <1>1, <1>2 DEF Later, Known, Terminal
  <1> QED BY <1>1, <1>3, <1>4, <1>5 DEF Sound, n

(* MarkCompleted of a job in flight. *)
LEMMA MarkCompletedSound ==
    ASSUME NEW m, NEW S, Sound(m, S), NEW j \in Job, CanFinish(m, j)
    PROVE  Sound(MarkCompleted(m, j), S) /\ Later(m, MarkCompleted(m, j))
  <1> DEFINE n  == MarkCompleted(m, j)
  <1>1. m \in Manager /\ m.status[j] = "in_flight"
    BY DEF Sound, CanFinish
  <1>2. /\ n \in Manager
        /\ n.inFlight = m.inFlight \ {j} /\ n.dead = m.dead
        /\ n.completed = m.completed \cup {j}
        /\ n.queue = m.queue
        /\ \A k \in Job : n.status[k] = IF k = j THEN "completed" ELSE m.status[k]
    BY <1>1, MarkCompletedFields
  <1> HIDE DEF n
  <1>3. IndexesAgree(n)
    BY <1>1, <1>2 DEF Sound, IndexesAgree, WithStatus, Terminal
  <1>4. NoneStranded(n, S) /\ Later(m, n)
    BY <1>1, <1>2 DEF Sound, NoneStranded, Later, Known, Terminal
  <1> QED BY <1>2, <1>3, <1>4 DEF Sound, n

(* Requeue of a job in flight. *)
LEMMA RequeueSound ==
    ASSUME NEW m, NEW S, Sound(m, S), NEW j \in Job, CanFinish(m, j)
    PROVE  Sound(Requeue(m, j), S) /\ Later(m, Requeue(m, j))
  <1> DEFINE n  == Requeue(m, j)
  <1>1. m \in Manager /\ m.status[j] = "in_flight"
    BY DEF Sound, CanFinish
  <1>2. /\ n \in Manager
        /\ n.inFlight = m.inFlight \ {j} /\ n.dead = m.dead /\ n.completed = m.completed
        /\ n.queue = Append(m.queue, j)
        /\ \A k \in Job : n.status[k] = IF k = j THEN "pending" ELSE m.status[k]
    BY <1>1, RequeueFields
  <1>3. Elems(n.queue) = Elems(m.queue) \cup {j}
    BY <1>1, <1>2, ElemsAppend DEF Manager
  <1> HIDE DEF n
  <1>4. IndexesAgree(n)
    BY <1>1, <1>2 DEF Sound, IndexesAgree, WithStatus, Terminal
  <1>5. NoneStranded(n, S) /\ Later(m, n)
    BY <1>1, <1>2, <1>3 DEF Sound, NoneStranded, Later, Known, Terminal
  <1> QED BY <1>2, <1>4, <1>5 DEF Sound, n

(* MarkDead of any job that exists. *)
LEMMA MarkDeadSound ==
    ASSUME NEW m, NEW S, Sound(m, S), NEW j \in Job, CanMarkDead(m, j)
    PROVE  Sound(MarkDead(m, j), S) /\ Later(m, MarkDead(m, j))
  <1> DEFINE n  == MarkDead(m, j)
  <1>1. m \in Manager /\ m.status[j] # "absent"
    BY DEF Sound, CanMarkDead, Known
  <1>2. /\ n \in Manager
        /\ n.inFlight = m.inFlight \ {j} /\ n.completed = m.completed
        /\ n.dead = m.dead \cup {j}
        /\ n.queue = m.queue
        /\ \A k \in Job : n.status[k] = IF k = j THEN "dead" ELSE m.status[k]
    BY <1>1, MarkDeadFields
  <1> HIDE DEF n
  <1>3. IndexesAgree(n)
    BY <1>1, <1>2 DEF Sound, IndexesAgree, WithStatus, Terminal
  <1>4. NoneStranded(n, S) /\ Later(m, n)
    BY <1>1, <1>2 DEF Sound, NoneStranded, Later, Known, Terminal
  <1> QED BY <1>2, <1>3, <1>4 DEF Sound, n

(* The callers' increment of Attempt. *)
LEMMA BumpAttemptSound ==
    ASSUME NEW m, NEW S, Sound(m, S), NEW j \in Job
    PROVE  /\ Sound(BumpAttempt(m, j), S) /\ Later(m, BumpAttempt(m, j))
           /\ BumpAttempt(m, j).status = m.status
  <1> DEFINE n  == BumpAttempt(m, j)
  <1>1. m \in Manager
    BY DEF Sound
  <1>2. /\ n \in Manager
        /\ n.inFlight = m.inFlight /\ n.dead = m.dead /\ n.completed = m.completed
        /\ n.queue = m.queue /\ n.status = m.status
    BY <1>1, BumpAttemptFields
  <1> HIDE DEF n
  <1>3. IndexesAgree(n) /\ NoneStranded(n, S) /\ Later(m, n)
    BY <1>2 DEF Sound, IndexesAgree, WithStatus, NoneStranded, Later, Known
  <1> QED BY <1>2, <1>3 DEF Sound, n

(* An ordering of a set of jobs is a sequence with these elements. *)
LEMMA OrderingsElems ==
    ASSUME NEW S \in SUBSET Job, NEW q \in Orderings(S)
    PROVE  q \in Seq(Job) /\ Elems(q) = S
  <1>1. Cardinality(S) \in Nat
    BY FiniteJobs, FS_Subset, FS_CardinalityType
  <1>2. q \in [1 .. Cardinality(S) -> S] /\ \A j \in S : \E i \in DOMAIN q : q[i] = j
    BY DEF Orderings
  <1>3. q \in Seq(S)
    BY <1>1, <1>2
  <1> QED BY <1>2, <1>3 DEF Elems

(* Restore: the indexes and the queue are rebuilt from the statuses. *)
LEMMA RestoreSound ==
    ASSUME NEW d \in SnapshotData, NEW m \in Restore(d)
    PROVE  Sound(m, {}) /\ Later(d, m)
  <1>1. PICK q \in Orderings(WithStatus(d, "pending")) :
           m = [status    |-> d.status,
                attempt   |-> d.attempt,
                queue     |-> q,
                inFlight  |-> WithStatus(d, "in_flight"),
                completed |-> WithStatus(d, "completed"),
                dead      |-> WithStatus(d, "dead")]
    BY DEF Restore
  <1>2. q \in Seq(Job) /\ Elems(q) = WithStatus(d, "pending")
    <2>1. WithStatus(d, "pending") \in SUBSET Job
      BY DEF WithStatus
    <2> QED BY <2>1, OrderingsElems
  <1>3. m \in Manager
    BY <1>1, <1>2 DEF Manager, SnapshotData, WithStatus
  <1>4. IndexesAgree(m) /\ NoneStranded(m, {}) /\ Later(d, m)
    BY <1>1, <1>2 DEF IndexesAgree, WithStatus, NoneStranded, Later, Known, Terminal
  <1> QED BY <1>3, <1>4 DEF Sound

(* RequeueInFlight: every job in flight is back in the queue. *)
LEMMA RequeueInFlightSound ==
    ASSUME NEW m, NEW S, Sound(m, S), NEW n \in RequeueInFlight(m)
    PROVE  Sound(n, S) /\ Later(m, n) /\ n.inFlight = {}
  <1> DEFINE st == [j \in Job |-> IF j \in m.inFlight THEN "pending" ELSE m.status[j]]
             at == [j \in Job |-> IF j \in m.inFlight THEN m.attempt[j] + 1 ELSE m.attempt[j]]
  <1>1. m \in Manager /\ m.inFlight \in SUBSET Job
    BY DEF Sound, Manager
  <1>2. PICK q \in Orderings(m.inFlight) :
           n = [m EXCEPT !.status = st, !.attempt = at, !.inFlight = {}, !.queue = m.queue \o q]
    BY DEF RequeueInFlight
  <1>3. q \in Seq(Job) /\ Elems(q) = m.inFlight
    BY <1>1, OrderingsElems
  <1>4. st \in [Job -> Status] /\ at \in [Job -> Nat] /\ m.queue \o q \in Seq(Job)
    BY <1>1, <1>3 DEF Manager, Status, Live
  <1>5. \A j \in Job : st[j] = IF j \in m.inFlight THEN "pending" ELSE m.status[j]
    OBVIOUS
  <1> HIDE DEF st, at
  <1>6. /\ n \in Manager
        /\ n.inFlight = {} /\ n.dead = m.dead /\ n.completed = m.completed
        /\ n.queue = m.queue \o q /\ n.status = st
    BY <1>1, <1>2, <1>4 DEF Manager
  <1>7. Elems(n.queue) = Elems(m.queue) \cup m.inFlight
    BY <1>1, <1>3, <1>6, ElemsConcat DEF Manager
  <1>8. m.inFlight = {j \in Job : m.status[j] = "in_flight"}
    BY DEF Sound, IndexesAgree, WithStatus
  <1>9. IndexesAgree(n) /\ NoneStranded(n, S) /\ Later(m, n)
    BY <1>1, <1>5, <1>6, <1>7, <1>8
       DEF Sound, IndexesAgree, WithStatus, NoneStranded, Later, Known, Terminal
  <1> QED BY <1>6, <1>9 DEF Sound

(* Later is transitive. *)
LEMMA LaterTransitive ==
    ASSUME NEW d, NEW m, NEW n, Later(d, m), Later(m, n) PROVE Later(d, n)
  BY DEF Later

(* A snapshot is of its manager's type, and its manager is not behind it. *)
LEMMA SnapshotLater ==
    ASSUME NEW m \in Manager
    PROVE  Snapshot(m) \in SnapshotData /\ Later(Snapshot(m), m)
  BY DEF Snapshot, SnapshotData, Manager, Later, Known
=============================================================================
