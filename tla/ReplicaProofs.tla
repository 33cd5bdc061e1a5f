--------------------------- MODULE ReplicaProofs ---------------------------
(* The queue in Raft mode, for any number of nodes, jobs, commands and       *)
(* snapshots: what every node keeps whatever its log has become, and what    *)
(* the nodes keep whose log no compaction can have harmed.                   *)
EXTENDS Replica, JobManagerLemmas, WellFoundedInduction

-----------------------------------------------------------------------------
(* The operators of the log store. *)
LEMMA LeastNumber ==
    ASSUME NEW S, S \subseteq Nat, S # {}
    PROVE  \E i \in S : \A k \in S : i <= k
  <1>1. PICK i \in S : \A k \in S : ~ (<<k, i>> \in OpToRel(<, Nat))
    BY NatLessThanWellFounded, WFMin
  <1>2. \A k \in S : ~ (k < i)
    BY <1>1 DEF OpToRel
  <1>3. i \in S /\ \A k \in S : i <= k
    BY <1>2
  <1> QED BY <1>3

(* The positions of a set up to the kth. *)
UpTo(K, k) == {h \in K : h <= k}

LEMMA UpToStep ==
    ASSUME NEW n \in Nat, NEW K \in SUBSET (1 .. n)
    PROVE  /\ UpTo(K, 0) = {} /\ UpTo(K, n) = K
           /\ \A k \in 1 .. n : \/ k \notin K /\ UpTo(K, k) = UpTo(K, k - 1)
                                \/ k \in K /\ UpTo(K, k) = UpTo(K, k - 1) \cup {k}
           /\ \A k \in 1 .. n : k \notin UpTo(K, k - 1)
  <1>1. \A h \in K : h \in Nat /\ h >= 1 /\ h <= n
    OBVIOUS
  <1>2. UpTo(K, 0) = {}
    <2>1. \A h \in K : ~ (h <= 0)
      BY <1>1
    <2> QED BY <2>1 DEF UpTo
  <1>3. UpTo(K, n) = K
    BY <1>1 DEF UpTo
  <1>4. ASSUME NEW k \in 1 .. n
        PROVE  /\ \/ k \notin K /\ UpTo(K, k) = UpTo(K, k - 1)
                  \/ k \in K /\ UpTo(K, k) = UpTo(K, k - 1) \cup {k}
               /\ k \notin UpTo(K, k - 1)
    <2>1. \A h \in K : h <= k <=> h <= k - 1 \/ h = k
      BY <1>1
    <2>2. k \notin UpTo(K, k - 1)
      BY DEF UpTo
    <2>3. CASE k \in K
      BY <2>1, <2>2, <2>3 DEF UpTo
    <2>4. CASE k \notin K
      BY <2>1, <2>2, <2>4 DEF UpTo
    <2> QED BY <2>3, <2>4
  <1> QED BY <1>2, <1>3, <1>4

(* The nth of a finite set of positions. *)
LEMMA NthExists ==
    ASSUME NEW n \in Nat, NEW K \in SUBSET (1 .. n), NEW i \in Nat, 1 <= i, i <= Cardinality(K)
    PROVE  \E k \in K : Cardinality(UpTo(K, k)) = i
  <1> DEFINE c == [k \in 0 .. n |-> Cardinality(UpTo(K, k))]
  <1>0. IsFiniteSet(1 .. n)
    BY FS_Interval
  <1>1. IsFiniteSet(K)
    BY <1>0, FS_Subset
  <1>2. \A k \in 0 .. n : IsFiniteSet(UpTo(K, k)) /\ Cardinality(UpTo(K, k)) \in Nat
    <2>1. ASSUME NEW k \in 0 .. n PROVE IsFiniteSet(UpTo(K, k))
      BY <1>1, FS_Subset DEF UpTo
    <2> QED BY <2>1, FS_CardinalityType
  <1>3. \A k \in 0 .. n : c[k] = Cardinality(UpTo(K, k))
    OBVIOUS
  <1> HIDE DEF c
  <1>4. c[0] = 0
    <2>1. Cardinality(UpTo(K, 0)) = 0
      BY UpToStep, FS_EmptySet
    <2> QED BY <1>3, <2>1
  <1>5. c[n] >= i /\ \A k \in 0 .. n : c[k] \in Nat
    BY <1>2, <1>3, UpToStep
  <1>6. ASSUME NEW k \in 1 .. n
        PROVE  \/ k \notin K /\ c[k] = c[k - 1]
               \/ k \in K /\ c[k] = c[k - 1] + 1
    <2>1. k \in 0 .. n /\ k - 1 \in 0 .. n
      OBVIOUS
    <2>2. IsFiniteSet(UpTo(K, k - 1)) /\ k \notin UpTo(K, k - 1)
      BY <1>2, <2>1, UpToStep
    <2>3. Cardinality(UpTo(K, k - 1) \cup {k}) = Cardinality(UpTo(K, k - 1)) + 1
      BY <2>2, FS_AddElement
    <2>4. \/ k \notin K /\ UpTo(K, k) = UpTo(K, k - 1)
          \/ k \in K /\ UpTo(K, k) = UpTo(K, k - 1) \cup {k}
      BY UpToStep
    <2>5. c[k] = Cardinality(UpTo(K, k)) /\ c[k - 1] = Cardinality(UpTo(K, k - 1))
      BY <1>3, <2>1
    <2>6. CASE k \notin K
      BY <2>4, <2>5, <2>6
    <2>7. CASE k \in K
      <3>1. Cardinality(UpTo(K, k)) = Cardinality(UpTo(K, k - 1)) + 1
        BY <2>3, <2>4, <2>7
      <3> QED BY <2>5, <2>7, <3>1
    <2> QED BY <2>6, <2>7
  <1> DEFINE S == {k \in 0 .. n : c[k] >= i}
  <1>7. S \subseteq Nat /\ S # {}
    BY <1>5
  <1>8. PICK k \in S : \A h \in S : k <= h
    BY <1>7, LeastNumber
  <1>9. k \in 1 .. n /\ k - 1 \in 0 .. n /\ k - 1 \notin S
    BY <1>4, <1>8
  <1>10. k \in K /\ c[k] = i
    BY <1>5, <1>6, <1>8, <1>9
  <1> QED BY <1>3, <1>10

(* DeleteRange leaves entries that are out of the range. *)
LEMMA DeleteRangeKeeps ==
    ASSUME NEW e \in Seq(Nat), NEW min \in Nat, NEW max \in Nat
    PROVE  /\ DeleteRange(e, min, max) \in Seq(Nat)
           /\ \A i \in DOMAIN DeleteRange(e, min, max) : \E k \in DOMAIN e :
                /\ DeleteRange(e, min, max)[i] = e[k]
                /\ e[k] < min \/ e[k] > max
  <1> DEFINE K == {k \in DOMAIN e : e[k] < min \/ e[k] > max}
             nth(i) == CHOOSE k \in K : Cardinality(UpTo(K, k)) = i
             d == [i \in 1 .. Cardinality(K) |-> e[nth(i)]]
  <1>1. DeleteRange(e, min, max) = d
    BY DEF DeleteRange, UpTo
  <1>2. K \subseteq 1 .. Len(e) /\ Len(e) \in Nat
    OBVIOUS
  <1>3. IsFiniteSet(1 .. Len(e))
    BY <1>2, FS_Interval
  <1>4. Cardinality(K) \in Nat
    BY <1>2, <1>3, FS_Subset, FS_CardinalityType
  <1>5. ASSUME NEW i \in 1 .. Cardinality(K) PROVE nth(i) \in K
    <2> HIDE DEF K
    <2>0. i \in Nat /\ 1 <= i /\ i <= Cardinality(K)
      BY <1>4, <1>5
    <2>1. \E k \in K : Cardinality(UpTo(K, k)) = i
      BY <1>2, <2>0, NthExists
    <2> QED BY <2>1
  <1> HIDE DEF nth
  <1>6. \A i \in 1 .. Cardinality(K) : nth(i) \in DOMAIN e /\ (e[nth(i)] < min \/ e[nth(i)] > max)
    BY <1>5
  <1>7. \A i \in 1 .. Cardinality(K) : e[nth(i)] \in Nat
    BY <1>6
  <1> DEFINE c == Cardinality(K)
  <1> HIDE DEF K
  <1>8. d \in Seq(Nat) /\ DOMAIN d = 1 .. c
    BY <1>4, <1>7
  <1>9. \A i \in DOMAIN d : d[i] = e[nth(i)]
    BY <1>8
  <1> HIDE DEF d
  <1> QED BY <1>1, <1>6, <1>8, <1>9

(* A log of consecutive entries loses its first ones. *)
LEMMA DeleteRangeConsecutive ==
    ASSUME NEW e \in Seq(Nat), NEW b \in Int, \A k \in DOMAIN e : e[k] = b + k,
           NEW max \in b + 1 .. b + Len(e)
    PROVE  LET d == DeleteRange(e, b + 1, max)
           IN  Len(d) = b + Len(e) - max /\ \A i \in DOMAIN d : d[i] = max + i
  <1> DEFINE K == {k \in DOMAIN e : e[k] < b + 1 \/ e[k] > max}
             nth(i) == CHOOSE k \in K : Cardinality(UpTo(K, k)) = i
             d == [i \in 1 .. Cardinality(K) |-> e[nth(i)]]
             lo == max - b + 1
  <1>1. DeleteRange(e, b + 1, max) = d
    BY DEF DeleteRange, UpTo
  <1>2. lo \in 2 .. Len(e) + 1 /\ Len(e) \in Nat /\ max \in Int
    OBVIOUS
  <1>3. K = lo .. Len(e)
    <2>1. ASSUME NEW k \in DOMAIN e PROVE (e[k] < b + 1 \/ e[k] > max) <=> k \in lo .. Len(e)
      <3>1. e[k] = b + k /\ k \in 1 .. Len(e)
        OBVIOUS
      <3> HIDE DEF lo
      <3>2. lo = max - b + 1
        BY DEF lo
      <3> QED BY <1>2, <3>1, <3>2
    <2>2. lo .. Len(e) \subseteq DOMAIN e
      BY <1>2
    <2> QED BY <2>1, <2>2
  <1> HIDE DEF lo, K
  <1>4. Cardinality(K) = Len(e) - lo + 1
    <2>0. lo \in Int /\ Len(e) \in Int
      BY <1>2
    <2>1. Cardinality(lo .. Len(e)) = IF lo > Len(e) THEN 0 ELSE Len(e) - lo + 1
      BY <2>0, FS_Interval
    <2> QED BY <1>2, <1>3, <2>1
  <1>5. ASSUME NEW k \in K PROVE Cardinality(UpTo(K, k)) = k - lo + 1
    <2>1. UpTo(K, k) = lo .. k
      BY <1>2, <1>3 DEF UpTo
    <2>2. lo \in Int /\ k \in Int /\ ~ (lo > k)
      BY <1>2, <1>3
    <2>3. Cardinality(lo .. k) = k - lo + 1
      BY <2>2, FS_Interval
    <2> QED BY <2>1, <2>3
  <1>6. ASSUME NEW i \in 1 .. Cardinality(K) PROVE nth(i) = lo + i - 1 /\ e[nth(i)] = max + i
    <2>1. lo + i - 1 \in K
      BY <1>2, <1>3, <1>4
    <2>2. \E k \in K : Cardinality(UpTo(K, k)) = i
      BY <1>2, <1>5, <2>1
    <2>3. nth(i) \in K /\ Cardinality(UpTo(K, nth(i))) = i
      BY <2>2
    <2> HIDE DEF nth
    <2>4. nth(i) - lo + 1 = i
      BY <1>5, <2>3
    <2>5. nth(i) = lo + i - 1 /\ nth(i) \in DOMAIN e
      <3> DEFINE x == nth(i)
      <3>1. i \in Int /\ x \in lo .. Len(e) /\ x - lo + 1 = i /\ lo \in Int
        BY <1>2, <1>3, <1>4, <2>3, <2>4
      <3> HIDE DEF x
      <3>2. x = lo + i - 1 /\ x \in 1 .. Len(e)
        BY <1>2, <3>1
      <3> QED BY <3>2 DEF x
    <2>6. e[nth(i)] = b + nth(i)
      BY <2>5
    <2> QED BY <1>2, <2>5, <2>6 DEF lo
  <1> HIDE DEF nth
  <1> DEFINE c == Cardinality(K)
  <1>7. c \in Nat /\ c = b + Len(e) - max
    BY <1>2, <1>4 DEF lo
  <1> HIDE DEF c
  <1>8. d = [i \in 1 .. c |-> e[nth(i)]]
    BY DEF c
  <1>9. \A i \in 1 .. c : d[i] = max + i
    BY <1>6, <1>8 DEF c
  <1> HIDE DEF d
  <1>10. Len(d) = c /\ DOMAIN d = 1 .. c
    BY <1>7, <1>8
  <1> QED BY <1>1, <1>7, <1>9, <1>10


LEMMA ConcatFields ==
    ASSUME NEW e \in Seq(Nat), NEW t \in Seq(Nat), NEW s, s = e \o t
    PROVE  /\ s \in Seq(Nat) /\ Len(s) = Len(e) + Len(t) /\ Len(e) \in Nat /\ Len(t) \in Nat
           /\ \A i \in 1 .. Len(e) : s[i] = e[i]
           /\ \A i \in Len(e) + 1 .. Len(s) : s[i] = t[i - Len(e)]
  OBVIOUS

LEMMA AppendedFields ==
    ASSUME NEW e \in Seq(Nat), NEW x \in Nat
    PROVE  /\ e \o <<x>> \in Seq(Nat) /\ Len(e \o <<x>>) = Len(e) + 1 /\ Len(e) \in Nat
           /\ \A i \in 1 .. Len(e) : (e \o <<x>>)[i] = e[i]
           /\ (e \o <<x>>)[Len(e) + 1] = x
  OBVIOUS

LEMMA SuffixFields ==
    ASSUME NEW e \in Seq(Nat), NEW k \in 1 .. Len(e), NEW t, t = SubSeq(e, k, Len(e))
    PROVE  /\ t \in Seq(Nat) /\ Len(t) = Len(e) - k + 1
           /\ \A i \in 1 .. Len(t) : t[i] = e[k + i - 1]
  BY SubSeqProperties

(* AppendEntries lengthens the log by a part of what was sent, ... *)
LEMMA StoredFields ==
    ASSUME NEW e \in Seq(Nat), NEW sent \in Seq(Nat)
    PROVE  /\ Stored(e, sent) \in Seq(Nat) /\ Len(Stored(e, sent)) >= Len(e)
           /\ \A k \in 1 .. Len(e) : Stored(e, sent)[k] = e[k]
           /\ \A k \in Len(e) + 1 .. Len(Stored(e, sent)) :
                \E h \in DOMAIN sent : Stored(e, sent)[k] = sent[h]
  <1> DEFINE s == Stored(e, sent)
             missing == {i \in DOMAIN sent : sent[i] > Last(e) \/ ~ Has(e, sent[i])}
             k == CHOOSE i \in missing : \A h \in missing : i <= h
             t == SubSeq(sent, k, Len(sent))
  <1>1. s = IF missing = {} THEN e ELSE e \o t
    BY DEF Stored, StoreLogs
  <1>2. ASSUME missing # {} PROVE k \in 1 .. Len(sent)
    <2>1. missing \subseteq Nat
      OBVIOUS
    <2>2. \E i \in missing : \A h \in missing : i <= h
      BY <1>2, <2>1, LeastNumber
    <2> QED BY <2>2
  <1> HIDE DEF missing, k, s
  <1>3. CASE missing = {}
    BY <1>1, <1>3 DEF s
  <1>4. CASE missing # {}
    <2>1. /\ k \in 1 .. Len(sent) /\ Len(sent) \in Nat
          /\ t \in Seq(Nat) /\ Len(t) = Len(sent) - k + 1
          /\ \A i \in 1 .. Len(t) : t[i] = sent[k + i - 1]
      BY <1>2, <1>4, SuffixFields
    <2>2. ASSUME NEW i \in 1 .. Len(t) PROVE \E h \in DOMAIN sent : t[i] = sent[h]
      <3>1. k + i - 1 \in DOMAIN sent
        BY <2>1
      <3> QED BY <2>1, <3>1
    <2> HIDE DEF t
    <2>3. /\ s \in Seq(Nat) /\ Len(s) = Len(e) + Len(t) /\ Len(e) \in Nat /\ Len(t) \in Nat
          /\ \A i \in 1 .. Len(e) : s[i] = e[i]
          /\ \A i \in Len(e) + 1 .. Len(s) : s[i] = t[i - Len(e)]
      <3>1. s = e \o t
        BY <1>1, <1>4
      <3>2. t \in Seq(Nat)
        BY <2>1
      <3> QED BY <3>1, <3>2, ConcatFields
    <2>4. ASSUME NEW i \in Len(e) + 1 .. Len(s) PROVE \E h \in DOMAIN sent : s[i] = sent[h]
      <3>1. i - Len(e) \in 1 .. Len(t)
        BY <2>3
      <3> QED BY <2>2, <2>3, <3>1
    <2> QED BY <2>3, <2>4 DEF s
  <1> QED BY <1>3, <1>4 DEF s

LEMMA ConsecutiveConcat ==
    ASSUME NEW e \in Seq(Nat), NEW t \in Seq(Nat), \A k \in DOMAIN e : e[k] = k - 1,
           \A k \in DOMAIN t : t[k] = Len(e) + k - 1
    PROVE  (\A k \in DOMAIN (e \o t) : (e \o t)[k] = k - 1) /\ Len(e \o t) = Len(e) + Len(t)
  <1> DEFINE s == e \o t
  <1>1. /\ s \in Seq(Nat) /\ Len(s) = Len(e) + Len(t) /\ Len(e) \in Nat /\ Len(t) \in Nat
        /\ \A i \in 1 .. Len(e) : s[i] = e[i]
        /\ \A i \in Len(e) + 1 .. Len(s) : s[i] = t[i - Len(e)]
    OBVIOUS
  <1> HIDE DEF s
  <1>2. ASSUME NEW i \in 1 .. Len(e) PROVE s[i] = i - 1
    BY <1>1
  <1>3. ASSUME NEW i \in Len(e) + 1 .. Len(s) PROVE s[i] = i - 1
    <2>1. i - Len(e) \in 1 .. Len(t)
      BY <1>1
    <2>2. s[i] = t[i - Len(e)] /\ t[i - Len(e)] = Len(e) + (i - Len(e)) - 1
      BY <1>1, <2>1
    <2>3. i \in Int /\ Len(e) \in Int
      BY <1>1
    <2> QED BY <2>2, <2>3
  <1>4. \A i \in DOMAIN s : i \in 1 .. Len(e) \/ i \in Len(e) + 1 .. Len(s)
    BY <1>1
  <1> QED BY <1>1, <1>2, <1>3, <1>4 DEF s

(* ... and a log with no gap from 0 on, without one. *)
LEMMA StoredConsecutive ==
    ASSUME NEW e \in Seq(Nat), \A k \in DOMAIN e : e[k] = k - 1,
           NEW prev \in Nat, prev < Len(e), NEW last \in Nat, prev <= last,
           NEW sent \in Seq(Nat), Len(sent) = last - prev,
           \A i \in DOMAIN sent : sent[i] = prev + i
    PROVE  /\ \A k \in DOMAIN Stored(e, sent) : Stored(e, sent)[k] = k - 1
           /\ Len(Stored(e, sent)) = Len(e) \/ Len(Stored(e, sent)) = last + 1
  <1> DEFINE s == Stored(e, sent)
             missing == {i \in DOMAIN sent : sent[i] > Last(e) \/ ~ Has(e, sent[i])}
             k == CHOOSE i \in missing : \A h \in missing : i <= h
             t == SubSeq(sent, k, Len(sent))
  <1>1. s = IF missing = {} THEN e ELSE e \o t
    BY DEF Stored, StoreLogs
  <1>2. /\ sent \in Seq(Nat) /\ Len(sent) = last - prev /\ Len(e) \in Nat
        /\ \A i \in DOMAIN sent : sent[i] = prev + i
    OBVIOUS
  <1>3. First(e) = 0 /\ Last(e) = Len(e) - 1
    <2>1. e # <<>> /\ 1 \in DOMAIN e /\ Len(e) \in DOMAIN e /\ Head(e) = e[1]
      BY <1>2
    <2> QED BY <2>1 DEF First, Last
  <1>4. \A i \in DOMAIN sent : i \in missing <=> prev + i >= Len(e)
    <2>1. ASSUME NEW i \in DOMAIN sent PROVE i \in missing <=> prev + i >= Len(e)
      <3>1. sent[i] = prev + i /\ i \in Nat
        BY <1>2
      <3> DEFINE x == prev + i
                 l == Len(e)
      <3>2. x \in Nat /\ l \in Nat /\ sent[i] = x /\ Last(e) = l - 1
        BY <1>2, <1>3, <3>1
      <3>3. Has(e, x) <=> x - 0 \in 0 .. l - 1
        BY <1>3 DEF Has
      <3> HIDE DEF x, l
      <3>4. (x > l - 1 \/ ~ Has(e, x)) <=> x >= l
        BY <3>2, <3>3
      <3>5. i \in missing <=> (x > l - 1 \/ ~ Has(e, x))
        BY <3>2
      <3> QED BY <3>4, <3>5 DEF x, l
    <2> QED BY <2>1
  <1>5. ASSUME missing # {} PROVE k \in missing /\ \A h \in missing : k <= h
    <2>1. missing \subseteq Nat
      BY <1>2
    <2>2. \E i \in missing : \A h \in missing : i <= h
      BY <1>5, <2>1, LeastNumber
    <2> QED BY <2>2
  <1>6. missing \subseteq DOMAIN sent
    OBVIOUS
  <1> HIDE DEF missing, k, s
  <1>7. CASE missing = {}
    BY <1>1, <1>7 DEF s
  <1>8. CASE missing # {}
    <2>1. k \in 1 .. Len(sent) /\ prev + k >= Len(e)
      <3>1. k \in missing /\ k \in DOMAIN sent
        BY <1>5, <1>6, <1>8
      <3> QED BY <1>2, <1>4, <3>1
    <2>2. Len(e) - prev \in missing
      <3>1. Len(e) - prev \in 1 .. Len(sent)
        BY <1>2, <2>1
      <3>2. prev + (Len(e) - prev) >= Len(e) /\ Len(e) - prev \in DOMAIN sent
        BY <1>2, <3>1
      <3> QED BY <1>4, <3>2
    <2>3. k = Len(e) - prev
      BY <1>2, <1>5, <1>8, <2>1, <2>2
    <2>4. /\ t \in Seq(Nat) /\ Len(t) = Len(sent) - k + 1
          /\ \A i \in 1 .. Len(t) : t[i] = sent[k + i - 1]
      BY <1>2, <2>1, SuffixFields
    <2> HIDE DEF t
    <2>5. /\ Len(t) = last + 1 - Len(e) /\ Len(t) \in Nat
          /\ \A i \in 1 .. Len(t) : t[i] = Len(e) + i - 1
      <3>1. Len(t) = last + 1 - Len(e) /\ Len(t) \in Nat
        BY <1>2, <2>1, <2>3, <2>4
      <3>2. ASSUME NEW i \in 1 .. Len(t) PROVE t[i] = Len(e) + i - 1
        <4>1. k + i - 1 \in DOMAIN sent
          BY <1>2, <2>1, <2>4
        <4>2. t[i] = sent[k + i - 1] /\ sent[k + i - 1] = prev + (k + i - 1)
          BY <1>2, <2>4, <4>1
        <4>3. prev + (k + i - 1) = Len(e) + i - 1
          <5>1. k \in Int /\ i \in Int /\ Len(e) \in Int
            BY <1>2, <2>1
          <5> QED BY <2>3, <5>1
        <4> QED BY <4>2, <4>3
      <3> QED BY <3>1, <3>2
    <2>6. s = e \o t /\ t \in Seq(Nat) /\ \A i \in DOMAIN t : t[i] = Len(e) + i - 1
      BY <1>1, <1>8, <2>4, <2>5
    <2>7. (\A i \in DOMAIN (e \o t) : (e \o t)[i] = i - 1) /\ Len(e \o t) = Len(e) + Len(t)
      BY <2>6, ConsecutiveConcat
    <2>8. Len(e \o t) = last + 1
      BY <1>2, <2>5, <2>7
    <2> QED BY <2>6, <2>7, <2>8 DEF s
  <1> QED BY <1>7, <1>8 DEF s


-----------------------------------------------------------------------------
(* What handleRaftCommand, PollJobs and timeoutLoop make of a manager: it    *)
(* stays sound, takes nothing back, and gets to know a job only from the     *)
(* command that enqueues it.                                                 *)
Command == [type : {"ENQUEUE"}, job : Job] \cup [type : {"ACK"}, job : Job, status : Reported]

SameJobs(m, n) == \A j \in Job : Known(n, j) <=> Known(m, j)

LEMMA ItselfLater == ASSUME NEW m PROVE Later(m, m) /\ SameJobs(m, m)
  BY DEF Later, SameJobs

LEMMA SoundWider ==
    ASSUME NEW m, NEW S, NEW T, S \subseteq T, Sound(m, S) PROVE Sound(m, T)
  BY DEF Sound, NoneStranded

LEMMA HandledSound ==
    ASSUME NEW m, Sound(m, {}), NEW c \in Command, NEW n, n = Handled(m, c)
    PROVE  /\ Sound(n, {}) /\ Later(m, n)
           /\ \A j \in Job : Known(n, j) <=> Known(m, j) \/ c = EnqueueCommand(j)
  <1>0. /\ m \in Manager /\ c.job \in Job /\ c.type \in {"ENQUEUE", "ACK"}
        /\ \A j \in Job : c = EnqueueCommand(j) <=> c.type = "ENQUEUE" /\ c.job = j
    BY DEF Sound, Command, EnqueueCommand
  <1>1. ASSUME n = m, c.type = "ENQUEUE" => Known(m, c.job)
        PROVE  /\ Sound(n, {}) /\ Later(m, n)
               /\ \A j \in Job : Known(n, j) <=> Known(m, j) \/ c = EnqueueCommand(j)
    BY <1>0, <1>1, ItselfLater
  <1>2. CASE c.type = "ENQUEUE" /\ ~ Known(m, c.job)
    <2> DEFINE q == <<c.job>>
    <2>1. n = Enqueue(m, q)
      BY <1>2 DEF Handled
    <2>2. q \in Seq(Job) /\ Elems(q) = {c.job}
      BY <1>0 DEF Elems
    <2> HIDE DEF q
    <2>3. Sound(n, {}) /\ Later(m, n)
      BY <1>2, <2>1, <2>2, EnqueueSound
    <2>4. \A k \in Job : n.status[k] = IF k \in Elems(q) THEN "pending" ELSE m.status[k]
      BY <1>0, <2>1, <2>2, EnqueueFields
    <2>5. \A k \in Job : Known(n, k) <=> Known(m, k) \/ k = c.job
      BY <2>2, <2>4 DEF Known
    <2> QED BY <1>0, <1>2, <2>3, <2>5
  <1>3. CASE c.type = "ACK" /\ Known(m, c.job) /\ n = MarkDead(m, c.job)
    <2>1. Sound(n, {}) /\ Later(m, n)
      BY <1>0, <1>3, MarkDeadSound DEF CanMarkDead
    <2>2. \A k \in Job : n.status[k] = IF k = c.job THEN "dead" ELSE m.status[k]
      BY <1>0, <1>3, MarkDeadFields
    <2> QED BY <1>0, <1>3, <2>1, <2>2 DEF Known
  <1>4. CASE c.type = "ACK" /\ Known(m, c.job) /\ CanFinish(m, c.job) /\ n = MarkCompleted(m, c.job)
    <2>1. Sound(n, {}) /\ Later(m, n)
      BY <1>0, <1>4, MarkCompletedSound
    <2>2. \A k \in Job : n.status[k] = IF k = c.job THEN "completed" ELSE m.status[k]
      BY <1>0, <1>4, MarkCompletedFields
    <2> QED BY <1>0, <1>4, <2>1, <2>2 DEF Known
  <1> QED BY <1>0, <1>1, <1>2, <1>3, <1>4 DEF Handled

LEMMA PolledSound ==
    ASSUME NEW m, Sound(m, {}), NEW k \in 0 .. Len(m.queue),
           NEW n, n = MarkInFlight(PopPending(m, k), Elems(Popped(m, k)))
    PROVE  Sound(n, {}) /\ Later(m, n) /\ SameJobs(m, n)
  <1> DEFINE T == Elems(Popped(m, k))
             p == PopPending(m, k)
  <1>0. m \in Manager
    BY DEF Sound
  <1>1. Sound(p, T) /\ Popped(m, k) \in Seq(Job) /\ Later(m, p) /\ p.status = m.status
    <2>1. {} \cup T = T
      OBVIOUS
    <2> QED BY <2>1, PopSound
  <1>2. T \in SUBSET Job /\ p \in Manager
    BY <1>1, ElemsOfJobs DEF Sound
  <1> HIDE DEF T, p
  <1>3. n = MarkInFlight(p, T)
    BY DEF T, p
  <1>4. Sound(MarkInFlight(p, T), T \ T) /\ Later(p, MarkInFlight(p, T))
    BY <1>1, <1>2, MarkInFlightSound, Zenon
  <1>5. T \ T = {}
    OBVIOUS
  <1>6. \A j \in Job : (n.status[j] = "in_flight" /\ p.status[j] = "pending")
                      \/ n.status[j] = p.status[j]
    BY <1>2, <1>3, MarkInFlightFields
  <1>7. SameJobs(m, n)
    BY <1>1, <1>6 DEF SameJobs, Known
  <1> QED BY <1>1, <1>3, <1>4, <1>5, <1>7, LaterTransitive

LEMMA TimedOutSound ==
    ASSUME NEW m, Sound(m, {}), NEW j \in m.inFlight, NEW b, b = BumpAttempt(m, j),
           NEW n, n = MarkDead(b, j) \/ n = Requeue(b, j)
    PROVE  j \in Job /\ Sound(n, {}) /\ Later(m, n) /\ SameJobs(m, n)
  <1>1. j \in Job /\ m.status[j] = "in_flight" /\ m \in Manager
    BY DEF Sound, IndexesAgree, WithStatus
  <1>2. Sound(b, {}) /\ Later(m, b) /\ b.status = m.status
    BY <1>1, BumpAttemptSound
  <1>3. b \in Manager /\ CanFinish(b, j) /\ CanMarkDead(b, j)
    BY <1>1, <1>2 DEF Sound, CanFinish, CanMarkDead, Known
  <1>4. Sound(n, {}) /\ Later(b, n)
    BY <1>1, <1>2, <1>3, MarkDeadSound, RequeueSound
  <1>5. \A k \in Job : n.status[k] = b.status[k] \/ (k = j /\ n.status[k] \in {"dead", "pending"})
    <2>1. CASE n = MarkDead(b, j)
      <3>1. \A k \in Job : n.status[k] = IF k = j THEN "dead" ELSE b.status[k]
        BY <1>1, <1>3, <2>1, MarkDeadFields
      <3> QED BY <3>1
    <2>2. CASE n = Requeue(b, j)
      <3>1. \A k \in Job : n.status[k] = IF k = j THEN "pending" ELSE b.status[k]
        BY <1>1, <1>3, <2>2, RequeueFields
      <3> QED BY <3>1
    <2> QED BY <2>1, <2>2
  <1>6. SameJobs(m, n)
    BY <1>1, <1>2, <1>5 DEF SameJobs, Known
  <1> QED BY <1>1, <1>2, <1>4, <1>6, LaterTransitive


-----------------------------------------------------------------------------
(* What holds on every node. *)
RaftState  == [entries : Seq(Nat), commit : Nat, applied : Nat, included : Nat, sending : BOOLEAN]
SaverState == [pc : {"idle", "write", "compact"}, data : SnapshotData, seq : Nat]

TypeOK ==
    /\ log \in Seq(Command)
    /\ rf \in [Node -> RaftState]
    /\ applyCh \in [Node -> Seq(Nat)]
    /\ applied \in [Node -> Nat] /\ lastIndex \in [Node -> Nat]
    /\ saver \in [Node -> SaverState] /\ snap \in [Node -> SnapshotData]

(* An entry is the index of a command; 0 is only ever the first. *)
Proposed(e) == \A k \in DOMAIN e : e[k] <= Len(log) /\ (k > 1 => e[k] # 0)
OnTheWay(q) == \A k \in DOMAIN q : q[k] \in 1 .. Len(log)

KnownEntries == \A n \in Node : Proposed(rf[n].entries) /\ OnTheWay(applyCh[n])

Managers == jm \in [Node -> Manager] /\ \A n \in Node : Sound(jm[n], {})

LEMMA ProposeFacts ==
    ASSUME TypeOK, NEW c \in Command, Propose(c)
    PROVE  /\ log' \in Seq(Command) /\ Len(log') = Len(log) + 1
           /\ log'[Len(log) + 1] = c
           /\ \A i \in 1 .. Len(log) : log'[i] = log[i]
           /\ rf' \in [Node -> RaftState] /\ \A n \in Node \ {Leader} : rf'[n] = rf[n]
           /\ rf'[Leader].entries = rf[Leader].entries \o <<Len(log) + 1>>
           /\ rf'[Leader].commit = rf[Leader].commit
           /\ rf'[Leader].applied = rf[Leader].applied
           /\ rf'[Leader].included = rf[Leader].included
           /\ rf'[Leader].sending = rf[Leader].sending
           /\ rf[Leader].entries # <<>>
  <1>1. log \in Seq(Command) /\ log' = Append(log, c) /\ Len(log) \in Nat
    BY DEF Propose, TypeOK
  <1>2. /\ log' \in Seq(Command) /\ Len(log') = Len(log) + 1
        /\ log'[Len(log) + 1] = c
        /\ \A i \in 1 .. Len(log) : log'[i] = log[i]
    BY <1>1
  <1> DEFINE e == rf[Leader].entries
             r == [rf[Leader] EXCEPT !.entries = e \o <<Len(log) + 1>>]
  <1>3. Leader \in Node /\ rf[Leader] \in RaftState /\ e \in Seq(Nat)
    BY ReplicaAssumption DEF TypeOK, RaftState
  <1>4. e \o <<Len(log) + 1>> \in Seq(Nat)
    BY <1>1, <1>3
  <1>5. rf' = [rf EXCEPT ![Leader] = r]
    BY DEF Propose, StoreLogs
  <1>6. /\ r \in RaftState /\ r.entries = e \o <<Len(log) + 1>>
        /\ r.commit = rf[Leader].commit /\ r.applied = rf[Leader].applied
        /\ r.included = rf[Leader].included /\ r.sending = rf[Leader].sending
    BY <1>3, <1>4 DEF RaftState
  <1> HIDE DEF r
  <1>7. /\ rf' \in [Node -> RaftState] /\ \A n \in Node \ {Leader} : rf'[n] = rf[n]
        /\ rf'[Leader] = r
    BY <1>3, <1>5, <1>6 DEF TypeOK
  <1>8. rf[Leader].entries # <<>>
    BY DEF Propose, Free
  <1> QED BY <1>2, <1>6, <1>7, <1>8

(* What the leader sent; all of it after prev as long as it never compacted. *)
LEMMA AppendFacts ==
    ASSUME TypeOK, NEW n \in Node, AppendEntries(n)
    PROVE  /\ n # Leader /\ rf[n].sending = FALSE /\ rf[n].entries # <<>>
           /\ rf' \in [Node -> RaftState] /\ \A m \in Node \ {n} : rf'[m] = rf[m]
           /\ rf'[n].applied = rf[n].applied /\ rf'[n].included = rf[n].included
           /\ rf'[n].sending = rf[n].sending
           /\ rf'[n].commit \in Nat /\ rf'[n].entries \in Seq(Nat)
           /\ \/ rf'[n].commit = rf[n].commit
              \/ rf'[n].commit = Last(rf'[n].entries)
              \/ (rf[n].commit < rf'[n].commit /\ rf'[n].commit <= Last(rf'[n].entries))
           /\ \E last \in 0 .. Len(log), from \in Nat, sent \in Seq(Nat) :
                /\ from <= last
                /\ sent = [i \in 1 .. last - from |-> from + i]
                /\ rf'[n].entries = Stored(rf[n].entries, sent)
                /\ rf[Leader].included = 0 => from <= Last(rf[n].entries)
  <1>0. /\ rf[n] \in RaftState /\ rf[n].entries \in Seq(Nat) /\ rf[n].commit \in Nat
        /\ rf[Leader].included \in Nat /\ rf[Leader].commit \in Nat /\ Len(log) \in Nat
    <2>1. rf[n] \in RaftState /\ rf[Leader] \in RaftState
      BY ReplicaAssumption DEF TypeOK
    <2>2. Len(log) \in Nat
      BY DEF TypeOK
    <2> QED BY <2>1, <2>2 DEF RaftState
  <1>1. n # Leader /\ rf[n].sending = FALSE /\ rf[n].entries # <<>>
    BY <1>0 DEF AppendEntries, Free, RaftState
  <1> DEFINE e == rf[n].entries
  <1>a. PICK last \in 0 .. Len(log), first \in 0 .. Start :
          /\ first <= last
          /\ \E prev \in 0 .. last, commit \in 0 .. rf[Leader].commit :
               LET new == Stored(e, Sent(prev, first, last))
               IN /\ prev <= Last(e)
                  /\ rf' = [rf EXCEPT ![n].entries = new,
                                      ![n].commit = CommitIndex(@, commit, Last(new))]
    BY DEF AppendEntries
  <1>2. PICK prev \in 0 .. last, commit \in 0 .. rf[Leader].commit :
          /\ first <= last /\ prev <= Last(e)
          /\ rf' = [rf EXCEPT
               ![n].entries = Stored(e, Sent(prev, first, last)),
               ![n].commit = CommitIndex(@, commit, Last(Stored(e, Sent(prev, first, last))))]
    BY <1>a
  <1> DEFINE f == IF prev >= first THEN prev ELSE first - 1
             q == [i \in 1 .. last - f |-> f + i]
             new == Stored(e, q)
  <1>4. Start \in Nat /\ first \in Nat /\ last \in Nat /\ prev \in Nat
    BY <1>0 DEF Start
  <1>5. f \in Nat /\ f <= last /\ (rf[Leader].included = 0 => f = prev)
    <2>1. rf[Leader].included = 0 => first = 0
      BY <1>0 DEF Start
    <2> QED BY <1>2, <1>4, <2>1
  <1>6. rf' = [rf EXCEPT ![n].entries = new, ![n].commit = CommitIndex(@, commit, Last(new))]
    BY <1>2 DEF Sent
  <1> HIDE DEF f
  <1>7. q \in Seq(Nat)
    BY <1>4, <1>5
  <1>8. new \in Seq(Nat) /\ Len(new) >= Len(e)
    <2> HIDE DEF q
    <2> QED BY <1>0, <1>7, StoredFields
  <1> HIDE DEF new
  <1>9. Last(new) \in Nat
    <2>1. Len(new) \in DOMAIN new
      BY <1>0, <1>1, <1>8
    <2> QED BY <1>8, <2>1 DEF Last
  <1> DEFINE com == CommitIndex(rf[n].commit, commit, Last(new))
             r == [rf[n] EXCEPT !.entries = new, !.commit = com]
  <1>10. com \in Nat /\ (\/ com = rf[n].commit \/ com = Last(new)
                          \/ (rf[n].commit < com /\ com <= Last(new)))
    <2> DEFINE old == rf[n].commit
               end == Last(new)
    <2>1. old \in Nat /\ commit \in Nat /\ end \in Nat
      BY <1>0, <1>9
    <2> HIDE DEF old, end
    <2>2. com = IF commit <= old THEN old ELSE IF commit < end THEN commit ELSE end
      BY DEF CommitIndex, old, end
    <2> HIDE DEF com
    <2>3. com \in Nat /\ (com = old \/ com = end \/ (old < com /\ com <= end))
      BY <2>1, <2>2
    <2> QED BY <2>3 DEF old, end
  <1>11. rf' = [rf EXCEPT ![n] = r]
    BY <1>6
  <1> HIDE DEF com
  <1>12. /\ r \in RaftState /\ r.entries = new /\ r.commit = com
         /\ r.applied = rf[n].applied /\ r.included = rf[n].included /\ r.sending = rf[n].sending
    BY <1>0, <1>8, <1>10 DEF RaftState
  <1> HIDE DEF r
  <1>13. /\ rf' \in [Node -> RaftState] /\ \A m \in Node \ {n} : rf'[m] = rf[m]
         /\ rf'[n] = r
    BY <1>11, <1>12 DEF TypeOK
  <1>14. \E l \in 0 .. Len(log), g \in Nat, s \in Seq(Nat) :
           /\ g <= l
           /\ s = [i \in 1 .. l - g |-> g + i]
           /\ rf'[n].entries = Stored(rf[n].entries, s)
           /\ rf[Leader].included = 0 => g <= Last(rf[n].entries)
    <2>1. rf'[n].entries = Stored(rf[n].entries, q) /\ q = [i \in 1 .. last - f |-> f + i]
      BY <1>12, <1>13 DEF new
    <2>2. rf[Leader].included = 0 => f <= Last(rf[n].entries)
      BY <1>2, <1>5
    <2> HIDE DEF q
    <2> QED BY <1>5, <1>7, <2>1, <2>2
  <1> QED BY <1>1, <1>8, <1>10, <1>12, <1>13, <1>14


(* takeSnapshot's call of raft.Snapshot: nothing, or the entries up to the   *)
(* snapshot's index go.                                                      *)
LEMMA CompactFacts ==
    ASSUME TypeOK, NEW n \in Node, SnapCompact(n)
    PROVE  /\ rf' \in [Node -> RaftState] /\ \A m \in Node \ {n} : rf'[m] = rf[m]
           /\ rf[n].sending = FALSE /\ rf[n].entries # <<>>
           /\ \/ rf'[n] = rf[n]
              \/ /\ saver[n].seq > rf[n].included /\ Has(rf[n].entries, saver[n].seq)
                 /\ rf'[n].included = saver[n].seq
                 /\ rf'[n].entries = DeleteRange(rf[n].entries, First(rf[n].entries), saver[n].seq)
                 /\ rf'[n].commit = rf[n].commit /\ rf'[n].applied = rf[n].applied
                 /\ rf'[n].sending = rf[n].sending
  <1> DEFINE e == rf[n].entries
             i == saver[n].seq
             d == DeleteRange(e, First(e), i)
             r == [rf[n] EXCEPT !.included = i, !.entries = d]
  <1>0. /\ rf \in [Node -> RaftState] /\ rf[n] \in RaftState /\ e \in Seq(Nat) /\ i \in Nat
    BY DEF TypeOK, RaftState, SaverState
  <1>1. rf[n].sending = FALSE /\ e # <<>>
    BY <1>0 DEF SnapCompact, Free, RaftState
  <1>2. First(e) \in Nat
    BY <1>0, <1>1 DEF First
  <1>3. d \in Seq(Nat)
    BY <1>0, <1>2, DeleteRangeKeeps
  <1> HIDE DEF d
  <1>4. \/ rf' = rf
        \/ i > rf[n].included /\ Has(e, i) /\ rf' = [rf EXCEPT ![n] = r]
    <2>1. rf' = IF i <= rf[n].included \/ ~ Has(e, i) THEN rf
                ELSE [rf EXCEPT ![n].included = i, ![n].entries = d]
      BY DEF SnapCompact, d
    <2>2. rf[n].included \in Nat
      BY <1>0 DEF RaftState
    <2>3. [rf EXCEPT ![n].included = i, ![n].entries = d] = [rf EXCEPT ![n] = r]
      BY <1>0
    <2>4. CASE i <= rf[n].included \/ ~ Has(e, i)
      BY <2>1, <2>4
    <2>5. CASE ~ (i <= rf[n].included \/ ~ Has(e, i))
      BY <1>0, <2>1, <2>2, <2>3, <2>5
    <2> QED BY <2>4, <2>5
  <1>5. /\ r \in RaftState /\ r.entries = d /\ r.included = i
        /\ r.commit = rf[n].commit /\ r.applied = rf[n].applied /\ r.sending = rf[n].sending
    BY <1>0, <1>3 DEF RaftState
  <1> HIDE DEF r
  <1>6. CASE rf' = rf
    BY <1>0, <1>1, <1>6
  <1>7. CASE i > rf[n].included /\ Has(e, i) /\ rf' = [rf EXCEPT ![n] = r]
    <2>1. /\ rf' \in [Node -> RaftState] /\ \A m \in Node \ {n} : rf'[m] = rf[m]
          /\ rf'[n] = r
      BY <1>0, <1>5, <1>7
    <2> QED BY <1>1, <1>5, <1>7, <2>1 DEF d
  <1> QED BY <1>4, <1>6, <1>7

(* One round of the loop of applyLogs. *)
LEMMA SendFacts ==
    ASSUME TypeOK, NEW n \in Node, ApplySend(n)
    PROVE  /\ rf' \in [Node -> RaftState] /\ \A m \in Node \ {n} : rf'[m] = rf[m]
           /\ rf[n].sending
           /\ rf'[n].applied = rf[n].applied + 1
           /\ rf'[n].sending = (rf[n].applied + 1 < rf[n].commit)
           /\ rf'[n].entries = rf[n].entries /\ rf'[n].commit = rf[n].commit
           /\ rf'[n].included = rf[n].included
           /\ \A m \in Node \ {n} : applyCh'[m] = applyCh[m]
           /\ IF Has(rf[n].entries, rf[n].applied + 1)
              THEN applyCh'[n] = Append(applyCh[n], GetLog(rf[n].entries, rf[n].applied + 1))
              ELSE applyCh'[n] = applyCh[n]
           /\ DOMAIN applyCh' = Node
  <1> DEFINE i == rf[n].applied + 1
             b == (i < rf[n].commit)
             r == [rf[n] EXCEPT !.applied = i, !.sending = b]
  <1>0. /\ rf \in [Node -> RaftState] /\ rf[n] \in RaftState /\ i \in Nat /\ b \in BOOLEAN
        /\ applyCh \in [Node -> Seq(Nat)]
    BY DEF TypeOK, RaftState
  <1>1. /\ rf[n].sending
        /\ rf' = [rf EXCEPT ![n].applied = i, ![n].sending = b]
        /\ applyCh' = IF Has(rf[n].entries, i)
                      THEN [applyCh EXCEPT ![n] = Append(@, GetLog(rf[n].entries, i))]
                      ELSE applyCh
    BY DEF ApplySend, Deliver, Found
  <1> HIDE DEF b
  <1>2. rf' = [rf EXCEPT ![n] = r]
    BY <1>0, <1>1 DEF RaftState
  <1>3. /\ r \in RaftState /\ r.applied = i /\ r.sending = b /\ r.entries = rf[n].entries
        /\ r.commit = rf[n].commit /\ r.included = rf[n].included
    BY <1>0 DEF RaftState
  <1> HIDE DEF r
  <1>4. /\ rf' \in [Node -> RaftState] /\ \A m \in Node \ {n} : rf'[m] = rf[m]
        /\ rf'[n] = r
    BY <1>0, <1>2, <1>3
  <1>5. /\ \A m \in Node \ {n} : applyCh'[m] = applyCh[m]
        /\ IF Has(rf[n].entries, i)
           THEN applyCh'[n] = Append(applyCh[n], GetLog(rf[n].entries, i))
           ELSE applyCh'[n] = applyCh[n]
        /\ DOMAIN applyCh' = Node
    BY <1>0, <1>1
  <1> QED BY <1>1, <1>3, <1>4, <1>5 DEF b

LEMMA CommitFacts ==
    ASSUME TypeOK, Commit
    PROVE  /\ rf' \in [Node -> RaftState] /\ \A m \in Node \ {Leader} : rf'[m] = rf[m]
           /\ rf[Leader].sending = FALSE /\ rf[Leader].entries # <<>>
           /\ rf'[Leader].entries = rf[Leader].entries /\ rf'[Leader].applied = rf[Leader].applied
           /\ rf'[Leader].included = rf[Leader].included
           /\ rf'[Leader].sending = rf[Leader].sending
           /\ rf'[Leader].commit > rf[Leader].commit
           /\ rf'[Leader].commit <= Last(rf[Leader].entries)
  <1>0. rf \in [Node -> RaftState] /\ Leader \in Node /\ rf[Leader] \in RaftState
    BY ReplicaAssumption DEF TypeOK
  <1>1. rf[Leader].sending = FALSE /\ rf[Leader].entries # <<>>
    BY <1>0 DEF Commit, Free, RaftState
  <1>2. rf[Leader].commit \in Nat /\ rf[Leader].entries \in Seq(Nat)
    BY <1>0 DEF RaftState
  <1>3. Last(rf[Leader].entries) \in Nat
    <2>1. Len(rf[Leader].entries) \in DOMAIN rf[Leader].entries
      BY <1>1, <1>2
    <2> QED BY <1>2, <2>1 DEF Last
  <1>4. PICK i \in rf[Leader].commit + 1 .. Last(rf[Leader].entries) :
          rf' = [rf EXCEPT ![Leader].commit = i]
    BY DEF Commit
  <1> DEFINE r == [rf[Leader] EXCEPT !.commit = i]
  <1>5. i \in Nat /\ i > rf[Leader].commit /\ i <= Last(rf[Leader].entries)
    BY <1>2, <1>3
  <1>6. rf' = [rf EXCEPT ![Leader] = r]
    BY <1>4
  <1>7. /\ r \in RaftState /\ r.commit = i /\ r.entries = rf[Leader].entries
        /\ r.applied = rf[Leader].applied /\ r.included = rf[Leader].included
        /\ r.sending = rf[Leader].sending
    BY <1>0, <1>5 DEF RaftState
  <1> HIDE DEF r
  <1>8. /\ rf' \in [Node -> RaftState] /\ \A m \in Node \ {Leader} : rf'[m] = rf[m]
        /\ rf'[Leader] = r
    BY <1>0, <1>6, <1>7
  <1> QED BY <1>1, <1>5, <1>7, <1>8

LEMMA ApplyFacts ==
    ASSUME TypeOK, NEW n \in Node, ApplyLogs(n)
    PROVE  /\ rf' \in [Node -> RaftState] /\ \A m \in Node \ {n} : rf'[m] = rf[m]
           /\ rf[n].applied < rf[n].commit
           /\ rf'[n].entries = rf[n].entries /\ rf'[n].applied = rf[n].applied
           /\ rf'[n].included = rf[n].included /\ rf'[n].commit = rf[n].commit
  <1> DEFINE r == [rf[n] EXCEPT !.sending = TRUE]
  <1>0. rf \in [Node -> RaftState] /\ rf[n] \in RaftState
    BY DEF TypeOK
  <1>1. rf' = [rf EXCEPT ![n] = r] /\ rf[n].commit > rf[n].applied
    BY DEF ApplyLogs
  <1>2. /\ r \in RaftState /\ r.commit = rf[n].commit /\ r.entries = rf[n].entries
        /\ r.applied = rf[n].applied /\ r.included = rf[n].included
    BY <1>0 DEF RaftState
  <1> HIDE DEF r
  <1>3. /\ rf' \in [Node -> RaftState] /\ \A m \in Node \ {n} : rf'[m] = rf[m]
        /\ rf'[n] = r
    BY <1>0, <1>1, <1>2
  <1>4. rf[n].commit \in Nat /\ rf[n].applied \in Nat
    BY <1>0 DEF RaftState
  <1> QED BY <1>1, <1>2, <1>3, <1>4


(* Who changes what: the steps on the log and the Raft state. *)
LEMMA RaftSteps ==
    ASSUME TypeOK, Next
    PROVE  \/ UNCHANGED <<log, rf>>
           \/ \E c \in Command : Propose(c)
           \/ UNCHANGED log /\ \/ Commit
                               \/ \E n \in Node : \/ AppendEntries(n) \/ ApplyLogs(n)
                                                  \/ ApplySend(n) \/ SnapCompact(n)
  <1>1. ASSUME NEW j \in Job, SubmitJob(j) PROVE \E c \in Command : Propose(c)
    <2>1. EnqueueCommand(j) \in Command
      BY DEF Command, EnqueueCommand
    <2> QED BY <1>1, <2>1 DEF SubmitJob
  <1>2. ASSUME NEW n \in Node, NEW j \in Job, AcknowledgeJob(n, j)
        PROVE  UNCHANGED <<log, rf>> \/ \E c \in Command : Propose(c)
    <2>1. \A st \in Reported : AckCommand(j, st) \in Command
      BY DEF Command, AckCommand
    <2> QED BY <1>2, <2>1 DEF AcknowledgeJob
  <1>3. ASSUME NEW n \in Node, Panic(n) \/ PollJobs(n) \/ SnapCopy(n) \/ SnapWrite(n)
                               \/ HandleCommand(n) \/ SetLastAppliedIndex(n)
        PROVE  UNCHANGED <<log, rf>>
    BY <1>3 DEF Panic, PollJobs, SnapCopy, Copy, SnapWrite, HandleCommand, SetLastAppliedIndex,
                StoreIndex
  <1>4. ASSUME NEW n \in Node, NEW j \in Job, Timeout(n, j) PROVE UNCHANGED <<log, rf>>
    BY <1>4 DEF Timeout
  <1>5. ASSUME NEW n \in Node, AppendEntries(n) \/ ApplyLogs(n) \/ ApplySend(n) \/ SnapCompact(n)
        PROVE  UNCHANGED log
    BY <1>5 DEF AppendEntries, ApplyLogs, ApplySend, Deliver, SnapCompact
  <1>6. Commit => UNCHANGED log
    BY DEF Commit
  <1> QED BY <1>1, <1>2, <1>3, <1>4, <1>5, <1>6 DEF Next, ApplyStep, SaverStep

(* The log only gets longer. *)
LEMMA LogGrows ==
    ASSUME TypeOK, Next
    PROVE  /\ log' \in Seq(Command) /\ Len(log') >= Len(log)
           /\ \A i \in 1 .. Len(log) : log'[i] = log[i]
  <1>1. CASE UNCHANGED log
    BY <1>1 DEF TypeOK
  <1>2. ASSUME NEW c \in Command, Propose(c)
        PROVE  /\ log' \in Seq(Command) /\ Len(log') >= Len(log)
               /\ \A i \in 1 .. Len(log) : log'[i] = log[i]
    <2>1. Len(log) \in Nat
      BY DEF TypeOK
    <2> QED BY <1>2, <2>1, ProposeFacts
  <1> QED BY <1>1, <1>2, RaftSteps

LEMMA RaftTyped ==
    ASSUME TypeOK, Next PROVE rf' \in [Node -> RaftState]
  <1>1. CASE UNCHANGED rf
    BY <1>1 DEF TypeOK
  <1> QED BY <1>1, RaftSteps, ProposeFacts, AppendFacts, CompactFacts, SendFacts, CommitFacts,
             ApplyFacts

(* Every entry on a node, in its log or on its way to the manager, is that   *)
(* of a command.                                                             *)
LEMMA EntriesStep ==
    ASSUME TypeOK, KnownEntries, Next, NEW n \in Node PROVE Proposed(rf[n].entries)'
  <1>0. /\ log \in Seq(Command) /\ Len(log) \in Nat /\ rf[n].entries \in Seq(Nat)
        /\ Proposed(rf[n].entries) /\ Len(log') \in Nat /\ Len(log') >= Len(log)
    BY LogGrows DEF TypeOK, RaftState, KnownEntries
  <1>1. ASSUME rf'[n].entries = rf[n].entries PROVE Proposed(rf[n].entries)'
    BY <1>0, <1>1 DEF Proposed
  <1>2. ASSUME NEW c \in Command, Propose(c) PROVE Proposed(rf[n].entries)'
    <2>1. CASE n # Leader
      BY <1>1, <1>2, <2>1, ProposeFacts
    <2>2. CASE n = Leader
      <3> DEFINE e == rf[n].entries
                 s == rf'[n].entries
      <3>1. s = e \o <<Len(log) + 1>> /\ e # <<>> /\ Len(log') = Len(log) + 1
        BY <1>2, <2>2, ProposeFacts
      <3>2. e \in Seq(Nat) /\ Len(log) + 1 \in Nat
        BY <1>0
      <3> HIDE DEF s, e
      <3>3. /\ Len(s) = Len(e) + 1 /\ Len(e) \in Nat /\ DOMAIN s = 1 .. Len(s) /\ DOMAIN e = 1 .. Len(e)
            /\ \A k \in 1 .. Len(e) : s[k] = e[k]
            /\ s[Len(e) + 1] = Len(log) + 1
        <4>1. s \in Seq(Nat) /\ Len(s) = Len(e) + 1 /\ Len(e) \in Nat
          BY <3>1, <3>2, AppendedFields
        <4>2. \A k \in 1 .. Len(e) : s[k] = e[k]
          BY <3>1, <3>2, AppendedFields
        <4>3. s[Len(e) + 1] = Len(log) + 1
          BY <3>1, <3>2, AppendedFields
        <4> QED BY <3>2, <4>1, <4>2, <4>3
      <3>4. ASSUME NEW k \in DOMAIN s PROVE s[k] <= Len(log') /\ (k > 1 => s[k] # 0)
        <4>1. CASE k \in DOMAIN e
          BY <1>0, <3>1, <3>3, <4>1 DEF Proposed, e
        <4>2. CASE k = Len(e) + 1
          BY <1>0, <3>1, <3>3, <4>2
        <4> QED BY <3>3, <4>1, <4>2
      <3> QED BY <3>4 DEF Proposed, s
    <2> QED BY <2>1, <2>2
  <1>3. ASSUME NEW m \in Node, AppendEntries(m), UNCHANGED log PROVE Proposed(rf[n].entries)'
    <2>1. CASE n # m
      BY <1>1, <1>3, <2>1, AppendFacts
    <2>2. CASE n = m
      <3> DEFINE e == rf[n].entries
                 s == rf'[n].entries
      <3>1. PICK last \in 0 .. Len(log), from \in Nat, sent \in Seq(Nat) :
              /\ from <= last
              /\ sent = [i \in 1 .. last - from |-> from + i]
              /\ s = Stored(e, sent)
        BY <1>3, <2>2, AppendFacts
      <3>2. e # <<>>
        BY <1>3, <2>2, AppendFacts
      <3>3. \A h \in DOMAIN sent : sent[h] <= Len(log) /\ sent[h] # 0
        BY <1>0, <3>1
      <3> HIDE DEF s, e
      <3>4. /\ s \in Seq(Nat) /\ Len(s) >= Len(e)
            /\ \A k \in 1 .. Len(e) : s[k] = e[k]
            /\ \A k \in Len(e) + 1 .. Len(s) : \E h \in DOMAIN sent : s[k] = sent[h]
        <4>1. e \in Seq(Nat) /\ sent \in Seq(Nat) /\ s = Stored(e, sent)
          BY <1>0, <3>1 DEF e
        <4>2. s \in Seq(Nat) /\ Len(s) >= Len(e)
          BY <4>1, StoredFields
        <4>3. \A k \in 1 .. Len(e) : s[k] = e[k]
          BY <4>1, StoredFields
        <4>4. \A k \in Len(e) + 1 .. Len(s) : \E h \in DOMAIN sent : s[k] = sent[h]
          BY <4>1, StoredFields
        <4> QED BY <4>2, <4>3, <4>4
      <3>5. Len(e) \in Nat /\ e \in Seq(Nat)
        BY <1>0 DEF e
      <3>6. ASSUME NEW k \in DOMAIN s PROVE s[k] <= Len(log') /\ (k > 1 => s[k] # 0)
        <4>1. CASE k \in 1 .. Len(e)
          <5>1. e[k] <= Len(log) /\ (k > 1 => e[k] # 0)
            BY <1>0, <3>5, <4>1 DEF Proposed, e
          <5> QED BY <1>3, <3>4, <4>1, <5>1
        <4>2. CASE k \in Len(e) + 1 .. Len(s)
          BY <1>3, <3>3, <3>4, <4>2
        <4> QED BY <3>4, <3>5, <4>1, <4>2
      <3> QED BY <3>6 DEF Proposed, s
    <2> QED BY <2>1, <2>2
  <1>4. ASSUME NEW m \in Node, SnapCompact(m), UNCHANGED log PROVE Proposed(rf[n].entries)'
    <2>1. CASE n # m \/ rf'[n] = rf[n]
      BY <1>1, <1>4, <2>1, CompactFacts
    <2>2. CASE n = m /\ rf'[n] # rf[n]
      <3> DEFINE e == rf[n].entries
                 i == saver[n].seq
                 d == rf'[n].entries
      <3>1. Has(e, i) /\ d = DeleteRange(e, First(e), i) /\ e # <<>>
        BY <1>4, <2>2, CompactFacts
      <3>2. i \in Nat /\ First(e) \in Nat /\ e \in Seq(Nat) /\ 1 \in DOMAIN e /\ First(e) = e[1]
        BY <1>0, <3>1 DEF TypeOK, SaverState, First
      <3>3. i >= First(e)
        BY <3>1, <3>2 DEF Has
      <3> HIDE DEF e, d, i
      <3>4. \A k \in DOMAIN d : \E h \in DOMAIN e : d[k] = e[h] /\ (e[h] < First(e) \/ e[h] > i)
        <4> DEFINE f == First(e)
                   del == DeleteRange(e, f, i)
        <4>1. \A k \in DOMAIN del : \E h \in DOMAIN e : del[k] = e[h] /\ (e[h] < f \/ e[h] > i)
          <5>1. f \in Nat
            BY <3>2
          <5> HIDE DEF f
          <5> QED BY <3>2, <5>1, DeleteRangeKeeps
        <4>2. d = del
          BY <3>1
        <4> QED BY <4>1, <4>2, Zenon
      <3>5. ASSUME NEW k \in DOMAIN d PROVE d[k] <= Len(log') /\ (k > 1 => d[k] # 0)
        <4>1. PICK h \in DOMAIN e : d[k] = e[h] /\ (e[h] < First(e) \/ e[h] > i)
          BY <3>4
        <4>2. e[h] <= Len(log) /\ (h > 1 => e[h] # 0) /\ e[h] \in Nat
          BY <1>0, <3>2 DEF Proposed, e
        <4>3. h # 1
          BY <3>2, <3>3, <4>1
        <4> QED BY <1>4, <3>2, <4>1, <4>2, <4>3
      <3> QED BY <3>5 DEF Proposed, d
    <2> QED BY <2>1, <2>2
  <1>5. ASSUME Commit PROVE Proposed(rf[n].entries)'
    BY <1>1, <1>5, CommitFacts
  <1>6. ASSUME NEW m \in Node, ApplyLogs(m) PROVE Proposed(rf[n].entries)'
    BY <1>1, <1>6, ApplyFacts
  <1>7. ASSUME NEW m \in Node, ApplySend(m) PROVE Proposed(rf[n].entries)'
    BY <1>1, <1>7, SendFacts
  <1> QED BY <1>1, <1>2, <1>3, <1>4, <1>5, <1>6, <1>7, RaftSteps


-----------------------------------------------------------------------------
(* Who changes what: the way from Raft to the manager, the manager, and the  *)
(* snapshot.                                                                 *)
LEMMA ApplySteps ==
    ASSUME Next
    PROVE  \/ UNCHANGED <<applyCh, applied, lastIndex>>
           \/ \E n \in Node : ApplySend(n) \/ HandleCommand(n) \/ SetLastAppliedIndex(n)
  <1>1. ASSUME NEW n \in Node, \/ Panic(n) \/ PollJobs(n) \/ AppendEntries(n) \/ ApplyLogs(n)
                               \/ SnapCopy(n) \/ SnapWrite(n) \/ SnapCompact(n)
        PROVE  UNCHANGED <<applyCh, applied, lastIndex>>
    BY <1>1 DEF Panic, PollJobs, AppendEntries, ApplyLogs, SnapCopy, Copy, SnapWrite, SnapCompact
  <1>2. ASSUME NEW n \in Node, NEW j \in Job, AcknowledgeJob(n, j) \/ Timeout(n, j)
        PROVE  UNCHANGED <<applyCh, applied, lastIndex>>
    BY <1>2 DEF AcknowledgeJob, Timeout
  <1>3. ASSUME Commit \/ \E j \in Job : SubmitJob(j)
        PROVE  UNCHANGED <<applyCh, applied, lastIndex>>
    BY <1>3 DEF Commit, SubmitJob
  <1> QED BY <1>1, <1>2, <1>3 DEF Next, ApplyStep, SaverStep

LEMMA ManagerSteps ==
    ASSUME Next
    PROVE  \/ UNCHANGED jm
           \/ \E n \in Node : \/ HandleCommand(n) \/ PollJobs(n)
                              \/ \E j \in Job : Timeout(n, j)
  <1>1. ASSUME NEW n \in Node, \/ Panic(n) \/ AppendEntries(n) \/ ApplyLogs(n) \/ ApplySend(n)
                               \/ SetLastAppliedIndex(n) \/ SnapCopy(n) \/ SnapWrite(n)
                               \/ SnapCompact(n)
        PROVE  UNCHANGED jm
    BY <1>1 DEF Panic, AppendEntries, ApplyLogs, ApplySend, Deliver, SetLastAppliedIndex,
                StoreIndex, SnapCopy, Copy, SnapWrite, SnapCompact
  <1>2. ASSUME NEW n \in Node, NEW j \in Job, AcknowledgeJob(n, j) PROVE UNCHANGED jm
    BY <1>2 DEF AcknowledgeJob
  <1>3. ASSUME Commit \/ \E j \in Job : SubmitJob(j) PROVE UNCHANGED jm
    BY <1>3 DEF Commit, SubmitJob
  <1> QED BY <1>1, <1>2, <1>3 DEF Next, ApplyStep, SaverStep

LEMMA SaverSteps ==
    ASSUME Next
    PROVE  \/ UNCHANGED <<saver, snap>>
           \/ \E n \in Node : SnapCopy(n) \/ SnapWrite(n) \/ SnapCompact(n)
  <1>1. ASSUME NEW n \in Node, \/ Panic(n) \/ PollJobs(n) \/ AppendEntries(n) \/ ApplyLogs(n)
                               \/ ApplySend(n) \/ HandleCommand(n) \/ SetLastAppliedIndex(n)
        PROVE  UNCHANGED <<saver, snap>>
    BY <1>1 DEF Panic, PollJobs, AppendEntries, ApplyLogs, ApplySend, Deliver, HandleCommand,
                SetLastAppliedIndex, StoreIndex
  <1>2. ASSUME NEW n \in Node, NEW j \in Job, AcknowledgeJob(n, j) \/ Timeout(n, j)
        PROVE  UNCHANGED <<saver, snap>>
    BY <1>2 DEF AcknowledgeJob, Timeout
  <1>3. ASSUME Commit \/ \E j \in Job : SubmitJob(j) PROVE UNCHANGED <<saver, snap>>
    BY <1>3 DEF Commit, SubmitJob
  <1> QED BY <1>1, <1>2, <1>3 DEF Next, ApplyStep, SaverStep

(* applyLoop takes a command from the channel, ... *)
LEMMA HandleFacts ==
    ASSUME TypeOK, KnownEntries, NEW n \in Node, HandleCommand(n)
    PROVE  /\ applied[n] = 0 /\ Len(applyCh[n]) \in Nat /\ Len(applyCh[n]) >= 1
           /\ applyCh[n][1] \in 1 .. Len(log)
           /\ applied' \in [Node -> Nat] /\ applied'[n] = applyCh[n][1]
           /\ \A m \in Node \ {n} : applied'[m] = applied[m]
           /\ applyCh' \in [Node -> Seq(Nat)] /\ Len(applyCh'[n]) = Len(applyCh[n]) - 1
           /\ \A k \in DOMAIN applyCh'[n] : applyCh'[n][k] = applyCh[n][k + 1]
           /\ \A m \in Node \ {n} : applyCh'[m] = applyCh[m]
           /\ DOMAIN applyCh'[n] = 1 .. Len(applyCh'[n])
           /\ jm' = [jm EXCEPT ![n] = Handled(jm[n], log[applyCh[n][1]])]
           /\ log[applyCh[n][1]] \in Command
           /\ UNCHANGED <<log, rf, lastIndex, saver, snap>>
  <1> DEFINE q == applyCh[n]
  <1>1. /\ applied[n] = 0 /\ q # <<>> /\ q \in Seq(Nat)
        /\ applied' = [applied EXCEPT ![n] = Head(q)]
        /\ applyCh' = [applyCh EXCEPT ![n] = Tail(q)]
        /\ jm' = [jm EXCEPT ![n] = Handled(jm[n], log[Head(q)])]
        /\ UNCHANGED <<log, rf, lastIndex, saver, snap>>
    BY DEF HandleCommand, TypeOK
  <1>2. OnTheWay(q)
    BY DEF KnownEntries
  <1> HIDE DEF q
  <1>3. 1 \in DOMAIN q /\ Head(q) = q[1] /\ Len(q) \in Nat /\ Len(q) >= 1
    BY <1>1
  <1>4. q[1] \in 1 .. Len(log) /\ q[1] \in Nat
    BY <1>1, <1>2, <1>3 DEF OnTheWay
  <1>5. /\ Tail(q) \in Seq(Nat) /\ Len(Tail(q)) = Len(q) - 1
        /\ \A k \in DOMAIN Tail(q) : Tail(q)[k] = q[k + 1]
        /\ DOMAIN Tail(q) = 1 .. Len(Tail(q))
    BY <1>1
  <1>6. /\ applied' \in [Node -> Nat] /\ applied'[n] = q[1]
        /\ \A m \in Node \ {n} : applied'[m] = applied[m]
    BY <1>1, <1>3, <1>4 DEF TypeOK
  <1>7. /\ applyCh' \in [Node -> Seq(Nat)] /\ applyCh'[n] = Tail(q)
        /\ \A m \in Node \ {n} : applyCh'[m] = applyCh[m]
    BY <1>1, <1>5 DEF TypeOK
  <1>8. log[q[1]] \in Command
    BY <1>4 DEF TypeOK
  <1> QED BY <1>1, <1>3, <1>4, <1>5, <1>6, <1>7, <1>8 DEF q

(* ... and stores its index. *)
LEMMA StoreIndexFacts ==
    ASSUME TypeOK, NEW n \in Node, SetLastAppliedIndex(n)
    PROVE  /\ applied[n] # 0 /\ applied' \in [Node -> Nat] /\ applied'[n] = 0
           /\ lastIndex' \in [Node -> Nat] /\ lastIndex'[n] = applied[n]
           /\ \A m \in Node \ {n} : applied'[m] = applied[m] /\ lastIndex'[m] = lastIndex[m]
           /\ UNCHANGED <<log, rf, applyCh, jm, saver, snap>>
  BY DEF SetLastAppliedIndex, StoreIndex, TypeOK

LEMMA PollFacts ==
    ASSUME Managers, NEW n \in Node, PollJobs(n)
    PROVE  /\ \E k \in 0 .. Len(jm[n].queue) :
                jm' = [jm EXCEPT ![n] = MarkInFlight(PopPending(jm[n], k), Elems(Popped(jm[n], k)))]
           /\ UNCHANGED <<log, rf, applyCh, applied, lastIndex, saver, snap>>
  <1> DEFINE k == IF Len(jm[n].queue) < BatchSize THEN Len(jm[n].queue) ELSE BatchSize
  <1>1. Len(jm[n].queue) \in Nat /\ BatchSize \in Nat
    BY ReplicaAssumption DEF Managers, Manager
  <1>2. k \in 0 .. Len(jm[n].queue)
    BY <1>1
  <1>3. jm' = [jm EXCEPT ![n] = MarkInFlight(PopPending(jm[n], k), Elems(Popped(jm[n], k)))]
    BY DEF PollJobs
  <1>4. UNCHANGED <<log, rf, applyCh, applied, lastIndex, saver, snap>>
    BY DEF PollJobs
  <1> HIDE DEF k
  <1> QED BY <1>2, <1>3, <1>4

LEMMA TimeoutFacts ==
    ASSUME NEW n \in Node, NEW j \in Job, Timeout(n, j)
    PROVE  /\ j \in jm[n].inFlight
           /\ \/ jm' = [jm EXCEPT ![n] = MarkDead(BumpAttempt(jm[n], j), j)]
              \/ jm' = [jm EXCEPT ![n] = Requeue(BumpAttempt(jm[n], j), j)]
           /\ UNCHANGED <<log, rf, applyCh, applied, lastIndex, saver, snap>>
  BY DEF Timeout


(* takeSnapshot copies the jobs under c.mu, ... *)
LEMMA CopyFacts ==
    ASSUME TypeOK, Managers, NEW n \in Node, SnapCopy(n)
    PROVE  /\ saver' \in [Node -> SaverState] /\ \A m \in Node \ {n} : saver'[m] = saver[m]
           /\ saver[n].pc = "idle" /\ saver'[n].pc = "write"
           /\ saver'[n].data = PartialSnapshot(jm[n]) /\ saver'[n].seq = lastIndex[n]
           /\ UNCHANGED <<log, rf, applyCh, applied, jm, lastIndex, snap>>
  <1> DEFINE d == PartialSnapshot(jm[n])
             s == [pc |-> "write", data |-> d, seq |-> lastIndex[n]]
  <1>1. jm[n] \in Manager
    BY DEF Managers
  <1>2. d \in SnapshotData
    BY <1>1 DEF PartialSnapshot, SnapshotData, Manager, Status
  <1>3. /\ saver[n].pc = "idle" /\ saver' = [saver EXCEPT ![n] = s]
        /\ UNCHANGED <<log, rf, applyCh, applied, jm, lastIndex, snap>>
    BY DEF SnapCopy, Copy
  <1> HIDE DEF d
  <1>4. s \in SaverState /\ s.pc = "write" /\ s.data = d /\ s.seq = lastIndex[n]
    BY <1>2 DEF SaverState, TypeOK
  <1> HIDE DEF s
  <1>5. /\ saver' \in [Node -> SaverState] /\ \A m \in Node \ {n} : saver'[m] = saver[m]
        /\ saver'[n] = s
    BY <1>3, <1>4 DEF TypeOK
  <1> QED BY <1>3, <1>4, <1>5 DEF d

(* ... writes the file ... *)
LEMMA WriteFacts ==
    ASSUME TypeOK, NEW n \in Node, SnapWrite(n)
    PROVE  /\ saver' \in [Node -> SaverState] /\ \A m \in Node \ {n} : saver'[m] = saver[m]
           /\ saver[n].pc = "write" /\ saver'[n].pc = "compact"
           /\ saver'[n].data = saver[n].data /\ saver'[n].seq = saver[n].seq
           /\ snap' \in [Node -> SnapshotData] /\ snap'[n] = saver[n].data
           /\ \A m \in Node \ {n} : snap'[m] = snap[m]
           /\ UNCHANGED <<log, rf, applyCh, applied, jm, lastIndex>>
  <1> DEFINE s == [saver[n] EXCEPT !.pc = "compact"]
  <1>1. saver \in [Node -> SaverState] /\ saver[n] \in SaverState
    BY DEF TypeOK
  <1>2. /\ saver[n].pc = "write" /\ saver' = [saver EXCEPT ![n] = s]
        /\ snap' = [snap EXCEPT ![n] = saver[n].data]
        /\ UNCHANGED <<log, rf, applyCh, applied, jm, lastIndex>>
    BY DEF SnapWrite
  <1>3. s \in SaverState /\ s.pc = "compact" /\ s.data = saver[n].data /\ s.seq = saver[n].seq
    BY <1>1 DEF SaverState
  <1> HIDE DEF s
  <1>4. /\ saver' \in [Node -> SaverState] /\ \A m \in Node \ {n} : saver'[m] = saver[m]
        /\ saver'[n] = s
    BY <1>1, <1>2, <1>3
  <1>5. saver[n].data \in SnapshotData
    BY <1>1 DEF SaverState
  <1>6. /\ snap' \in [Node -> SnapshotData] /\ snap'[n] = saver[n].data
        /\ \A m \in Node \ {n} : snap'[m] = snap[m]
    BY <1>2, <1>5 DEF TypeOK
  <1> QED BY <1>2, <1>3, <1>4, <1>6

(* ... and is done when the log is compacted. *)
LEMMA CompactSaverFacts ==
    ASSUME TypeOK, NEW n \in Node, SnapCompact(n)
    PROVE  /\ saver' \in [Node -> SaverState] /\ \A m \in Node \ {n} : saver'[m] = saver[m]
           /\ saver[n].pc = "compact" /\ saver'[n].pc = "idle"
           /\ UNCHANGED <<log, applyCh, applied, jm, lastIndex, snap>>
  <1>1. /\ saver[n].pc = "compact" /\ saver' = [saver EXCEPT ![n] = IdleSaver]
        /\ UNCHANGED <<log, applyCh, applied, jm, lastIndex, snap>>
    BY DEF SnapCompact
  <1>2. IdleSaver \in SaverState /\ IdleSaver.pc = "idle"
    BY DEF IdleSaver, SaverState, NoJobs, SnapshotData, Status
  <1> QED BY <1>1, <1>2 DEF TypeOK

LEMMA TypeStep ==
    ASSUME TypeOK, KnownEntries, Managers, Next PROVE TypeOK'
  <1>1. log' \in Seq(Command) /\ rf' \in [Node -> RaftState]
    BY LogGrows, RaftTyped
  <1>2. ASSUME NEW n \in Node, ApplySend(n)
        PROVE  /\ applyCh' \in [Node -> Seq(Nat)] /\ applied' \in [Node -> Nat]
               /\ lastIndex' \in [Node -> Nat]
    <2> DEFINE e == rf[n].entries
               i == rf[n].applied + 1
    <2>1. e \in Seq(Nat) /\ i \in Nat /\ applyCh[n] \in Seq(Nat)
      BY DEF TypeOK, RaftState
    <2>2. Has(e, i) => GetLog(e, i) \in Nat
      <3>1. ASSUME Has(e, i) PROVE GetLog(e, i) \in Nat
        <4>1. i - First(e) + 1 \in 1 .. Len(e)
          BY <2>1, <3>1 DEF Has
        <4> QED BY <2>1, <4>1 DEF GetLog
      <3> QED BY <3>1
    <2>3. applyCh' = IF Has(e, i) THEN [applyCh EXCEPT ![n] = Append(@, GetLog(e, i))] ELSE applyCh
      BY <1>2 DEF ApplySend, Deliver, Found
    <2> HIDE DEF e, i
    <2>4. Has(e, i) => Append(applyCh[n], GetLog(e, i)) \in Seq(Nat)
      BY <2>1, <2>2
    <2>5. UNCHANGED <<applied, lastIndex>>
      BY <1>2 DEF ApplySend, Deliver
    <2> QED BY <2>3, <2>4, <2>5 DEF TypeOK
  <1>3. /\ applyCh' \in [Node -> Seq(Nat)] /\ applied' \in [Node -> Nat]
        /\ lastIndex' \in [Node -> Nat]
    <2>1. CASE UNCHANGED <<applyCh, applied, lastIndex>>
      BY <2>1 DEF TypeOK
    <2>2. ASSUME NEW n \in Node, HandleCommand(n)
          PROVE  /\ applyCh' \in [Node -> Seq(Nat)] /\ applied' \in [Node -> Nat]
                 /\ lastIndex' \in [Node -> Nat]
      BY <2>2, HandleFacts DEF TypeOK
    <2>3. ASSUME NEW n \in Node, SetLastAppliedIndex(n)
          PROVE  /\ applyCh' \in [Node -> Seq(Nat)] /\ applied' \in [Node -> Nat]
                 /\ lastIndex' \in [Node -> Nat]
      BY <2>3, StoreIndexFacts DEF TypeOK
    <2> QED BY <1>2, <2>1, <2>2, <2>3, ApplySteps
  <1>4. saver' \in [Node -> SaverState] /\ snap' \in [Node -> SnapshotData]
    <2>1. CASE UNCHANGED <<saver, snap>>
      BY <2>1 DEF TypeOK
    <2>2. ASSUME NEW n \in Node, SnapCopy(n) \/ SnapWrite(n) \/ SnapCompact(n)
          PROVE  saver' \in [Node -> SaverState] /\ snap' \in [Node -> SnapshotData]
      BY <2>2, CopyFacts, WriteFacts, CompactSaverFacts DEF TypeOK
    <2> QED BY <2>1, <2>2, SaverSteps
  <1> QED BY <1>1, <1>3, <1>4 DEF TypeOK

LEMMA ChannelStep ==
    ASSUME TypeOK, KnownEntries, Next, NEW n \in Node PROVE OnTheWay(applyCh[n])'
  <1>0. /\ Len(log) \in Nat /\ Len(log') \in Nat /\ Len(log') >= Len(log)
        /\ applyCh[n] \in Seq(Nat) /\ OnTheWay(applyCh[n])
    BY LogGrows DEF TypeOK, KnownEntries
  <1>1. ASSUME applyCh'[n] = applyCh[n] PROVE OnTheWay(applyCh[n])'
    BY <1>0, <1>1 DEF OnTheWay
  <1>2. ASSUME NEW m \in Node, HandleCommand(m) PROVE OnTheWay(applyCh[n])'
    <2>1. CASE n # m
      BY <1>1, <1>2, <2>1, HandleFacts
    <2>2. CASE n = m
      <3> DEFINE q == applyCh[n]
                 t == applyCh'[n]
      <3>1. /\ \A k \in DOMAIN t : t[k] = q[k + 1]
            /\ DOMAIN t = 1 .. Len(t) /\ Len(t) = Len(q) - 1 /\ Len(q) \in Nat /\ DOMAIN q = 1 .. Len(q)
        BY <1>0, <1>2, <2>2, HandleFacts
      <3>2. \A k \in DOMAIN q : q[k] \in 1 .. Len(log)
        BY <1>0 DEF OnTheWay
      <3> HIDE DEF t, q
      <3>3. ASSUME NEW k \in DOMAIN t PROVE t[k] \in 1 .. Len(log')
        <4>1. k + 1 \in DOMAIN q
          BY <3>1
        <4>2. q[k + 1] \in 1 .. Len(log)
          BY <3>2, <4>1
        <4> QED BY <1>0, <3>1, <4>2
      <3> QED BY <3>3 DEF OnTheWay, t
    <2> QED BY <2>1, <2>2
  <1>3. ASSUME NEW m \in Node, ApplySend(m) PROVE OnTheWay(applyCh[n])'
    <2> DEFINE e == rf[n].entries
               i == rf[n].applied + 1
               x == GetLog(e, i)
               q == applyCh[n]
    <2>1. CASE n # m \/ ~ Has(e, i)
      BY <1>1, <1>3, <2>1, SendFacts
    <2>2. CASE n = m /\ Has(e, i)
      <3>1. applyCh'[n] = Append(q, x)
        BY <1>3, <2>2, SendFacts
      <3>2. e \in Seq(Nat) /\ i \in Nat /\ i >= 1 /\ Proposed(e)
        BY DEF TypeOK, RaftState, KnownEntries
      <3>3. First(e) \in Nat /\ 1 \in DOMAIN e /\ First(e) = e[1]
        <4>1. e # <<>>
          BY <2>2, <3>2 DEF Has
        <4> QED BY <3>2, <4>1 DEF First
      <3>4. i - First(e) + 1 \in DOMAIN e
        BY <2>2, <3>2, <3>3 DEF Has
      <3>5. x \in 1 .. Len(log)
        <4> DEFINE k == i - First(e) + 1
        <4>1. e[k] \in Nat /\ e[k] <= Len(log) /\ (k > 1 => e[k] # 0)
          BY <3>2, <3>4 DEF Proposed
        <4>2. k = 1 => e[k] = i
          BY <3>2, <3>3
        <4>3. k \in Nat /\ k >= 1
          BY <3>2, <3>4
        <4> HIDE DEF k, e, i
        <4>4. e[k] \in 1 .. Len(log)
          BY <1>0, <3>2, <4>1, <4>2, <4>3
        <4> QED BY <4>4 DEF GetLog, k
      <3> HIDE DEF x
      <3>6. OnTheWay(q) /\ q \in Seq(Nat) /\ x \in Nat
        BY <1>0, <3>5
      <3> HIDE DEF q
      <3>7. ASSUME NEW k \in DOMAIN Append(q, x) PROVE Append(q, x)[k] \in 1 .. Len(log')
        <4>1. (k \in DOMAIN q /\ Append(q, x)[k] = q[k]) \/ Append(q, x)[k] = x
          BY <3>6
        <4> QED BY <1>0, <3>5, <3>6, <4>1 DEF OnTheWay
      <3> QED BY <3>1, <3>7 DEF OnTheWay
    <2> QED BY <2>1, <2>2
  <1>4. ASSUME NEW m \in Node, SetLastAppliedIndex(m) PROVE OnTheWay(applyCh[n])'
    BY <1>1, <1>4, StoreIndexFacts
  <1> QED BY <1>1, <1>2, <1>3, <1>4, ApplySteps

(* No step takes back a job, and a job is new on a node only when the node   *)
(* handles the command that enqueues it.                                     *)
Hears(n, j) == HandleCommand(n) /\ log[applyCh[n][1]] = EnqueueCommand(j)

LEMMA ManagersStep ==
    ASSUME TypeOK, KnownEntries, Managers, Next
    PROVE  /\ Managers'
           /\ \A n \in Node : Later(jm[n], jm'[n])
           /\ \A n \in Node : \A j \in Job : Known(jm'[n], j) <=> Known(jm[n], j) \/ Hears(n, j)
  <1> DEFINE Goal == /\ Managers'
                     /\ \A n \in Node : Later(jm[n], jm'[n])
                     /\ \A n \in Node : \A j \in Job :
                          Known(jm'[n], j) <=> Known(jm[n], j) \/ Hears(n, j)
  <1>0. \A n \in Node : Sound(jm[n], {}) /\ jm[n] \in Manager
    BY DEF Managers
  <1>1. ASSUME NEW n \in Node, NEW r, jm' = [jm EXCEPT ![n] = r], Sound(r, {}), Later(jm[n], r),
               \A j \in Job : Known(r, j) <=> Known(jm[n], j) \/ Hears(n, j),
               \A m \in Node \ {n} : ~ HandleCommand(m)
        PROVE  Goal
    <2>1. jm'[n] = r /\ r \in Manager /\ jm' \in [Node -> Manager]
      BY <1>1 DEF Managers, Sound
    <2>2. \A m \in Node \ {n} : jm'[m] = jm[m] /\ \A j \in Job : ~ Hears(m, j)
      BY <1>1 DEF Managers, Hears
    <2>3. \A m \in Node : Sound(jm'[m], {})
      BY <1>0, <1>1, <2>1, <2>2
    <2>4. \A m \in Node : Later(jm[m], jm'[m])
      BY <1>1, <2>1, <2>2, ItselfLater
    <2>5. \A m \in Node : \A j \in Job : Known(jm'[m], j) <=> Known(jm[m], j) \/ Hears(m, j)
      BY <1>1, <2>1, <2>2
    <2> QED BY <2>1, <2>3, <2>4, <2>5 DEF Managers
  <1>2. ASSUME NEW n \in Node, HandleCommand(n) PROVE Goal
    <2> DEFINE c == log[applyCh[n][1]]
               r == Handled(jm[n], c)
    <2>1. jm' = [jm EXCEPT ![n] = r] /\ c \in Command
      BY <1>2, HandleFacts
    <2>2. ASSUME NEW m \in Node \ {n}, HandleCommand(m) PROVE FALSE
      <3>1. applied'[m] = applied[m]
        BY <1>2, HandleFacts
      <3>2. applied'[m] = applyCh[m][1] /\ applied[m] = 0 /\ applyCh[m][1] \in 1 .. Len(log)
        BY <2>2, HandleFacts
      <3>3. Len(log) \in Nat
        BY DEF TypeOK
      <3>4. applyCh[m][1] # 0
        BY <3>2, <3>3
      <3> QED BY <3>1, <3>2, <3>4
    <2>3. \A j \in Job : Hears(n, j) <=> c = EnqueueCommand(j)
      BY <1>2 DEF Hears
    <2> HIDE DEF c
    <2>4. /\ Sound(r, {}) /\ Later(jm[n], r)
          /\ \A j \in Job : Known(r, j) <=> Known(jm[n], j) \/ c = EnqueueCommand(j)
      <3>1. Sound(jm[n], {})
        BY <1>0
      <3> QED BY <2>1, <3>1, HandledSound
    <2> HIDE DEF r, Goal
    <2>5. \A j \in Job : Known(r, j) <=> Known(jm[n], j) \/ Hears(n, j)
      BY <2>3, <2>4
    <2> QED BY <1>1, <2>1, <2>2, <2>4, <2>5
  <1>3. CASE \A n \in Node : ~ HandleCommand(n)
    <2>0. \A n \in Node : \A j \in Job : ~ Hears(n, j)
      BY <1>3 DEF Hears
    <2>1. ASSUME NEW n \in Node, NEW r, jm' = [jm EXCEPT ![n] = r], Sound(r, {}),
                 Later(jm[n], r), SameJobs(jm[n], r)
          PROVE  Goal
      <3>1. \A j \in Job : Known(r, j) <=> Known(jm[n], j) \/ Hears(n, j)
        BY <2>0, <2>1 DEF SameJobs
      <3> HIDE DEF Goal
      <3> QED BY <1>1, <1>3, <2>1, <3>1
    <2>2. CASE UNCHANGED jm
      BY <1>0, <2>0, <2>2, ItselfLater DEF Managers
    <2>3. ASSUME NEW n \in Node, PollJobs(n) PROVE Goal
      <3>1. PICK k \in 0 .. Len(jm[n].queue) :
              jm' = [jm EXCEPT ![n] = MarkInFlight(PopPending(jm[n], k), Elems(Popped(jm[n], k)))]
        BY <2>3, PollFacts
      <3> DEFINE r == MarkInFlight(PopPending(jm[n], k), Elems(Popped(jm[n], k)))
      <3>2. Sound(r, {}) /\ Later(jm[n], r) /\ SameJobs(jm[n], r)
        BY <1>0, PolledSound
      <3> HIDE DEF Goal
      <3> QED BY <2>1, <3>1, <3>2
    <2>4. ASSUME NEW n \in Node, NEW j \in Job, Timeout(n, j) PROVE Goal
      <3> DEFINE b == BumpAttempt(jm[n], j)
      <3>1. PICK r : (r = MarkDead(b, j) \/ r = Requeue(b, j)) /\ jm' = [jm EXCEPT ![n] = r]
        BY <2>4, TimeoutFacts
      <3>2. j \in jm[n].inFlight
        BY <2>4, TimeoutFacts
      <3>3. Sound(r, {}) /\ Later(jm[n], r) /\ SameJobs(jm[n], r)
        BY <1>0, <3>1, <3>2, TimedOutSound
      <3> HIDE DEF Goal
      <3> QED BY <2>1, <3>1, <3>3
    <2> QED BY <1>3, <2>2, <2>3, <2>4, ManagerSteps
  <1> QED BY <1>2, <1>3


IInv == TypeOK /\ KnownEntries /\ Managers

LEMMA InitIInv == Init => IInv
  <1> SUFFICES ASSUME Init PROVE IInv
    OBVIOUS
  <1>1. NewJobManager \in Manager /\ Sound(NewJobManager, {})
    BY NewSound DEF Sound
  <1>2. NoJobs \in SnapshotData
    BY DEF NoJobs, SnapshotData, Status
  <1>3. NewRaft \in RaftState /\ NewRaft.entries = <<0>>
    <2>1. <<0>> \in Seq(Nat)
      OBVIOUS
    <2> QED BY <2>1 DEF NewRaft, RaftState
  <1>4. IdleSaver \in SaverState
    BY <1>2 DEF IdleSaver, SaverState
  <1>5. TypeOK
    BY <1>2, <1>3, <1>4 DEF Init, TypeOK
  <1>6. ASSUME NEW n \in Node PROVE Proposed(rf[n].entries) /\ OnTheWay(applyCh[n])
    <2>1. rf[n].entries = <<0>> /\ log = <<>> /\ applyCh[n] = <<>>
      BY <1>3 DEF Init
    <2>2. \A k \in DOMAIN <<0>> : k = 1 /\ <<0>>[k] = 0
      OBVIOUS
    <2>3. Len(<<>>) = 0 /\ DOMAIN <<>> = {}
      OBVIOUS
    <2> QED BY <2>1, <2>2, <2>3 DEF Proposed, OnTheWay
  <1>7. Managers
    BY <1>1 DEF Init, Managers
  <1> QED BY <1>5, <1>6, <1>7 DEF IInv, KnownEntries

LEMMA StepIInv == IInv /\ [Next]_vars => IInv'
  <1>1. ASSUME IInv, Next PROVE IInv'
    <2>1. TypeOK /\ KnownEntries /\ Managers
      BY <1>1 DEF IInv
    <2>2. TypeOK' /\ Managers'
      BY <1>1, <2>1, TypeStep, ManagersStep
    <2>3. KnownEntries'
      BY <1>1, <2>1, EntriesStep, ChannelStep DEF KnownEntries
    <2> QED BY <2>2, <2>3 DEF IInv
  <1>2. ASSUME IInv, UNCHANGED vars PROVE IInv'
    BY <1>2 DEF IInv, vars, TypeOK, KnownEntries, Proposed, OnTheWay, Managers
  <1> QED BY <1>1, <1>2

(* A node handles commands that were proposed, in the Raft mode, and its     *)
(* manager has sound indexes after every one of them, after every poll and   *)
(* every timeout.                                                            *)
THEOREM SoundReplicas == Spec => []IndexConsistency
  <1>1. IInv => IndexConsistency
    BY DEF IInv, Managers, IndexConsistency, Sound
  <1> QED BY <1>1, InitIInv, StepIInv, PTL DEF Spec

(* No node takes back a job that has ended there: not for a second ENQUEUE   *)
(* of it, not for an acknowledgement after its timeout, not by itself.       *)
THEOREM NothingRevived == Spec => NoRevival
  <1>1. ASSUME IInv, [Next]_vars PROVE [\A n \in Node : Later(jm[n], jm'[n])]_vars
    <2>1. CASE Next
      BY <1>1, <2>1, ManagersStep DEF IInv
    <2>2. CASE UNCHANGED vars
      BY <2>2
    <2> QED BY <1>1, <2>1, <2>2
  <1> QED BY <1>1, InitIInv, StepIInv, PTL DEF Spec, NoRevival


-----------------------------------------------------------------------------
(* What holds on a node as long as no compaction can have harmed its log:    *)
(* the leader, and the others until the first compaction of any node.        *)

(* The index before the first entry, and that of the last command handled.   *)
Base(n)  == IF rf[n].included = 0 THEN -1 ELSE rf[n].included
Count(n) == IF applied[n] # 0 THEN applied[n] ELSE lastIndex[n]

(* The log has no gap, and nothing in it is missing that was committed.      *)
Consecutive(n) ==
    /\ \A k \in DOMAIN rf[n].entries : rf[n].entries[k] = Base(n) + k
    /\ Base(n) + Len(rf[n].entries) <= Len(log)
    /\ n = Leader => Base(n) + Len(rf[n].entries) = Len(log)
    /\ rf[n].commit <= Base(n) + Len(rf[n].entries)

(* The channel has the commands between the manager's and Raft's index.      *)
InOrder(n) ==
    /\ \A k \in DOMAIN applyCh[n] : applyCh[n][k] = Count(n) + k
    /\ Count(n) + Len(applyCh[n]) = rf[n].applied
    /\ applied[n] # 0 => applied[n] = lastIndex[n] + 1
    /\ rf[n].included <= lastIndex[n]
    /\ rf[n].applied <= rf[n].commit
    /\ rf[n].sending => rf[n].applied < rf[n].commit

KnowsOf(n) ==
    \A j \in Job : Known(jm[n], j) <=> \E i \in 1 .. Count(n) : log[i] = EnqueueCommand(j)

(* Snapshot d has what the first c commands of log l enqueue, or it has      *)
(* ended in manager m.                                                       *)
Covers(l, m, d, c) ==
    \A i \in 1 .. c : l[i].type = "ENQUEUE" =>
       d.status[l[i].job] # "absent" \/ m.status[l[i].job] \in Terminal

Covered(n) ==
    /\ Covers(log, jm[n], snap[n], rf[n].included)
    /\ saver[n].pc # "idle" => /\ rf[n].included <= saver[n].seq /\ saver[n].seq <= lastIndex[n]
                               /\ Covers(log, jm[n], saver[n].data, saver[n].seq)
    /\ saver[n].pc = "compact" => snap[n] = saver[n].data

InGoodOrder(n) == Consecutive(n) /\ InOrder(n) /\ KnowsOf(n) /\ Covered(n)

UInv == \A n \in Unharmed : InGoodOrder(n)

(* The types of what these speak of, and what they say of numbers alone. *)
LEMMA NodeTyped ==
    ASSUME TypeOK, NEW n \in Node
    PROVE  /\ log \in Seq(Command) /\ Len(log) \in Nat /\ rf[n].entries \in Seq(Nat)
           /\ Len(rf[n].entries) \in Nat /\ rf[n].commit \in Nat /\ rf[n].applied \in Nat
           /\ rf[n].included \in Nat /\ rf[n].sending \in BOOLEAN
           /\ Base(n) \in Int /\ Count(n) \in Nat /\ applied[n] \in Nat /\ lastIndex[n] \in Nat
           /\ applyCh[n] \in Seq(Nat) /\ Len(applyCh[n]) \in Nat
  <1>1. rf[n].included \in Nat /\ rf[n].entries \in Seq(Nat) /\ applyCh[n] \in Seq(Nat)
    BY DEF TypeOK, RaftState
  <1>2. Base(n) \in Int
    BY <1>1 DEF Base
  <1>3. Count(n) \in Nat
    BY DEF Count, TypeOK
  <1> QED BY <1>1, <1>2, <1>3 DEF TypeOK, RaftState

LEMMA EndsOfLog ==
    ASSUME TypeOK, NEW n \in Node, Consecutive(n), rf[n].entries # <<>>
    PROVE  /\ First(rf[n].entries) = Base(n) + 1
           /\ Last(rf[n].entries) = Base(n) + Len(rf[n].entries)
           /\ First(rf[n].entries) \in Nat /\ Last(rf[n].entries) \in Nat
  <1> DEFINE e == rf[n].entries
  <1>1. e \in Seq(Nat) /\ e # <<>> /\ \A k \in DOMAIN e : e[k] = Base(n) + k
    BY NodeTyped DEF Consecutive
  <1> HIDE DEF e
  <1>2. 1 \in DOMAIN e /\ Len(e) \in DOMAIN e /\ Head(e) = e[1]
    BY <1>1
  <1>3. e[1] = Base(n) + 1 /\ e[Len(e)] = Base(n) + Len(e) /\ e[1] \in Nat /\ e[Len(e)] \in Nat
    BY <1>1, <1>2
  <1> QED BY <1>2, <1>3 DEF First, Last, e

LEMMA UnharmedShrinks ==
    ASSUME TypeOK, Next PROVE Unharmed' \subseteq Unharmed
  <1>1. ASSUME NEW m \in Node PROVE rf'[m].included = 0 => rf[m].included = 0
    <2>1. ASSUME NEW n \in Node, SnapCompact(n) PROVE rf'[m].included = 0 => rf[m].included = 0
      <3>1. rf[n].included \in Nat /\ saver[n].seq \in Nat
        BY DEF TypeOK, RaftState, SaverState
      <3>2. n # m => rf'[m] = rf[m]
        BY <2>1, CompactFacts
      <3>3. rf'[n] = rf[n] \/ (rf'[n].included = saver[n].seq /\ saver[n].seq > rf[n].included)
        BY <2>1, CompactFacts
      <3> QED BY <3>1, <3>2, <3>3
    <2>2. ASSUME NEW n \in Node, AppendEntries(n) \/ ApplyLogs(n) \/ ApplySend(n)
          PROVE  rf'[m].included = rf[m].included
      BY <2>2, AppendFacts, ApplyFacts, SendFacts
    <2>3. ASSUME NEW c \in Command, Propose(c) PROVE rf'[m].included = rf[m].included
      BY <2>3, ProposeFacts
    <2>4. Commit => rf'[m].included = rf[m].included
      BY CommitFacts
    <2> QED BY <2>1, <2>2, <2>3, <2>4, RaftSteps
  <1> QED BY <1>1 DEF Unharmed

(* On such a node AppendEntries leaves a log from 0 on, and no index falls.  *)
LEMMA AppendUnharmed ==
    ASSUME TypeOK, NEW n \in Node, AppendEntries(n), n \in Unharmed, Consecutive(n)
    PROVE  /\ rf[n].included = 0 /\ rf'[n].included = 0 /\ n # Leader
           /\ \A k \in DOMAIN rf'[n].entries : rf'[n].entries[k] = -1 + k
           /\ Len(rf'[n].entries) \in Nat /\ -1 + Len(rf'[n].entries) <= Len(log)
           /\ rf[n].commit <= rf'[n].commit /\ rf'[n].commit <= -1 + Len(rf'[n].entries)
  <1> DEFINE e == rf[n].entries
             b == Base(n)
             s == rf'[n].entries
  <1>t. /\ Len(log) \in Nat /\ e \in Seq(Nat) /\ Len(e) \in Nat /\ rf[n].commit \in Nat
    BY NodeTyped
  <1>c. /\ \A k \in DOMAIN e : e[k] = b + k
        /\ b + Len(e) <= Len(log) /\ rf[n].commit <= b + Len(e)
    BY DEF Consecutive
  <1>1. /\ n # Leader /\ e # <<>> /\ rf'[n].included = rf[n].included
        /\ \/ rf'[n].commit = rf[n].commit
           \/ rf'[n].commit = Last(s)
           \/ (rf[n].commit < rf'[n].commit /\ rf'[n].commit <= Last(s))
        /\ rf'[n].commit \in Nat /\ s \in Seq(Nat)
    BY AppendFacts
  <1>2. \A x \in Node : rf[x].included = 0
    BY <1>1 DEF Unharmed
  <1>3. b = -1
    BY <1>2 DEF Base
  <1>4. Last(e) = Len(e) - 1
    <2>1. Last(e) = b + Len(e)
      BY <1>1, EndsOfLog
    <2> QED BY <1>t, <1>3, <2>1
  <1>5. rf[Leader].included = 0
    BY <1>2, ReplicaAssumption
  <1>6. PICK last \in 0 .. Len(log), from \in Nat, sent \in Seq(Nat) :
          /\ from <= last
          /\ sent = [i \in 1 .. last - from |-> from + i]
          /\ s = Stored(e, sent)
          /\ from <= Last(e)
    BY <1>5, AppendFacts
  <1> HIDE DEF s, e, b
  <1>7. e \in Seq(Nat) /\ (\A k \in DOMAIN e : e[k] = k - 1) /\ from < Len(e) /\ last \in Nat
    BY <1>t, <1>c, <1>3, <1>4, <1>6
  <1>8. /\ \A k \in DOMAIN s : s[k] = k - 1
        /\ Len(s) = Len(e) \/ Len(s) = last + 1
    <2>1. /\ e \in Seq(Nat) /\ \A k \in DOMAIN e : e[k] = k - 1
          /\ from \in Nat /\ from < Len(e) /\ last \in Nat /\ from <= last
          /\ sent \in Seq(Nat) /\ Len(sent) = last - from
          /\ \A i \in DOMAIN sent : sent[i] = from + i
          /\ s = Stored(e, sent)
      BY <1>6, <1>7
    <2>2. \A k \in DOMAIN s : s[k] = k - 1
      BY <2>1, StoredConsecutive
    <2>3. Len(s) = Len(e) \/ Len(s) = last + 1
      BY <2>1, StoredConsecutive
    <2> QED BY <2>2, <2>3
  <1>9. Len(s) >= Len(e)
    BY <1>6, <1>7, StoredFields
  <1>10. Last(s) = Len(s) - 1 /\ Len(s) \in Nat
    <2>1. Len(s) \in DOMAIN s /\ Len(s) \in Nat
      BY <1>t, <1>1, <1>9, <1>7
    <2> QED BY <1>8, <2>1 DEF Last
  <1>11. -1 + Len(s) <= Len(log)
    BY <1>t, <1>c, <1>3, <1>6, <1>8, <1>10
  <1>12. rf[n].commit <= rf'[n].commit /\ rf'[n].commit <= -1 + Len(s)
    <2> DEFINE x == rf[n].commit
               y == rf'[n].commit
               l == Len(s)
    <2>1. x <= -1 + l
      BY <1>t, <1>c, <1>3, <1>9, <1>10
    <2>2. /\ x \in Nat /\ y \in Nat /\ l \in Nat
          /\ y = x \/ y = l - 1 \/ (x < y /\ y <= l - 1)
      BY <1>t, <1>1, <1>10
    <2> HIDE DEF x, y, l
    <2>3. x <= y /\ y <= -1 + l
      BY <2>1, <2>2
    <2> QED BY <2>3 DEF x, y, l
  <1>13. \A k \in DOMAIN s : s[k] = -1 + k
    BY <1>1, <1>8
  <1>14. rf[n].included = 0 /\ rf'[n].included = 0
    BY <1>1, <1>2
  <1> QED BY <1>1, <1>10, <1>11, <1>12, <1>13, <1>14 DEF s

LEMMA ConsecutiveStep ==
    ASSUME IInv, Next, NEW n \in Node, n \in Unharmed, n \in Unharmed', Consecutive(n)
    PROVE  Consecutive(n)'
  <1> DEFINE e == rf[n].entries
             b == Base(n)
             s == rf'[n].entries
  <1>0. TypeOK
    BY DEF IInv
  <1>t. /\ log \in Seq(Command) /\ Len(log) \in Nat /\ e \in Seq(Nat) /\ Len(e) \in Nat
        /\ rf[n].commit \in Nat /\ b \in Int /\ rf[n].included \in Nat
        /\ Len(log') \in Nat /\ Len(log') >= Len(log)
    BY <1>0, NodeTyped, LogGrows
  <1>c. /\ \A k \in DOMAIN e : e[k] = b + k
        /\ b + Len(e) <= Len(log) /\ (n = Leader => b + Len(e) = Len(log))
        /\ rf[n].commit <= b + Len(e)
    BY DEF Consecutive
  <1>1. ASSUME rf'[n].entries = rf[n].entries, rf'[n].included = rf[n].included,
               rf'[n].commit <= b + Len(e), n = Leader => log' = log
        PROVE  Consecutive(n)'
    <2>1. Base(n)' = b
      BY <1>1 DEF Base
    <2> QED BY <1>1, <1>t, <1>c, <2>1 DEF Consecutive
  <1>2. ASSUME NEW c \in Command, Propose(c) PROVE Consecutive(n)'
    <2>1. CASE n # Leader
      BY <1>0, <1>1, <1>2, <1>c, <2>1, ProposeFacts
    <2>2. CASE n = Leader
      <3>1. /\ s = e \o <<Len(log) + 1>> /\ Len(log') = Len(log) + 1
            /\ rf'[n].included = rf[n].included /\ rf'[n].commit = rf[n].commit
        BY <1>0, <1>2, <2>2, ProposeFacts
      <3>2. Base(n)' = b
        BY <3>1 DEF Base
      <3>3. Len(log) + 1 \in Nat /\ e \in Seq(Nat)
        BY <1>t
      <3> HIDE DEF s, e, b
      <3>4. /\ s \in Seq(Nat) /\ Len(s) = Len(e) + 1
            /\ \A i \in 1 .. Len(e) : s[i] = e[i]
            /\ s[Len(e) + 1] = Len(log) + 1
        BY <3>1, <3>3, AppendedFields
      <3>5. ASSUME NEW k \in DOMAIN s PROVE s[k] = b + k
        <4>1. k \in 1 .. Len(e) \/ k = Len(e) + 1
          BY <1>t, <3>4
        <4>2. CASE k \in 1 .. Len(e)
          <5>1. s[k] = e[k] /\ e[k] = b + k
            BY <1>t, <1>c, <3>4, <4>2
          <5> QED BY <5>1
        <4>3. CASE k = Len(e) + 1
          <5>1. s[k] = Len(log) + 1 /\ b + Len(e) = Len(log)
            BY <1>c, <2>2, <3>4, <4>3
          <5> QED BY <1>t, <4>3, <5>1
        <4> QED BY <4>1, <4>2, <4>3
      <3>6. /\ b + Len(s) = Len(log') /\ rf'[n].commit <= b + Len(s)
        BY <1>t, <1>c, <2>2, <3>1, <3>4
      <3>7. b + Len(s) <= Len(log')
        BY <1>t, <3>6
      <3> QED BY <3>2, <3>5, <3>6, <3>7 DEF Consecutive, s
    <2> QED BY <2>1, <2>2
  <1>3. ASSUME NEW m \in Node, AppendEntries(m), UNCHANGED log PROVE Consecutive(n)'
    <2>1. CASE n # m
      BY <1>0, <1>1, <1>3, <1>c, <2>1, AppendFacts
    <2>2. CASE n = m
      <3>1. /\ rf'[n].included = 0 /\ n # Leader
            /\ \A k \in DOMAIN s : s[k] = -1 + k
            /\ -1 + Len(s) <= Len(log) /\ rf'[n].commit <= -1 + Len(s)
        BY <1>0, <1>3, <2>2, AppendUnharmed
      <3>2. Base(n)' = -1
        BY <3>1 DEF Base
      <3> QED BY <1>3, <3>1, <3>2 DEF Consecutive
    <2> QED BY <2>1, <2>2
  <1>4. ASSUME NEW m \in Node, SnapCompact(m), UNCHANGED log PROVE Consecutive(n)'
    <2>1. CASE n # m \/ rf'[n] = rf[n]
      BY <1>0, <1>1, <1>4, <1>c, <2>1, CompactFacts
    <2>2. CASE n = m /\ rf'[n] # rf[n]
      <3> DEFINE i == saver[n].seq
      <3>1. /\ e # <<>> /\ i > rf[n].included /\ Has(e, i) /\ rf'[n].included = i
            /\ s = DeleteRange(e, First(e), i) /\ rf'[n].commit = rf[n].commit
        BY <1>0, <1>4, <2>2, CompactFacts
      <3>2. First(e) = b + 1
        BY <1>0, <3>1, EndsOfLog
      <3>3. i \in Nat /\ i # 0
        BY <1>0, <1>t, <3>1 DEF TypeOK, SaverState
      <3>4. Base(n)' = i
        BY <3>1, <3>3 DEF Base
      <3> HIDE DEF e, b, s, i
      <3>5. i \in b + 1 .. b + Len(e)
        BY <1>t, <3>1, <3>2, <3>3 DEF Has
      <3>6. Len(s) = b + Len(e) - i /\ \A k \in DOMAIN s : s[k] = i + k
        <4>1. s = DeleteRange(e, b + 1, i)
          BY <3>1, <3>2
        <4>2. e \in Seq(Nat) /\ b \in Int /\ \A k \in DOMAIN e : e[k] = b + k
          BY <1>t, <1>c
        <4> QED BY <3>5, <4>1, <4>2, DeleteRangeConsecutive
      <3>7. i + Len(s) = b + Len(e)
        BY <1>t, <3>3, <3>6
      <3> QED BY <1>4, <1>c, <3>1, <3>4, <3>6, <3>7 DEF Consecutive, s, e, b
    <2> QED BY <2>1, <2>2
  <1>5. ASSUME Commit, UNCHANGED log PROVE Consecutive(n)'
    <2>1. CASE n # Leader
      BY <1>0, <1>1, <1>5, <1>c, <2>1, CommitFacts
    <2>2. CASE n = Leader
      <3>1. e # <<>> /\ rf'[n].entries = e /\ rf'[n].included = rf[n].included
            /\ rf'[n].commit <= Last(e)
        BY <1>0, <1>5, <2>2, CommitFacts
      <3>2. Last(e) = b + Len(e)
        BY <1>0, <3>1, EndsOfLog
      <3> QED BY <1>1, <1>5, <3>1, <3>2
    <2> QED BY <2>1, <2>2
  <1>6. ASSUME NEW m \in Node, ApplyLogs(m) \/ ApplySend(m), UNCHANGED log PROVE Consecutive(n)'
    <2>1. /\ rf'[n].entries = rf[n].entries /\ rf'[n].included = rf[n].included
          /\ rf'[n].commit = rf[n].commit
      BY <1>0, <1>6, ApplyFacts, SendFacts
    <2> QED BY <1>1, <1>6, <1>c, <2>1
  <1>7. CASE UNCHANGED <<log, rf>>
    BY <1>1, <1>7, <1>c
  <1> QED BY <1>0, <1>2, <1>3, <1>4, <1>5, <1>6, <1>7, RaftSteps


LEMMA InOrderStep ==
    ASSUME IInv, Next, NEW n \in Node, n \in Unharmed, InGoodOrder(n)
    PROVE  InOrder(n)'
  <1> DEFINE e == rf[n].entries
             b == Base(n)
             q == applyCh[n]
             c == Count(n)
             i == rf[n].applied + 1
  <1>0. TypeOK /\ KnownEntries /\ Consecutive(n) /\ InOrder(n)
    BY DEF IInv, InGoodOrder
  <1>t. /\ e \in Seq(Nat) /\ Len(e) \in Nat /\ rf[n].commit \in Nat /\ b \in Int
        /\ rf[n].included \in Nat /\ rf[n].applied \in Nat /\ lastIndex[n] \in Nat
        /\ applied[n] \in Nat /\ q \in Seq(Nat) /\ Len(q) \in Nat /\ c \in Nat /\ i \in Nat
        /\ Len(log) \in Nat /\ rf[n].sending \in BOOLEAN
    BY <1>0, NodeTyped
  <1>c. /\ \A k \in DOMAIN q : q[k] = c + k
        /\ c + Len(q) = rf[n].applied
        /\ applied[n] # 0 => applied[n] = lastIndex[n] + 1
        /\ rf[n].included <= lastIndex[n]
        /\ rf[n].applied <= rf[n].commit
        /\ rf[n].sending => rf[n].applied < rf[n].commit
    BY <1>0 DEF InOrder
  <1>d. /\ \A k \in DOMAIN e : e[k] = b + k
        /\ rf[n].commit <= b + Len(e)
    BY <1>0 DEF Consecutive
  <1>1. ASSUME NEW m \in Node, HandleCommand(m) PROVE InOrder(n)'
    <2>0. UNCHANGED rf /\ UNCHANGED lastIndex
      BY <1>0, <1>1, HandleFacts
    <2>1. CASE n # m
      <3>1. applyCh'[n] = applyCh[n] /\ applied'[n] = applied[n]
        BY <1>0, <1>1, <2>1, HandleFacts
      <3> QED BY <1>0, <2>0, <3>1 DEF InOrder, Count
    <2>2. CASE n = m
      <3> DEFINE t == applyCh'[n]
      <3>1. /\ applied[n] = 0 /\ Len(q) >= 1 /\ q[1] \in 1 .. Len(log)
            /\ applied'[n] = q[1] /\ Len(t) = Len(q) - 1
            /\ \A k \in DOMAIN t : t[k] = q[k + 1]
            /\ DOMAIN t = 1 .. Len(t)
        BY <1>0, <1>1, <2>2, HandleFacts
      <3>2. c = lastIndex[n] /\ q[1] = c + 1 /\ q[1] # 0
        <4>1. 1 \in DOMAIN q
          BY <1>t, <3>1
        <4> QED BY <1>t, <1>c, <3>1, <4>1 DEF Count
      <3>3. Count(n)' = c + 1 /\ applied'[n] = lastIndex'[n] + 1
        BY <2>0, <3>1, <3>2 DEF Count
      <3> HIDE DEF t, q, c
      <3>4. ASSUME NEW k \in DOMAIN t PROVE t[k] = (c + 1) + k
        <4>1. k + 1 \in DOMAIN q /\ k \in Nat
          BY <1>t, <3>1
        <4>2. q[k + 1] = c + (k + 1)
          BY <1>c, <4>1
        <4> QED BY <1>t, <3>1, <4>1, <4>2
      <3>5. (c + 1) + Len(t) = rf[n].applied
        BY <1>t, <1>c, <3>1
      <3> QED BY <1>c, <2>0, <3>3, <3>4, <3>5 DEF InOrder, t
    <2> QED BY <2>1, <2>2
  <1>2. ASSUME NEW m \in Node, SetLastAppliedIndex(m) PROVE InOrder(n)'
    <2>0. UNCHANGED rf /\ UNCHANGED applyCh
      BY <1>0, <1>2, StoreIndexFacts
    <2>1. CASE n # m
      <3>1. lastIndex'[n] = lastIndex[n] /\ applied'[n] = applied[n]
        BY <1>0, <1>2, <2>1, StoreIndexFacts
      <3> QED BY <1>0, <2>0, <3>1 DEF InOrder, Count
    <2>2. CASE n = m
      <3>1. applied[n] # 0 /\ applied'[n] = 0 /\ lastIndex'[n] = applied[n]
        BY <1>0, <1>2, <2>2, StoreIndexFacts
      <3>2. Count(n)' = c
        BY <3>1 DEF Count
      <3>3. rf[n].included <= lastIndex'[n]
        BY <1>t, <1>c, <3>1
      <3> HIDE DEF c
      <3> QED BY <1>c, <2>0, <3>1, <3>2, <3>3 DEF InOrder
    <2> QED BY <2>1, <2>2
  <1>3. ASSUME NEW m \in Node, ApplySend(m) PROVE InOrder(n)'
    <2>0. UNCHANGED applied /\ UNCHANGED lastIndex
      BY <1>3 DEF ApplySend, Deliver
    <2>1. CASE n # m
      <3>1. applyCh'[n] = applyCh[n] /\ rf'[n] = rf[n]
        BY <1>0, <1>3, <2>1, SendFacts
      <3> QED BY <1>0, <2>0, <3>1 DEF InOrder, Count
    <2>2. CASE n = m
      <3> DEFINE x == GetLog(e, i)
      <3>1. /\ rf[n].sending /\ rf'[n].applied = i /\ rf'[n].sending = (i < rf[n].commit)
            /\ rf'[n].commit = rf[n].commit /\ rf'[n].included = rf[n].included
            /\ IF Has(e, i) THEN applyCh'[n] = Append(q, x) ELSE applyCh'[n] = q
        BY <1>0, <1>3, <2>2, SendFacts
      <3>2. i <= rf[n].commit /\ i <= b + Len(e) /\ i >= b + 1
        <4>1. rf[n].applied < rf[n].commit
          BY <1>c, <3>1
        <4>2. rf[n].included <= rf[n].applied
          <5>1. lastIndex[n] <= c
            BY <1>t, <1>c DEF Count
          <5> HIDE DEF c
          <5> QED BY <1>t, <1>c, <5>1
        <4>3. b <= rf[n].included
          BY <1>t DEF Base
        <4> DEFINE ap == rf[n].applied
                   co == rf[n].commit
                   inc == rf[n].included
                   l == Len(e)
        <4>4. /\ ap \in Nat /\ co \in Nat /\ inc \in Nat /\ l \in Nat /\ b \in Int
              /\ i = ap + 1 /\ ap < co /\ inc <= ap /\ b <= inc /\ co <= b + l
          BY <1>t, <1>d, <4>1, <4>2, <4>3
        <4> HIDE DEF ap, co, inc, l, b, i
        <4>5. i <= co /\ i <= b + l /\ i >= b + 1
          BY <4>4
        <4> QED BY <4>5 DEF co, l
      <3>3. e # <<>>
        <4>1. Len(e) # 0
          <5> HIDE DEF e, b, i
          <5> QED BY <1>t, <3>2
        <4> QED BY <1>t, <4>1
      <3>4. First(e) = b + 1
        BY <1>0, <3>3, EndsOfLog
      <3>5. Has(e, i)
        <4> HIDE DEF e, b, i
        <4> QED BY <1>t, <3>2, <3>4 DEF Has
      <3>6. x = i
        <4> HIDE DEF e, b, i
        <4>1. i - First(e) + 1 = i - b /\ i - b \in 1 .. Len(e)
          BY <1>t, <3>2, <3>4
        <4>2. e[i - b] = b + (i - b)
          BY <1>d, <4>1
        <4> QED BY <1>t, <4>1, <4>2 DEF GetLog
      <3>7. applyCh'[n] = Append(q, i) /\ Count(n)' = c
        BY <2>0, <3>1, <3>5, <3>6 DEF Count
      <3>8. i = c + (Len(q) + 1)
        <4> HIDE DEF c
        <4> QED BY <1>t, <1>c
      <3> HIDE DEF x, q, c
      <3>9. /\ Append(q, i) \in Seq(Nat) /\ Len(Append(q, i)) = Len(q) + 1
            /\ \A k \in DOMAIN Append(q, i) :
                 (k \in DOMAIN q /\ Append(q, i)[k] = q[k]) \/ (k = Len(q) + 1 /\ Append(q, i)[k] = i)
        <4> HIDE DEF i
        <4> QED BY <1>t
      <3>10. \A k \in DOMAIN Append(q, i) : Append(q, i)[k] = c + k
        <4> HIDE DEF i
        <4> QED BY <1>c, <3>8, <3>9
      <3>11. c + Len(Append(q, i)) = i
        <4> HIDE DEF i
        <4> QED BY <1>t, <3>8, <3>9
      <3> HIDE DEF i
      <3> QED BY <1>c, <2>0, <3>1, <3>2, <3>7, <3>10, <3>11 DEF InOrder
    <2> QED BY <2>1, <2>2
  <1>4. CASE UNCHANGED <<applyCh, applied, lastIndex>> /\ \A m \in Node : ~ ApplySend(m)
    <2>1. Count(n)' = c
      BY <1>4 DEF Count
    <2> DEFINE r == rf'[n]
    <2>2. ASSUME r.applied = rf[n].applied, r.included <= lastIndex[n],
                 rf[n].applied <= r.commit, r.sending => r.applied < r.commit
          PROVE  InOrder(n)'
      <3> HIDE DEF c
      <3> QED BY <1>4, <1>c, <2>1, <2>2 DEF InOrder
    <2>3. ASSUME rf'[n].applied = rf[n].applied, rf'[n].included = rf[n].included,
                 rf'[n].commit = rf[n].commit, rf'[n].sending = rf[n].sending
          PROVE  InOrder(n)'
      BY <1>c, <2>2, <2>3
    <2>4. ASSUME NEW x \in Command, Propose(x) PROVE InOrder(n)'
      <3>1. CASE n # Leader
        BY <1>0, <2>3, <2>4, <3>1, ProposeFacts
      <3>2. CASE n = Leader
        BY <1>0, <2>3, <2>4, <3>2, ProposeFacts
      <3> QED BY <3>1, <3>2
    <2>5. ASSUME NEW m \in Node, AppendEntries(m) PROVE InOrder(n)'
      <3>1. CASE n # m
        BY <1>0, <2>3, <2>5, <3>1, AppendFacts
      <3>2. CASE n = m
        <4>1. r.applied = rf[n].applied /\ r.included = rf[n].included /\ r.sending = FALSE
          BY <1>0, <2>5, <3>2, AppendFacts
        <4>2. rf[n].commit <= r.commit /\ r.commit \in Nat
          BY <1>0, <2>5, <3>2, AppendUnharmed, AppendFacts
        <4> QED BY <1>t, <1>c, <2>2, <4>1, <4>2
      <3> QED BY <3>1, <3>2
    <2>6. ASSUME Commit PROVE InOrder(n)'
      <3>1. CASE n # Leader
        BY <1>0, <2>3, <2>6, <3>1, CommitFacts
      <3>2. CASE n = Leader
        <4>1. /\ r.applied = rf[n].applied /\ r.included = rf[n].included /\ r.sending = FALSE
              /\ rf[n].commit < r.commit /\ r.commit \in Nat
          <5>1. rf'[n] \in RaftState
            BY <1>0, <2>6, CommitFacts
          <5>2. r.commit \in Nat
            BY <5>1 DEF RaftState
          <5>3. r.applied = rf[n].applied /\ r.included = rf[n].included
            BY <1>0, <2>6, <3>2, CommitFacts
          <5>4. r.sending = FALSE /\ rf[n].commit < r.commit
            BY <1>0, <2>6, <3>2, CommitFacts
          <5> QED BY <5>2, <5>3, <5>4
        <4>2. rf[n].applied <= r.commit
          BY <1>t, <1>c, <4>1
        <4> QED BY <1>c, <2>2, <4>1, <4>2
      <3> QED BY <3>1, <3>2
    <2>7. ASSUME NEW m \in Node, ApplyLogs(m) PROVE InOrder(n)'
      <3>1. CASE n # m
        BY <1>0, <2>3, <2>7, <3>1, ApplyFacts
      <3>2. CASE n = m
        <4>1. /\ r.applied = rf[n].applied /\ r.included = rf[n].included
              /\ r.commit = rf[n].commit /\ rf[n].applied < rf[n].commit
          BY <1>0, <2>7, <3>2, ApplyFacts
        <4> QED BY <1>c, <2>2, <4>1
      <3> QED BY <3>1, <3>2
    <2>8. ASSUME NEW m \in Node, SnapCompact(m) PROVE InOrder(n)'
      <3>1. CASE n # m \/ rf'[n] = rf[n]
        BY <1>0, <2>3, <2>8, <3>1, CompactFacts
      <3>2. CASE n = m /\ rf'[n] # rf[n]
        <4>1. /\ r.applied = rf[n].applied /\ r.commit = rf[n].commit
              /\ r.sending = rf[n].sending /\ r.included = saver[n].seq
              /\ saver[n].pc = "compact"
          BY <1>0, <2>8, <3>2, CompactFacts, CompactSaverFacts
        <4>2. r.included <= lastIndex[n]
          BY <4>1 DEF InGoodOrder, Covered
        <4> QED BY <1>c, <2>2, <4>1, <4>2
      <3> QED BY <3>1, <3>2
    <2>9. CASE UNCHANGED rf
      BY <2>3, <2>9
    <2> QED BY <1>0, <1>4, <2>4, <2>5, <2>6, <2>7, <2>8, <2>9, RaftSteps
  <1> QED BY <1>1, <1>2, <1>3, <1>4, ApplySteps


(* The commands a node has handled, or has in its snapshot, are in the log.  *)
LEMMA CountInLog ==
    ASSUME TypeOK, NEW n \in Node, InGoodOrder(n)
    PROVE  /\ Count(n) <= Len(log) /\ lastIndex[n] <= Count(n)
           /\ rf[n].included <= lastIndex[n]
  <1>t. /\ Len(rf[n].entries) \in Nat /\ rf[n].commit \in Nat /\ rf[n].applied \in Nat
        /\ rf[n].included \in Nat /\ Base(n) \in Int /\ Count(n) \in Nat
        /\ lastIndex[n] \in Nat /\ applied[n] \in Nat /\ Len(applyCh[n]) \in Nat /\ Len(log) \in Nat
    BY NodeTyped
  <1>1. /\ Base(n) + Len(rf[n].entries) <= Len(log)
        /\ rf[n].commit <= Base(n) + Len(rf[n].entries)
        /\ Count(n) + Len(applyCh[n]) = rf[n].applied
        /\ applied[n] # 0 => applied[n] = lastIndex[n] + 1
        /\ rf[n].included <= lastIndex[n] /\ rf[n].applied <= rf[n].commit
    BY DEF InGoodOrder, Consecutive, InOrder
  <1>2. lastIndex[n] <= Count(n)
    BY <1>t, <1>1 DEF Count
  <1>3. Count(n) <= rf[n].applied
    BY <1>t, <1>1
  <1>4. Count(n) <= Len(log)
    BY <1>t, <1>1, <1>3
  <1> QED BY <1>1, <1>2, <1>4

(* applyLoop takes the next command, and so the count grows by it.           *)
LEMMA CountStep ==
    ASSUME IInv, Next, NEW n \in Node, InGoodOrder(n)
    PROVE  \/ HandleCommand(n) /\ Count(n)' = Count(n) + 1 /\ applyCh[n][1] = Count(n) + 1
           \/ ~ HandleCommand(n) /\ Count(n)' = Count(n)
  <1>0. TypeOK /\ KnownEntries /\ InOrder(n)
    BY DEF IInv, InGoodOrder
  <1>1. CASE HandleCommand(n)
    <2>1. /\ applied[n] = 0 /\ applied'[n] = applyCh[n][1]
          /\ Len(applyCh[n]) \in Nat /\ Len(applyCh[n]) >= 1 /\ applyCh[n][1] \in 1 .. Len(log)
      BY <1>0, <1>1, HandleFacts
    <2>2. Len(log) \in Nat /\ applyCh[n] \in Seq(Nat)
      BY <1>0, NodeTyped
    <2>3. 1 \in DOMAIN applyCh[n]
      BY <2>1, <2>2
    <2>4. applyCh[n][1] = Count(n) + 1
      BY <1>0, <2>3 DEF InOrder
    <2>5. applyCh[n][1] # 0
      BY <2>1, <2>2
    <2>6. Count(n)' = applyCh[n][1]
      BY <2>1, <2>5 DEF Count
    <2> QED BY <1>1, <2>4, <2>6
  <1>2. CASE ~ HandleCommand(n)
    <2>1. ASSUME NEW m \in Node, SetLastAppliedIndex(m) PROVE Count(n)' = Count(n)
      <3>1. CASE n = m
        <4>1. applied[n] # 0 /\ applied'[n] = 0 /\ lastIndex'[n] = applied[n]
          BY <1>0, <2>1, <3>1, StoreIndexFacts
        <4> QED BY <4>1 DEF Count
      <3>2. CASE n # m
        <4>1. applied'[n] = applied[n] /\ lastIndex'[n] = lastIndex[n]
          BY <1>0, <2>1, <3>2, StoreIndexFacts
        <4> QED BY <4>1 DEF Count
      <3> QED BY <3>1, <3>2
    <2>2. ASSUME NEW m \in Node, HandleCommand(m) PROVE Count(n)' = Count(n)
      <3>1. n # m
        BY <1>2, <2>2
      <3>2. applied'[n] = applied[n] /\ lastIndex'[n] = lastIndex[n]
        BY <1>0, <2>2, <3>1, HandleFacts
      <3> QED BY <3>2 DEF Count
    <2>3. ASSUME NEW m \in Node, ApplySend(m) PROVE Count(n)' = Count(n)
      <3>1. UNCHANGED <<applied, lastIndex>>
        BY <2>3 DEF ApplySend, Deliver
      <3> QED BY <3>1 DEF Count
    <2>4. CASE UNCHANGED <<applyCh, applied, lastIndex>>
      BY <1>2, <2>4 DEF Count
    <2>5. Count(n)' = Count(n)
      BY <2>1, <2>2, <2>3, <2>4, ApplySteps DEF Count
    <2> QED BY <1>2, <2>5
  <1> QED BY <1>1, <1>2

LEMMA KnowsOfStep ==
    ASSUME IInv, Next, NEW n \in Node, InGoodOrder(n) PROVE KnowsOf(n)'
  <1> DEFINE c == Count(n)
             d == Count(n)'
  <1>0. TypeOK /\ KnownEntries /\ Managers /\ KnowsOf(n)
    BY DEF IInv, InGoodOrder
  <1>1. c \in Nat /\ c <= Len(log) /\ Len(log) \in Nat
    BY <1>0, NodeTyped, CountInLog
  <1>2. \A i \in 1 .. c : log'[i] = log[i]
    BY <1>0, <1>1, LogGrows
  <1>3. \A j \in Job : Known(jm'[n], j) <=> Known(jm[n], j) \/ Hears(n, j)
    BY <1>0, ManagersStep
  <1>4. \A j \in Job : Known(jm[n], j) <=> \E i \in 1 .. c : log[i] = EnqueueCommand(j)
    BY <1>0 DEF KnowsOf
  <1>5. \/ HandleCommand(n) /\ d = c + 1 /\ applyCh[n][1] = c + 1
        \/ ~ HandleCommand(n) /\ d = c
    BY CountStep
  <1>6. CASE HandleCommand(n)
    <2>1. d = c + 1 /\ applyCh[n][1] = c + 1
      BY <1>5, <1>6
    <2>2. UNCHANGED log
      BY <1>0, <1>6, HandleFacts
    <2> HIDE DEF c, d
    <2>3. \A i \in 1 .. d : i \in 1 .. c \/ i = c + 1
      BY <1>1, <2>1
    <2>4. 1 .. c \subseteq 1 .. d /\ c + 1 \in 1 .. d
      BY <1>1, <2>1
    <2>5. ASSUME NEW j \in Job
          PROVE  Known(jm'[n], j) <=> \E i \in 1 .. d : log'[i] = EnqueueCommand(j)
      <3>1. Hears(n, j) <=> log[c + 1] = EnqueueCommand(j)
        BY <1>6, <2>1 DEF Hears
      <3>2. (\E i \in 1 .. d : log[i] = EnqueueCommand(j))
              <=> (\E i \in 1 .. c : log[i] = EnqueueCommand(j)) \/ log[c + 1] = EnqueueCommand(j)
        BY <2>3, <2>4
      <3> QED BY <1>3, <1>4, <2>2, <3>1, <3>2
    <2> QED BY <2>5 DEF KnowsOf, d
  <1>7. CASE ~ HandleCommand(n)
    <2>1. d = c
      BY <1>5, <1>7
    <2> HIDE DEF c, d
    <2>2. ASSUME NEW j \in Job
          PROVE  Known(jm'[n], j) <=> \E i \in 1 .. d : log'[i] = EnqueueCommand(j)
      <3>1. ~ Hears(n, j)
        BY <1>7 DEF Hears
      <3>2. (\E i \in 1 .. d : log'[i] = EnqueueCommand(j))
              <=> (\E i \in 1 .. c : log[i] = EnqueueCommand(j))
        BY <1>2, <2>1
      <3> QED BY <1>3, <1>4, <3>1, <3>2
    <2> QED BY <2>2 DEF KnowsOf, d
  <1> QED BY <1>6, <1>7

(* What a snapshot covers it goes on covering: commands stay where they are, *)
(* and what has ended stays so.                                              *)
LEMMA CoversStays ==
    ASSUME IInv, Next, NEW n \in Node, NEW d, NEW c \in Nat, c <= Len(log), Covers(log, jm[n], d, c)
    PROVE  Covers(log', jm'[n], d, c)
  <1>0. TypeOK /\ Len(log) \in Nat /\ log \in Seq(Command)
    BY NodeTyped DEF IInv, TypeOK
  <1>1. Later(jm[n], jm'[n])
    BY ManagersStep DEF IInv
  <1>2. ASSUME NEW i \in 1 .. c, log'[i].type = "ENQUEUE"
        PROVE  d.status[log'[i].job] # "absent" \/ jm'[n].status[log'[i].job] \in Terminal
    <2>1. log'[i] = log[i]
      BY <1>0, LogGrows
    <2>2. log[i] \in Command
      BY <1>0
    <2>3. log[i].job \in Job
      BY <2>2 DEF Command
    <2>4. d.status[log[i].job] # "absent" \/ jm[n].status[log[i].job] \in Terminal
      BY <1>2, <2>1 DEF Covers
    <2> QED BY <1>1, <2>1, <2>3, <2>4 DEF Later
  <1> QED BY <1>2 DEF Covers

(* The copy takeSnapshot makes covers every command of its LastSeq. *)
LEMMA CopyCovers ==
    ASSUME IInv, NEW n \in Node, InGoodOrder(n)
    PROVE  Covers(log, jm[n], PartialSnapshot(jm[n]), lastIndex[n])
  <1> DEFINE d == PartialSnapshot(jm[n])
  <1>0. TypeOK /\ KnowsOf(n) /\ jm[n] \in Manager
    BY DEF IInv, InGoodOrder, Managers
  <1>1. /\ lastIndex[n] <= Count(n) /\ Count(n) <= Len(log) /\ Len(log) \in Nat
        /\ Count(n) \in Nat /\ lastIndex[n] \in Nat
    BY <1>0, CountInLog, NodeTyped
  <1>2. \A j \in Job : d.status[j] = IF jm[n].status[j] \in Live THEN jm[n].status[j] ELSE "absent"
    BY DEF PartialSnapshot
  <1> HIDE DEF d
  <1>3. ASSUME NEW i \in 1 .. lastIndex[n], log[i].type = "ENQUEUE"
        PROVE  d.status[log[i].job] # "absent" \/ jm[n].status[log[i].job] \in Terminal
    <2>1. i \in 1 .. Count(n) /\ i \in 1 .. Len(log)
      BY <1>1
    <2>2. log[i] \in Command
      BY <1>0, <2>1 DEF TypeOK
    <2>3. log[i].job \in Job /\ log[i] = EnqueueCommand(log[i].job)
      BY <1>3, <2>2 DEF Command, EnqueueCommand
    <2>4. Known(jm[n], log[i].job)
      BY <1>0, <2>1, <2>3 DEF KnowsOf
    <2>5. jm[n].status[log[i].job] \in Live \cup Terminal
      BY <1>0, <2>3, <2>4 DEF Known, Manager, Status
    <2> QED BY <1>2, <2>3, <2>4, <2>5 DEF Known
  <1> QED BY <1>3 DEF Covers, d

LEMMA CoveredStep ==
    ASSUME IInv, Next, NEW n \in Node, InGoodOrder(n) PROVE Covered(n)'
  <1>0. TypeOK /\ KnownEntries /\ Managers /\ Covered(n)
    BY DEF IInv, InGoodOrder
  <1>t. /\ Len(log) \in Nat /\ lastIndex[n] \in Nat /\ rf[n].included \in Nat
        /\ saver[n].seq \in Nat /\ Count(n) \in Nat
        /\ rf[n].included <= lastIndex[n] /\ lastIndex[n] <= Len(log)
    <2>1. Count(n) <= Len(log) /\ lastIndex[n] <= Count(n) /\ rf[n].included <= lastIndex[n]
      BY <1>0, CountInLog
    <2>2. /\ Len(log) \in Nat /\ lastIndex[n] \in Nat /\ rf[n].included \in Nat /\ Count(n) \in Nat
      BY <1>0, NodeTyped
    <2>3. saver[n].seq \in Nat
      BY <1>0 DEF TypeOK, SaverState
    <2> QED BY <2>1, <2>2, <2>3
  <1>1. Covers(log', jm'[n], snap[n], rf[n].included)
    <2>1. Covers(log, jm[n], snap[n], rf[n].included) /\ rf[n].included <= Len(log)
      BY <1>0, <1>t DEF Covered
    <2> QED BY <1>t, <2>1, CoversStays
  <1>2. saver[n].pc # "idle" => /\ rf[n].included <= saver[n].seq /\ saver[n].seq <= lastIndex[n]
                                /\ Covers(log', jm'[n], saver[n].data, saver[n].seq)
    <2>1. ASSUME saver[n].pc # "idle"
          PROVE  /\ rf[n].included <= saver[n].seq /\ saver[n].seq <= lastIndex[n]
                 /\ Covers(log', jm'[n], saver[n].data, saver[n].seq)
      <3>1. /\ rf[n].included <= saver[n].seq /\ saver[n].seq <= lastIndex[n]
            /\ Covers(log, jm[n], saver[n].data, saver[n].seq)
        BY <1>0, <2>1 DEF Covered
      <3>2. saver[n].seq <= Len(log)
        BY <1>t, <3>1
      <3> QED BY <1>t, <3>1, <3>2, CoversStays
    <2> QED BY <2>1
  <1>3. saver[n].pc = "compact" => snap[n] = saver[n].data
    BY <1>0 DEF Covered
  <1>4. lastIndex[n] <= lastIndex'[n] /\ lastIndex'[n] \in Nat
    <2>1. ASSUME NEW m \in Node, SetLastAppliedIndex(m) PROVE lastIndex[n] <= lastIndex'[n]
      <3>1. n # m => lastIndex'[n] = lastIndex[n]
        BY <1>0, <2>1, StoreIndexFacts
      <3>2. n = m => lastIndex'[n] = applied[n] /\ applied[n] # 0
        BY <1>0, <2>1, StoreIndexFacts
      <3>3. applied[n] # 0 => applied[n] = lastIndex[n] + 1
        BY DEF InGoodOrder, InOrder
      <3> QED BY <1>t, <3>1, <3>2, <3>3
    <2>2. ASSUME NEW m \in Node, ApplySend(m) \/ HandleCommand(m) PROVE lastIndex'[n] = lastIndex[n]
      BY <2>2 DEF ApplySend, Deliver, HandleCommand
    <2>3. lastIndex'[n] \in Nat
      BY <1>0, TypeStep DEF TypeOK
    <2> QED BY <1>t, <2>1, <2>2, <2>3, ApplySteps
  <1>5. ASSUME NEW m \in Node, SnapCopy(m) PROVE Covered(n)'
    <2>0. UNCHANGED <<log, rf, jm, snap, lastIndex>>
      BY <1>0, <1>5, CopyFacts
    <2>1. CASE n # m
      <3>1. saver'[n] = saver[n]
        BY <1>0, <1>5, <2>1, CopyFacts
      <3> QED BY <1>1, <1>2, <1>3, <2>0, <3>1 DEF Covered
    <2>2. CASE n = m
      <3>1. /\ saver'[n].pc = "write" /\ saver'[n].data = PartialSnapshot(jm[n])
            /\ saver'[n].seq = lastIndex[n]
        BY <1>0, <1>5, <2>2, CopyFacts
      <3>2. Covers(log, jm[n], PartialSnapshot(jm[n]), lastIndex[n])
        BY CopyCovers
      <3> QED BY <1>1, <1>t, <2>0, <3>1, <3>2 DEF Covered
    <2> QED BY <2>1, <2>2
  <1>6. ASSUME NEW m \in Node, SnapWrite(m) PROVE Covered(n)'
    <2>0. UNCHANGED <<log, rf, jm, lastIndex>>
      BY <1>0, <1>6, WriteFacts
    <2>1. CASE n # m
      <3>1. saver'[n] = saver[n] /\ snap'[n] = snap[n]
        BY <1>0, <1>6, <2>1, WriteFacts
      <3> QED BY <1>1, <1>2, <1>3, <2>0, <3>1 DEF Covered
    <2>2. CASE n = m
      <3>1. /\ saver[n].pc = "write" /\ saver'[n].data = saver[n].data
            /\ saver'[n].seq = saver[n].seq /\ snap'[n] = saver[n].data
        BY <1>0, <1>6, <2>2, WriteFacts
      <3>2. /\ rf[n].included <= saver[n].seq /\ saver[n].seq <= lastIndex[n]
            /\ Covers(log', jm'[n], saver[n].data, saver[n].seq)
        BY <1>2, <3>1
      <3>3. 1 .. rf[n].included \subseteq 1 .. saver[n].seq
        BY <1>t, <3>2
      <3>4. Covers(log', jm'[n], saver[n].data, rf[n].included)
        BY <3>2, <3>3 DEF Covers
      <3> QED BY <2>0, <3>1, <3>2, <3>4 DEF Covered
    <2> QED BY <2>1, <2>2
  <1>7. ASSUME NEW m \in Node, SnapCompact(m) PROVE Covered(n)'
    <2>0. UNCHANGED <<log, jm, lastIndex, snap>>
      BY <1>0, <1>7, CompactSaverFacts
    <2>1. CASE n # m
      <3>1. saver'[n] = saver[n] /\ rf'[n] = rf[n]
        BY <1>0, <1>7, <2>1, CompactFacts, CompactSaverFacts
      <3> QED BY <1>1, <1>2, <1>3, <2>0, <3>1 DEF Covered
    <2>2. CASE n = m
      <3>1. saver[n].pc = "compact" /\ saver'[n].pc = "idle"
        BY <1>0, <1>7, <2>2, CompactSaverFacts
      <3>2. rf'[n].included = rf[n].included \/ rf'[n].included = saver[n].seq
        BY <1>0, <1>7, <2>2, CompactFacts
      <3>3. Covers(log', jm'[n], snap[n], saver[n].seq)
        BY <1>2, <1>3, <3>1
      <3> QED BY <1>1, <2>0, <3>1, <3>2, <3>3 DEF Covered
    <2> QED BY <2>1, <2>2
  <1>8. CASE UNCHANGED <<saver, snap>> /\ \A m \in Node : ~ SnapCompact(m)
    <2>1. rf'[n].included = rf[n].included
      <3>1. ASSUME NEW m \in Node, AppendEntries(m) \/ ApplyLogs(m) \/ ApplySend(m)
            PROVE  rf'[n].included = rf[n].included
        BY <1>0, <3>1, AppendFacts, ApplyFacts, SendFacts
      <3>2. ASSUME NEW c \in Command, Propose(c) PROVE rf'[n].included = rf[n].included
        BY <1>0, <3>2, ProposeFacts
      <3>3. Commit => rf'[n].included = rf[n].included
        BY <1>0, CommitFacts
      <3> QED BY <1>0, <1>8, <3>1, <3>2, <3>3, RaftSteps
    <2>2. saver[n].pc # "idle" => saver[n].seq <= lastIndex'[n]
      BY <1>t, <1>2, <1>4
    <2> QED BY <1>1, <1>2, <1>3, <1>8, <2>1, <2>2 DEF Covered
  <1> QED BY <1>5, <1>6, <1>7, <1>8, SaverSteps

LEMMA InitUInv == Init => UInv
  <1> SUFFICES ASSUME Init, NEW n \in Node PROVE InGoodOrder(n)
    BY DEF UInv, Unharmed
  <1>1. /\ rf[n].entries = <<0>> /\ rf[n].commit = 0 /\ rf[n].applied = 0 /\ rf[n].included = 0
        /\ rf[n].sending = FALSE /\ log = <<>> /\ applyCh[n] = <<>> /\ applied[n] = 0
        /\ lastIndex[n] = 0 /\ jm[n] = NewJobManager /\ saver[n].pc = "idle"
    BY DEF Init, NewRaft, IdleSaver
  <1>2. Base(n) = -1 /\ Count(n) = 0
    BY <1>1 DEF Base, Count
  <1>3. Len(<<>>) = 0 /\ DOMAIN <<>> = {} /\ Len(<<0>>) = 1 /\ \A k \in DOMAIN <<0>> : <<0>>[k] = -1 + k
    OBVIOUS
  <1>4. Consecutive(n)
    BY <1>1, <1>2, <1>3 DEF Consecutive
  <1>5. InOrder(n)
    BY <1>1, <1>2, <1>3 DEF InOrder
  <1>6. KnowsOf(n)
    BY <1>1, <1>2 DEF KnowsOf, Known, NewJobManager, NoJobs
  <1>7. Covered(n)
    BY <1>1 DEF Covered, Covers
  <1> QED BY <1>4, <1>5, <1>6, <1>7 DEF InGoodOrder

LEMMA StepUInv == IInv /\ UInv /\ [Next]_vars => UInv'
  <1>1. ASSUME IInv, UInv, Next PROVE UInv'
    <2>1. ASSUME NEW n \in Node, n \in Unharmed' PROVE InGoodOrder(n)'
      <3>1. n \in Unharmed /\ InGoodOrder(n) /\ Consecutive(n)
        BY <1>1, <2>1, UnharmedShrinks DEF IInv, UInv, InGoodOrder
      <3>2. Consecutive(n)'
        BY <1>1, <2>1, <3>1, ConsecutiveStep
      <3>3. InOrder(n)'
        BY <1>1, <3>1, InOrderStep
      <3>4. KnowsOf(n)' /\ Covered(n)'
        BY <1>1, <3>1, KnowsOfStep, CoveredStep
      <3> QED BY <3>2, <3>3, <3>4 DEF InGoodOrder
    <2>2. Unharmed' \subseteq Node
      BY DEF Unharmed
    <2> QED BY <2>1, <2>2 DEF UInv
  <1>2. ASSUME IInv, UInv, UNCHANGED vars PROVE UInv'
    BY <1>2 DEF UInv, vars, Unharmed, InGoodOrder, Consecutive, InOrder, KnowsOf, Covered, Base, Count
  <1> QED BY <1>1, <1>2

(* applyLoop takes every committed command once and in the order of the log: *)
(* what a node knows is what the commands up to its index enqueue, for any   *)
(* number of nodes, of commands and of snapshots of the leader.              *)
THEOREM AppliedIsKnown == Spec => []KnowsWhatWasApplied
  <1>1. UInv => KnowsWhatWasApplied
    BY DEF UInv, InGoodOrder, KnowsOf, KnowsWhatWasApplied, Count
  <1> QED BY <1>1, InitIInv, StepIInv, InitUInv, StepUInv, PTL DEF Spec

(* takeSnapshot lets Raft drop only what the file has: LastSeq is read with  *)
(* the jobs, and the file is written before the log is compacted.            *)
THEOREM DroppedIsSaved == Spec => []SnapshotCoversCompacted
  <1>1. UInv => SnapshotCoversCompacted
    BY DEF UInv, InGoodOrder, Covered, Covers, SnapshotCoversCompacted
  <1> QED BY <1>1, InitIInv, StepIInv, InitUInv, StepUInv, PTL DEF Spec
=============================================================================
