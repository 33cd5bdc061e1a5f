------------------------------ MODULE RaftProofs ------------------------------
(* Elections and logs of the Raft nodes, for any number of servers,          *)
(* elections, calls and entries, as long as no server restarts.              *)
EXTENDS RaftProperties, FiniteSetTheorems, WellFoundedInduction, TLAPS

-----------------------------------------------------------------------------
(* Sets of indexes. *)
LEMMA LeastExists ==
    ASSUME NEW S, S \subseteq Nat, S # {}
    PROVE  \E i \in S : \A k \in S : i <= k
  <1>1. PICK i \in S : \A k \in S : ~ (<<k, i>> \in OpToRel(<, Nat))
    BY NatLessThanWellFounded, WFMin
  <1>2. \A k \in S : ~ (k < i)
    BY <1>1 DEF OpToRel
  <1>3. i \in S /\ \A k \in S : i <= k
    BY <1>2
  <1> QED BY <1>3

LEMMA GreatestExists ==
    ASSUME NEW n \in Nat, NEW S, S \subseteq 0 .. n, S # {}
    PROVE  \E i \in S : \A k \in S : k <= i
  <1> DEFINE T == {n - k : k \in S}
  <1>0. \A k \in S : k \in Nat /\ n - k \in Nat
    OBVIOUS
  <1>1. T \subseteq Nat /\ T # {}
    BY <1>0
  <1> HIDE DEF T
  <1>2. PICK t \in T : \A k \in T : t <= k
    BY <1>1, LeastExists
  <1>3. PICK i \in S : t = n - i
    BY DEF T
  <1>4. \A k \in S : n - k \in T
    BY DEF T
  <1>5. \A k \in S : k \in Nat /\ n - i <= n - k
    BY <1>2, <1>3, <1>4
  <1>6. \A k \in S : k <= i
    BY <1>5
  <1> QED BY <1>6

LEMMA UpdateType ==
    ASSUME NEW S, NEW T, NEW f \in [S -> T], NEW x \in S, NEW v \in T
    PROVE  [f EXCEPT ![x] = v] \in [S -> T]
  OBVIOUS

(* Two majorities have a server in common. *)
LEMMA MajoritiesMeet ==
    ASSUME NEW S, NEW T, S \subseteq Server, T \subseteq Server, Majority(S), Majority(T)
    PROVE  S \cap T # {}
  <1>1. IsFiniteSet(Server) /\ IsFiniteSet(S) /\ IsFiniteSet(T)
    BY RaftAssumption, FS_Subset
  <1>2. Cardinality(Server) \in Nat /\ Cardinality(S) \in Nat /\ Cardinality(T) \in Nat
    BY <1>1, FS_CardinalityType
  <1>3. Cardinality(S) + Cardinality(T) > Cardinality(Server)
    BY <1>2 DEF Majority
  <1> QED BY <1>1, <1>3, FS_MajoritiesIntersect

-----------------------------------------------------------------------------
(* Logs and the parts of them that calls carry. *)
LEMMA MergedType ==
    ASSUME NEW l \in Seq(Entry), NEW m \in AppReq, m.prev <= Len(l)
    PROVE  Merged(l, m) \in Seq(Entry)
  <1> DEFINE D == {i \in DOMAIN m.entries :
                     m.prev + i > Len(l) \/ l[m.prev + i].term # m.entries[i].term}
             e == m.entries
  <1>1. e \in Seq(Entry) /\ m.prev \in Nat /\ Len(l) \in Nat
    BY DEF AppReq
  <1>2. DOMAIN e = 1 .. Len(e) /\ Len(e) \in Nat
    BY <1>1
  <1>3. CASE D = {}
    BY <1>3 DEF Merged
  <1>4. CASE D # {}
    <2> DEFINE j == CHOOSE i \in D : \A k \in D : i <= k
    <2>1. j \in D
      <3>1. D \subseteq Nat
        BY <1>2
      <3> HIDE DEF D
      <3> QED BY <1>4, <3>1, LeastExists
    <2>2. \A k \in D : j <= k
      <3>1. D \subseteq Nat
        BY <1>2
      <3> HIDE DEF D
      <3> QED BY <1>4, <3>1, LeastExists
    <2>3. j \in 1 .. Len(e)
      BY <1>2, <2>1
    <2>4. Merged(l, m) = SubSeq(l, 1, m.prev + j - 1) \o SubSeq(e, j, Len(e))
      BY <1>4 DEF Merged
    <2> HIDE DEF j, e, D
    <2>5. m.prev + j - 1 <= Len(l)
      <3>1. CASE j = 1
        BY <1>1, <3>1
      <3>2. CASE j # 1
        <4>1. j - 1 \in 1 .. Len(e) /\ j - 1 \notin D
          BY <1>2, <2>2, <2>3, <3>2
        <4>2. ~ (m.prev + (j - 1) > Len(l))
          BY <1>2, <4>1 DEF D, e
        <4> QED BY <1>1, <2>3, <4>2
      <3> QED BY <3>1, <3>2
    <2>6. SubSeq(l, 1, m.prev + j - 1) \in Seq(Entry)
      BY <1>1, <2>3, <2>5
    <2>7. SubSeq(e, j, Len(e)) \in Seq(Entry)
      BY <1>1, <1>2, <2>3
    <2> QED BY <2>4, <2>6, <2>7
  <1> QED BY <1>3, <1>4

(* What replicateToPeer sends has the type of a call. *)
LEMMA SentType ==
    ASSUME TypeOK, NEW p \in Server, NEW q \in Peers(p), Replicate(p, q)
    PROVE  appReqs' \subseteq AppReq
  <1> DEFINE l    == log[p]
             last == Len(l)
             next == IF nextIndex[p][q] > last + 1 THEN last + 1 ELSE nextIndex[p][q]
             t    == TermAt(l, next - 1)
             e    == SubSeq(l, next, last)
             m    == [term |-> currentTerm[p], from |-> p, to |-> q, prev |-> next - 1,
                      prevTerm |-> t, entries |-> e, commit |-> commitIndex[p]]
  <1>1. appReqs' = appReqs \cup {m}
    BY DEF Replicate, LastIndex
  <1>2. l \in Seq(Entry) /\ last \in Nat /\ nextIndex[p][q] \in Nat \ {0}
    BY DEF TypeOK, Peers
  <1>3. next \in 1 .. last + 1
    BY <1>2
  <1> HIDE DEF next, l
  <1>4. e \in Seq(Entry)
    BY <1>2, <1>3
  <1>5. t \in Nat
    <2>1. CASE next = 1
      BY <2>1 DEF TermAt
    <2>2. CASE next # 1
      <3>1. next - 1 \in 1 .. last /\ next - 1 # 0
        BY <1>2, <1>3, <2>2
      <3>2. l[next - 1] \in Entry
        BY <1>2, <3>1
      <3> QED BY <3>1, <3>2 DEF TermAt, Entry
    <2> QED BY <2>1, <2>2
  <1>6. /\ next - 1 \in Nat /\ currentTerm[p] \in Nat /\ commitIndex[p] \in Nat
        /\ p \in Server /\ q \in Server
    BY <1>2, <1>3 DEF TypeOK, Peers
  <1> HIDE DEF t, e, last
  <1>7. m \in AppReq
    BY <1>4, <1>5, <1>6 DEF AppReq
  <1> QED BY <1>1, <1>7 DEF TypeOK

(* The handlers of elections. *)
LEMMA ElectionTypes ==
    ASSUME TypeOK,
           \/ \E p \in Server : StartElection(p)
           \/ \E m \in voteReqs : RequestVote(m)
           \/ \E r \in voteReps : VoteReply(r)
    PROVE  TypeOK'
  <1> USE DEF TypeOK
  <1>1. ASSUME NEW p \in Server, StartElection(p) PROVE TypeOK'
    <2>1. /\ UNCHANGED <<log, commitIndex, lastApplied, applied, nextIndex, matchIndex,
                         voteReps, appReqs, appReps, restarts>>
          /\ elections' \in Nat /\ state' \in [Server -> {"Follower", "Candidate", "Leader"}]
          /\ votedFor' \in [Server -> Server \cup {Nobody}]
          /\ votes' \in [Server -> SUBSET Server]
      BY <1>1 DEF StartElection, commitment, leading
    <2>2. currentTerm' \in [Server -> Nat]
      BY <1>1 DEF StartElection
    <2>3. voteReqs' \subseteq VoteCall
      <3>1. \A q \in Peers(p) : VoteArgs(p, q, currentTerm[p] + 1) \in VoteCall
        BY DEF VoteArgs, VoteCall, Peers
      <3> QED BY <1>1, <3>1 DEF StartElection
    <2> QED BY <2>1, <2>2, <2>3
  <1>2. ASSUME NEW m \in voteReqs, RequestVote(m) PROVE TypeOK'
    <2>0. m \in VoteCall /\ m.to \in Server /\ m.from \in Server /\ m.term \in Nat
      BY DEF VoteCall
    <2>1. /\ UNCHANGED <<log, commitIndex, lastApplied, applied, nextIndex, matchIndex, votes,
                         appReqs, appReps, elections, restarts>>
          /\ voteReqs' \subseteq VoteCall
      BY <1>2 DEF RequestVote, commitment, leading
    <2>2. /\ currentTerm' \in [Server -> Nat]
          /\ state' \in [Server -> {"Follower", "Candidate", "Leader"}]
          /\ votedFor' \in [Server -> Server \cup {Nobody}]
      BY <1>2, <2>0 DEF RequestVote
    <2>3. voteReps' \subseteq VoteRep
      <3>1. \E g \in BOOLEAN : voteReps' = voteReps \cup {VoteAnswer(m, currentTerm'[m.to], g)}
        BY <1>2 DEF RequestVote
      <3>2. \A g \in BOOLEAN : VoteAnswer(m, currentTerm'[m.to], g) \in VoteRep
        BY <2>0, <2>2 DEF VoteAnswer, VoteRep
      <3> QED BY <3>1, <3>2
    <2> QED BY <2>1, <2>2, <2>3
  <1>3. ASSUME NEW r \in voteReps, VoteReply(r) PROVE TypeOK'
    <2> DEFINE p == r.call.from
    <2>0. p \in Server /\ r.call.to \in Server /\ r.term \in Nat
      BY DEF VoteRep, VoteCall
    <2>1. /\ UNCHANGED <<log, commitIndex, lastApplied, applied,
                         voteReqs, appReqs, appReps, elections, restarts>>
          /\ voteReps' \subseteq VoteRep
      BY <1>3 DEF VoteReply, commitment, persistent
    <2>2. \/ UNCHANGED <<currentTerm, votedFor, state, nextIndex, matchIndex, votes>>
          \/ StepDown(p, r.term) /\ UNCHANGED <<nextIndex, matchIndex, votes>>
          \/ /\ votes' = [votes EXCEPT ![p] = IF r.granted THEN @ \cup {r.call.to} ELSE @]
             /\ BecomeLeader(p) \/ UNCHANGED <<state, nextIndex, matchIndex>>
             /\ UNCHANGED <<currentTerm, votedFor>>
      BY <1>3 DEF VoteReply, leading, persistent
    <2>3. /\ currentTerm' \in [Server -> Nat]
          /\ votedFor' \in [Server -> Server \cup {Nobody}]
      BY <2>0, <2>2 DEF StepDown
    <2>4. votes' \in [Server -> SUBSET Server]
      <3>1. CASE UNCHANGED votes
        BY <3>1
      <3>2. CASE votes' = [votes EXCEPT ![p] = IF r.granted THEN @ \cup {r.call.to} ELSE @]
        <4>1. (IF r.granted THEN votes[p] \cup {r.call.to} ELSE votes[p]) \in SUBSET Server
          BY <2>0
        <4> QED BY <2>0, <3>2, <4>1
      <3> QED BY <2>2, <3>1, <3>2
    <2>5. state' \in [Server -> {"Follower", "Candidate", "Leader"}]
      BY <2>0, <2>2 DEF StepDown, BecomeLeader
    <2>6. /\ nextIndex' \in [Server -> [Server -> Nat \ {0}]]
          /\ matchIndex' \in [Server -> [Server -> Nat]]
      <3>1. CASE UNCHANGED <<nextIndex, matchIndex>>
        BY <3>1
      <3>2. CASE BecomeLeader(p)
        <4> DEFINE k == LastIndex(log[p]) + 1
        <4>0. log[p] \in Seq(Entry)
          BY <2>0
        <4>1. k \in Nat \ {0}
          BY <4>0 DEF LastIndex
        <4> HIDE DEF k
        <4>2. /\ [q \in Server |-> k] \in [Server -> Nat \ {0}]
              /\ [q \in Server |-> 0] \in [Server -> Nat]
          BY <4>1
        <4>3. /\ nextIndex' = [nextIndex EXCEPT ![p] = [q \in Server |-> k]]
              /\ matchIndex' = [matchIndex EXCEPT ![p] = [q \in Server |-> 0]]
          BY <3>2 DEF BecomeLeader, k
        <4> QED BY <4>2, <4>3
      <3> QED BY <2>2, <3>1, <3>2
    <2> QED BY <2>1, <2>3, <2>4, <2>5, <2>6
  <1> QED BY <1>1, <1>2, <1>3

(* The handlers of the log at the leader and at a follower. *)
LEMMA ProposeTypes ==
    ASSUME TypeOK, NEW p \in Server, NEW c \in Command, Propose(p, c) PROVE TypeOK'
  <1> DEFINE e == [term |-> currentTerm[p], cmd |-> c]
  <1>1. /\ log' = [log EXCEPT ![p] = Append(@, e)]
        /\ UNCHANGED <<currentTerm, votedFor, state, commitIndex, lastApplied, applied,
                       nextIndex, matchIndex, votes, voteReqs, voteReps, appReqs, appReps,
                       elections, restarts>>
    BY DEF Propose, commitment, leading, calls
  <1>2. e \in Entry /\ log[p] \in Seq(Entry)
    BY DEF TypeOK, Entry
  <1> HIDE DEF e
  <1>3. Append(log[p], e) \in Seq(Entry)
    BY <1>2
  <1>4. log' \in [Server -> Seq(Entry)]
    BY <1>1, <1>3 DEF TypeOK
  <1> QED BY <1>1, <1>4 DEF TypeOK

LEMMA AppendEntriesTypes ==
    ASSUME TypeOK, NEW m \in appReqs, AppendEntries(m) PROVE TypeOK'
  <1> DEFINE p  == m.to
             ok == /\ ~ m.term < currentTerm[p]
                   /\ m.prev <= LastIndex(log[p]) /\ TermAt(log[p], m.prev) = m.prevTerm
             last == LastIndex(log'[p])
  <1>0. /\ m \in AppReq /\ p \in Server /\ m.term \in Nat /\ m.commit \in Nat
        /\ m.prev \in Nat /\ m.entries \in Seq(Entry) /\ log[p] \in Seq(Entry)
    BY DEF TypeOK, AppReq
  <1>1. /\ UNCHANGED <<lastApplied, applied, nextIndex, matchIndex, votes, voteReqs, voteReps,
                       elections, restarts>>
        /\ StepDown(p, m.term) \/ UNCHANGED <<currentTerm, votedFor, state>>
        /\ log' = [log EXCEPT ![p] = IF ok THEN Merged(@, m) ELSE @]
        /\ commitIndex' = [commitIndex EXCEPT ![p] =
             IF ok /\ m.commit > @ THEN (IF m.commit < last THEN m.commit ELSE last) ELSE @]
        /\ appReqs' = appReqs \ {m}
        /\ appReps' = appReps \cup {AppendAnswer(m, currentTerm[p], ok)}
    BY DEF AppendEntries, leading
  <1>2. /\ currentTerm' \in [Server -> Nat]
        /\ votedFor' \in [Server -> Server \cup {Nobody}]
        /\ state' \in [Server -> {"Follower", "Candidate", "Leader"}]
    BY <1>0, <1>1 DEF StepDown, TypeOK
  <1>3. log' \in [Server -> Seq(Entry)]
    <2>1. ok => Merged(log[p], m) \in Seq(Entry)
      BY <1>0, MergedType DEF LastIndex
    <2> HIDE DEF ok
    <2> QED BY <1>0, <1>1, <2>1 DEF TypeOK
  <1>4. commitIndex' \in [Server -> Nat]
    <2>1. last \in Nat
      <3>1. log'[p] \in Seq(Entry)
        BY <1>0, <1>3
      <3> QED BY <3>1 DEF LastIndex
    <2> HIDE DEF last, ok
    <2> QED BY <1>0, <1>1, <2>1 DEF TypeOK
  <1>5. appReps' \subseteq AppRep
    <2>1. currentTerm[p] \in Nat /\ Len(m.entries) \in Nat /\ ok \in BOOLEAN
      BY <1>0 DEF TypeOK
    <2>2. m.from \in Server
      BY <1>0 DEF AppReq
    <2> HIDE DEF ok
    <2>3. AppendAnswer(m, currentTerm[p], ok) \in AppRep
      BY <1>0, <2>1, <2>2 DEF AppendAnswer, AppRep
    <2> QED BY <1>1, <2>3 DEF TypeOK
  <1> QED BY <1>1, <1>2, <1>3, <1>4, <1>5 DEF TypeOK

LEMMA AppendReplyTypes ==
    ASSUME TypeOK, NEW r \in appReps, AppendReply(r) PROVE TypeOK'
  <1> DEFINE p  == r.from
             q  == r.to
             mi == [matchIndex[p] EXCEPT ![q] = r.match]
             C  == Committable(p, mi)
             n  == IF C = {} THEN commitIndex[p] ELSE CHOOSE n \in C : \A k \in C : k <= n
  <1>0. /\ p \in Server /\ q \in Server /\ r.replyTerm \in Nat /\ r.match \in Nat
        /\ log[p] \in Seq(Entry) /\ commitIndex[p] \in Nat
    BY DEF TypeOK, AppRep
  <1>1. /\ UNCHANGED <<log, lastApplied, applied, votes, voteReqs, voteReps, appReqs,
                       elections, restarts>>
        /\ appReps' = appReps \ {r}
    BY DEF AppendReply
  <1>2. /\ StepDown(p, r.replyTerm) \/ UNCHANGED <<currentTerm, votedFor, state>>
        /\ \/ UNCHANGED <<nextIndex, matchIndex, commitIndex>>
           \/ /\ matchIndex' = [matchIndex EXCEPT ![p] = mi]
              /\ nextIndex' = [nextIndex EXCEPT ![p][q] = r.match + 1]
              /\ commitIndex' = [commitIndex EXCEPT ![p] = n]
           \/ /\ nextIndex' = [nextIndex EXCEPT ![p][q] = IF @ > 1 THEN @ - 1 ELSE 1]
              /\ UNCHANGED <<matchIndex, commitIndex>>
    BY DEF AppendReply, leading
  <1>3. n \in Nat
    <2>1. Len(log[p]) \in Nat /\ C \subseteq 0 .. Len(log[p])
      BY <1>0 DEF Committable, LastIndex
    <2> HIDE DEF C
    <2>2. CASE C = {}
      BY <1>0, <2>2
    <2>3. CASE C # {}
      <3>1. n \in C
        BY <2>1, <2>3, GreatestExists
      <3> HIDE DEF n
      <3> QED BY <2>1, <3>1
    <2> QED BY <2>2, <2>3
  <1>4. mi \in [Server -> Nat] /\ nextIndex[p] \in [Server -> Nat \ {0}]
    BY <1>0 DEF TypeOK
  <1> HIDE DEF mi, n
  <1>5. commitIndex' \in [Server -> Nat] /\ matchIndex' \in [Server -> [Server -> Nat]]
    <2>1. \/ UNCHANGED <<matchIndex, commitIndex>>
          \/ /\ matchIndex' = [matchIndex EXCEPT ![p] = mi]
             /\ commitIndex' = [commitIndex EXCEPT ![p] = n]
      BY <1>2
    <2>2. matchIndex \in [Server -> [Server -> Nat]] /\ commitIndex \in [Server -> Nat]
      BY DEF TypeOK
    <2>3. /\ [matchIndex EXCEPT ![p] = mi] \in [Server -> [Server -> Nat]]
          /\ [commitIndex EXCEPT ![p] = n] \in [Server -> Nat]
      BY <1>0, <1>3, <1>4, <2>2, UpdateType
    <2> QED BY <2>1, <2>2, <2>3
  <1>6. nextIndex' \in [Server -> [Server -> Nat \ {0}]]
    <2> DEFINE a == r.match + 1
               b == IF nextIndex[p][q] > 1 THEN nextIndex[p][q] - 1 ELSE 1
    <2>1. a \in Nat \ {0} /\ b \in Nat \ {0}
      BY <1>0, <1>4
    <2>2. [nextIndex[p] EXCEPT ![q] = a] \in [Server -> Nat \ {0}]
          /\ [nextIndex[p] EXCEPT ![q] = b] \in [Server -> Nat \ {0}]
      <3> HIDE DEF a, b
      <3> QED BY <1>0, <1>4, <2>1, UpdateType
    <2>3. nextIndex \in [Server -> [Server -> Nat \ {0}]]
      BY DEF TypeOK
    <2>4. /\ [nextIndex EXCEPT ![p] = [nextIndex[p] EXCEPT ![q] = a]] \in [Server -> [Server -> Nat \ {0}]]
          /\ [nextIndex EXCEPT ![p] = [nextIndex[p] EXCEPT ![q] = b]] \in [Server -> [Server -> Nat \ {0}]]
      <3> HIDE DEF a, b
      <3> QED BY <1>0, <2>2, <2>3, UpdateType
    <2>5. \/ UNCHANGED nextIndex
          \/ nextIndex' = [nextIndex EXCEPT ![p] = [nextIndex[p] EXCEPT ![q] = a]]
          \/ nextIndex' = [nextIndex EXCEPT ![p] = [nextIndex[p] EXCEPT ![q] = b]]
      BY <1>2
    <2> HIDE DEF a, b
    <2> QED BY <2>3, <2>4, <2>5
  <1>7. /\ currentTerm' \in [Server -> Nat]
        /\ votedFor' \in [Server -> Server \cup {Nobody}]
        /\ state' \in [Server -> {"Follower", "Candidate", "Leader"}]
    <2>1. CASE StepDown(p, r.replyTerm)
      BY <1>0, <2>1 DEF StepDown, TypeOK
    <2>2. CASE UNCHANGED <<currentTerm, votedFor, state>>
      BY <2>2 DEF TypeOK
    <2> QED BY <1>2, <2>1, <2>2
  <1> QED BY <1>1, <1>5, <1>6, <1>7 DEF TypeOK

LEMMA OtherTypes ==
    ASSUME TypeOK,
           \/ LoseCall
           \/ \E p \in Server : ApplyLogs(p) \/ Restart(p) \/ \E q \in Peers(p) : Replicate(p, q)
    PROVE  TypeOK'
  <1>1. CASE LoseCall
    BY <1>1 DEF LoseCall, TypeOK, persistent, commitment, leading
  <1>2. ASSUME NEW p \in Server, ApplyLogs(p) PROVE TypeOK'
    <2>1. UNCHANGED <<currentTerm, votedFor, log, state, commitIndex, nextIndex, matchIndex, votes,
                      voteReqs, voteReps, appReqs, appReps, elections, restarts>>
      BY <1>2 DEF ApplyLogs, persistent, leading, calls
    <2>2. log[p] \in Seq(Entry) /\ commitIndex[p] \in Nat /\ lastApplied[p] \in Nat
      BY DEF TypeOK
    <2>3. {[index |-> i, entry |-> log[p][i]] :
             i \in (lastApplied[p] + 1 .. commitIndex[p]) \cap DOMAIN log[p]}
             \in SUBSET [index : Nat, entry : Entry]
      BY <2>2
    <2>4. /\ lastApplied' \in [Server -> Nat]
          /\ applied' \in [Server -> SUBSET [index : Nat, entry : Entry]]
      BY <1>2, <2>2, <2>3 DEF ApplyLogs, TypeOK
    <2> QED BY <2>1, <2>4 DEF TypeOK
  <1>3. ASSUME NEW p \in Server, Restart(p) PROVE TypeOK'
    <2>1. <<>> \in Seq(Entry) /\ [q \in Server |-> 1] \in [Server -> Nat \ {0}]
          /\ [q \in Server |-> 0] \in [Server -> Nat]
      OBVIOUS
    <2> QED BY <1>3, <2>1 DEF Restart, TypeOK
  <1>4. ASSUME NEW p \in Server, NEW q \in Peers(p), Replicate(p, q) PROVE TypeOK'
    <2>1. appReqs' \subseteq AppReq
      BY <1>4, SentType
    <2>2. UNCHANGED <<currentTerm, votedFor, log, state, commitIndex, lastApplied, applied,
                      nextIndex, matchIndex, votes, voteReqs, voteReps, appReps, elections, restarts>>
      BY <1>4 DEF Replicate, persistent, commitment, leading
    <2> QED BY <2>1, <2>2 DEF TypeOK
  <1> QED BY <1>1, <1>2, <1>3, <1>4

LEMMA TypesKept == TypeOK /\ [Next]_vars => TypeOK'
  <1> SUFFICES ASSUME TypeOK, [Next]_vars PROVE TypeOK'
    OBVIOUS
  <1>1. CASE UNCHANGED vars
    BY <1>1 DEF TypeOK, vars, persistent, commitment, leading, calls
  <1> QED BY <1>1, ElectionTypes, ProposeTypes, AppendEntriesTypes, AppendReplyTypes, OtherTypes
          DEF Next

LEMMA InitTypes == Init => TypeOK
  <1>1. <<>> \in Seq(Entry)
    OBVIOUS
  <1> QED BY <1>1 DEF Init, TypeOK

(* The variables keep their types: indexes stay natural and nextIndex        *)
(* positive although replies lower it, entries stay whole however calls with *)
(* part of a log are merged.                                                 *)
THEOREM RaftTyped == Spec => []TypeOK
  BY InitTypes, TypesKept, PTL DEF Spec

-----------------------------------------------------------------------------
(* Server q has given its vote in term t to p: in a reply under way, or       *)
(* counted by p in the election it runs or has won.                          *)
Replied(q, p, t) ==
    \E r \in voteReps : r.granted /\ r.call.to = q /\ r.call.from = p /\ r.call.term = t
Counted(q, p, t) == state[p] # "Follower" /\ currentTerm[p] = t /\ q \in votes[p]
Granted(q, p, t) == Replied(q, p, t) \/ Counted(q, p, t)

(* A vote is remembered as long as the term lasts, ... *)
Remembered ==
    \A q, p \in Server : \A t \in Nat : Granted(q, p, t) =>
      currentTerm[q] > t \/ (currentTerm[q] = t /\ votedFor[q] = p)

(* ... nobody votes twice in a term, ... *)
VotesOnce ==
    \A q, p1, p2 \in Server : \A t \in Nat : Granted(q, p1, t) /\ Granted(q, p2, t) => p1 = p2

(* ... and a leader has the votes of a majority. *)
Elected == \A p \in Server : state[p] = "Leader" => Majority(votes[p])

Ballots == Remembered /\ VotesOnce /\ Elected
IInv == TypeOK /\ (restarts = 0 => Ballots)

(* How votes and terms change: a vote is only given by a server that has not  *)
(* given it to another in the term.                                          *)
VotesStep ==
    \A q \in Server :
      /\ \/ currentTerm'[q] > currentTerm[q]
         \/ currentTerm'[q] = currentTerm[q] /\ votedFor[q] \in {Nobody, votedFor'[q]}
      /\ \A p \in Server : \A t \in Nat : Granted(q, p, t)' =>
           \/ Granted(q, p, t) \/ t > currentTerm[q]
           \/ t = currentTerm[q] /\ votedFor[q] \in {Nobody, p}

(* What a step that gives no new vote may do. *)
LEMMA NoNewVote ==
    ASSUME TypeOK, Ballots, TypeOK',
           \A q, p \in Server : \A t \in Nat : Granted(q, p, t)' => Granted(q, p, t),
           \A q \in Server : \/ currentTerm'[q] > currentTerm[q]
                             \/ currentTerm'[q] = currentTerm[q] /\ votedFor'[q] = votedFor[q],
           Elected'
    PROVE  Ballots' /\ VotesStep
  <1>1. Remembered'
    <2> SUFFICES ASSUME NEW q \in Server, NEW p \in Server, NEW t \in Nat, Granted(q, p, t)'
                 PROVE  currentTerm'[q] > t \/ (currentTerm'[q] = t /\ votedFor'[q] = p)
      BY DEF Remembered
    <2>1. currentTerm[q] > t \/ (currentTerm[q] = t /\ votedFor[q] = p)
      BY DEF Ballots, Remembered
    <2>2. currentTerm[q] \in Nat /\ currentTerm'[q] \in Nat
      BY DEF TypeOK
    <2> QED BY <2>1, <2>2
  <1>2. VotesOnce'
    BY DEF Ballots, VotesOnce
  <1>3. VotesStep
    BY DEF VotesStep
  <1> QED BY <1>1, <1>2, <1>3 DEF Ballots

(* What a step that gives one vote, of q to p in term t, may do. *)
LEMMA OneVote ==
    ASSUME TypeOK, Ballots, TypeOK',
           NEW q \in Server, NEW p \in Server, NEW t \in Nat,
           \A x, y \in Server : \A u \in Nat :
             Granted(x, y, u)' => Granted(x, y, u) \/ (x = q /\ y = p /\ u = t),
           \A x \in Server : x # q => currentTerm'[x] = currentTerm[x] /\ votedFor'[x] = votedFor[x],
           currentTerm'[q] = t, votedFor'[q] = p,
           t > currentTerm[q] \/ (t = currentTerm[q] /\ votedFor[q] \in {Nobody, p}),
           Elected'
    PROVE  Ballots' /\ VotesStep
  <1>0. currentTerm[q] \in Nat /\ Nobody \notin Server
    BY RaftAssumption DEF TypeOK
  <1>1. \A y \in Server : Granted(q, y, t) => y = p
    BY <1>0 DEF Ballots, Remembered
  <1>2. Remembered'
    <2> SUFFICES ASSUME NEW x \in Server, NEW y \in Server, NEW u \in Nat, Granted(x, y, u)'
                 PROVE  currentTerm'[x] > u \/ (currentTerm'[x] = u /\ votedFor'[x] = y)
      BY DEF Remembered
    <2>1. CASE x = q /\ y = p /\ u = t
      BY <2>1
    <2>2. CASE Granted(x, y, u) /\ x # q
      BY <2>2 DEF Ballots, Remembered
    <2>3. CASE Granted(x, y, u) /\ x = q
      <3>1. u <= currentTerm[q] /\ (u = currentTerm[q] => votedFor[q] = y)
        BY <1>0, <2>3 DEF Ballots, Remembered
      <3>2. CASE u = t
        BY <1>1, <2>3, <3>2
      <3>3. CASE u # t
        BY <1>0, <2>3, <3>1, <3>3
      <3> QED BY <3>2, <3>3
    <2> QED BY <2>1, <2>2, <2>3
  <1>3. VotesOnce'
    <2> SUFFICES ASSUME NEW x \in Server, NEW y1 \in Server, NEW y2 \in Server, NEW u \in Nat,
                        Granted(x, y1, u)', Granted(x, y2, u)'
                 PROVE  y1 = y2
      BY DEF VotesOnce
    <2>1. /\ Granted(x, y1, u) \/ (x = q /\ y1 = p /\ u = t)
          /\ Granted(x, y2, u) \/ (x = q /\ y2 = p /\ u = t)
      OBVIOUS
    <2> QED BY <1>1, <2>1 DEF Ballots, VotesOnce
  <1>4. VotesStep
    BY <1>0 DEF VotesStep
  <1> QED BY <1>2, <1>3, <1>4 DEF Ballots

(* The election timer: a server votes for itself, in a term of its own. *)
LEMMA StartElectionVotes ==
    ASSUME TypeOK, Ballots, TypeOK', NEW p \in Server, StartElection(p) PROVE Ballots' /\ VotesStep
  <1> DEFINE t == currentTerm[p] + 1
  <1>1. /\ state[p] # "Leader" /\ UNCHANGED voteReps
        /\ state' = [state EXCEPT ![p] = "Candidate"]
        /\ currentTerm' = [currentTerm EXCEPT ![p] = t]
        /\ votedFor' = [votedFor EXCEPT ![p] = p]
        /\ votes' = [votes EXCEPT ![p] = {p}]
    BY DEF StartElection
  <1>2. t \in Nat /\ t > currentTerm[p]
    BY DEF TypeOK
  <1>3. /\ state'[p] = "Candidate" /\ currentTerm'[p] = t /\ votedFor'[p] = p /\ votes'[p] = {p}
        /\ \A x \in Server : x # p =>
             /\ state'[x] = state[x] /\ currentTerm'[x] = currentTerm[x]
             /\ votedFor'[x] = votedFor[x] /\ votes'[x] = votes[x]
    BY <1>1 DEF TypeOK
  <1> HIDE DEF t
  <1>4. ASSUME NEW x \in Server, NEW y \in Server, NEW u \in Nat, Granted(x, y, u)'
        PROVE  Granted(x, y, u) \/ (x = p /\ y = p /\ u = t)
    <2>1. CASE Replied(x, y, u)'
      BY <1>1, <2>1 DEF Granted, Replied
    <2>2. CASE Counted(x, y, u)'
      BY <1>3, <2>2 DEF Granted, Counted
    <2> QED BY <1>4, <2>1, <2>2 DEF Granted
  <1>5. Elected'
    BY <1>3 DEF Ballots, Elected
  <1> QED BY <1>2, <1>3, <1>4, <1>5, OneVote

(* RequestVote: a vote is given in a later term, or in this one when it is   *)
(* still there or was for the same candidate.                                *)
LEMMA RequestVoteVotes ==
    ASSUME TypeOK, Ballots, TypeOK', NEW m \in voteReqs, RequestVote(m) PROVE Ballots' /\ VotesStep
  <1> DEFINE q == m.to
             p == m.from
             t == m.term
             granted == t >= currentTerm[q] /\ CanVote(q, m)
  <1>0. /\ q \in Server /\ p \in Server /\ t \in Nat /\ currentTerm[q] \in Nat
        /\ granted \in BOOLEAN
    BY DEF TypeOK, VoteCall
  <1>1. /\ currentTerm' = [currentTerm EXCEPT ![q] = IF t > currentTerm[q] THEN t ELSE @]
        /\ state' = [state EXCEPT ![q] = IF t > currentTerm[q] THEN "Follower" ELSE @]
        /\ votedFor' = [votedFor EXCEPT ![q] = IF granted THEN p ELSE @]
        /\ voteReps' = voteReps \cup {VoteAnswer(m, currentTerm'[q], granted)}
        /\ UNCHANGED votes
    BY DEF RequestVote
  <1>2. \A x \in Server : x # q =>
             state'[x] = state[x] /\ currentTerm'[x] = currentTerm[x] /\ votedFor'[x] = votedFor[x]
    BY <1>1 DEF TypeOK
  <1>3. t > currentTerm[q] => granted
    BY <1>0 DEF CanVote
  <1>4. /\ t > currentTerm[q] => currentTerm'[q] = t /\ state'[q] = "Follower"
        /\ ~ (t > currentTerm[q]) => currentTerm'[q] = currentTerm[q] /\ state'[q] = state[q]
        /\ granted => votedFor'[q] = p
        /\ ~ granted => votedFor'[q] = votedFor[q]
    BY <1>0, <1>1 DEF TypeOK
  <1>5. granted => t >= currentTerm[q] /\ (t > currentTerm[q] \/ votedFor[q] \in {Nobody, p})
    BY DEF CanVote
  <1> HIDE DEF granted
  <1>6. ASSUME NEW x \in Server, NEW y \in Server, NEW u \in Nat, Counted(x, y, u)'
        PROVE  Counted(x, y, u)
    BY <1>1, <1>2, <1>4, <1>6 DEF Counted
  <1>7. ASSUME NEW x \in Server, NEW y \in Server, NEW u \in Nat, Replied(x, y, u)'
        PROVE  Replied(x, y, u) \/ (granted /\ x = q /\ y = p /\ u = t)
    <2>1. PICK r \in voteReps' : r.granted /\ r.call.to = x /\ r.call.from = y /\ r.call.term = u
      BY <1>7 DEF Replied
    <2>2. CASE r \in voteReps
      BY <2>1, <2>2 DEF Replied
    <2>3. CASE r = VoteAnswer(m, currentTerm'[q], granted)
      BY <2>1, <2>3 DEF VoteAnswer
    <2> QED BY <1>1, <2>2, <2>3
  <1>8. \A x, y \in Server : \A u \in Nat :
          Granted(x, y, u)' => Granted(x, y, u) \/ (granted /\ x = q /\ y = p /\ u = t)
    BY <1>6, <1>7 DEF Granted
  <1>9. Elected'
    BY <1>1, <1>2, <1>4 DEF Ballots, Elected
  <1>10. CASE granted
    <2>1. currentTerm'[q] = t /\ votedFor'[q] = p
      BY <1>0, <1>4, <1>5, <1>10
    <2>2. t > currentTerm[q] \/ (t = currentTerm[q] /\ votedFor[q] \in {Nobody, p})
      BY <1>0, <1>5, <1>10
    <2> HIDE DEF q, p, t
    <2> QED BY <1>0, <1>2, <1>8, <1>9, <2>1, <2>2, OneVote
  <1>11. CASE ~ granted
    <2>1. currentTerm'[q] = currentTerm[q] /\ votedFor'[q] = votedFor[q]
      BY <1>3, <1>4, <1>11
    <2>2. \A x \in Server : currentTerm'[x] = currentTerm[x] /\ votedFor'[x] = votedFor[x]
      BY <1>2, <2>1
    <2> HIDE DEF q, p, t
    <2> QED BY <1>8, <1>9, <1>11, <2>2, NoNewVote
  <1> QED BY <1>10, <1>11

(* A step that raises the term of p, or leaves votes and terms alone.        *)
LEMMA StepDownVotes ==
    ASSUME TypeOK, Ballots, TypeOK', NEW p \in Server, NEW t \in Nat,
           voteReps' \subseteq voteReps, UNCHANGED votes,
           \/ UNCHANGED <<currentTerm, votedFor, state>>
           \/ t > currentTerm[p] /\ StepDown(p, t)
    PROVE  Ballots' /\ VotesStep
  <1>1. \A x \in Server :
          \/ UNCHANGED <<currentTerm[x], votedFor[x], state[x]>>
          \/ currentTerm'[x] > currentTerm[x] /\ state'[x] = "Follower"
    <2>1. CASE UNCHANGED <<currentTerm, votedFor, state>>
      BY <2>1
    <2>2. CASE t > currentTerm[p] /\ StepDown(p, t)
      <3>1. /\ currentTerm'[p] = t /\ state'[p] = "Follower"
            /\ \A x \in Server : x # p => UNCHANGED <<currentTerm[x], votedFor[x], state[x]>>
        BY <2>2 DEF StepDown, TypeOK
      <3> QED BY <2>2, <3>1
    <2> QED BY <2>1, <2>2
  <1>2. ASSUME NEW x \in Server, NEW y \in Server, NEW u \in Nat, Granted(x, y, u)'
        PROVE  Granted(x, y, u)
    <2>1. CASE Replied(x, y, u)'
      BY <2>1 DEF Granted, Replied
    <2>2. CASE Counted(x, y, u)'
      BY <1>1, <2>2 DEF Granted, Counted
    <2> QED BY <1>2, <2>1, <2>2 DEF Granted
  <1>3. Elected'
    BY <1>1 DEF Ballots, Elected
  <1> QED BY <1>1, <1>2, <1>3, NoNewVote

(* The candidate counts a vote that was given. *)
LEMMA VoteReplyVotes ==
    ASSUME TypeOK, Ballots, TypeOK', NEW r \in voteReps, VoteReply(r) PROVE Ballots' /\ VotesStep
  <1> DEFINE p == r.call.from
             q == r.call.to
  <1>0. p \in Server /\ q \in Server /\ r.term \in Nat /\ voteReps' = voteReps \ {r}
    BY DEF TypeOK, VoteRep, VoteCall, VoteReply
  <1>1. CASE UNCHANGED <<persistent, state, leading, votes>>
    BY <1>0, <1>1, StepDownVotes DEF persistent
  <1>2. CASE r.term > currentTerm[p] /\ StepDown(p, r.term) /\ UNCHANGED <<log, leading, votes>>
    BY <1>0, <1>2, StepDownVotes
  <1>3. CASE /\ state[p] = "Candidate" /\ r.call.term = currentTerm[p]
             /\ votes' = [votes EXCEPT ![p] = IF r.granted THEN @ \cup {q} ELSE @]
             /\ IF r.granted /\ Majority(votes[p] \cup {q})
                THEN BecomeLeader(p) ELSE UNCHANGED <<state, leading>>
             /\ UNCHANGED persistent
    <2>1. UNCHANGED <<currentTerm, votedFor>>
      BY <1>3 DEF persistent
    <2>2. /\ \A x \in Server : x # p => votes'[x] = votes[x] /\ state'[x] = state[x]
          /\ votes'[p] = IF r.granted THEN votes[p] \cup {q} ELSE votes[p]
          /\ \/ state'[p] = "Leader" /\ r.granted /\ Majority(votes[p] \cup {q})
             \/ state'[p] = "Candidate"
      <3>1. \/ state' = [state EXCEPT ![p] = "Leader"] /\ r.granted /\ Majority(votes[p] \cup {q})
            \/ UNCHANGED state
        BY <1>3 DEF BecomeLeader
      <3>2. /\ \A x \in Server : x # p => votes'[x] = votes[x]
            /\ votes'[p] = IF r.granted THEN votes[p] \cup {q} ELSE votes[p]
        BY <1>0, <1>3 DEF TypeOK
      <3>3. \A x \in Server : x # p => state'[x] = state[x]
        BY <1>0, <3>1 DEF TypeOK
      <3>4. \/ state'[p] = "Leader" /\ r.granted /\ Majority(votes[p] \cup {q})
            \/ state'[p] = "Candidate"
        <4>1. p \in DOMAIN state /\ state[p] = "Candidate"
          BY <1>0, <1>3 DEF TypeOK
        <4> QED BY <3>1, <4>1
      <3> QED BY <3>2, <3>3, <3>4
    <2>3. r.granted => Granted(q, p, currentTerm[p])
      BY <1>3 DEF Granted, Replied
    <2>4. ASSUME NEW x \in Server, NEW y \in Server, NEW u \in Nat, Granted(x, y, u)'
          PROVE  Granted(x, y, u)
      <3>1. CASE Replied(x, y, u)'
        BY <1>0, <3>1 DEF Granted, Replied
      <3>2. CASE Counted(x, y, u)' /\ y # p
        BY <2>1, <2>2, <3>2 DEF Granted, Counted
      <3>3. CASE Counted(x, y, u)' /\ y = p
        <4>1. u = currentTerm[p] /\ x \in votes'[p]
          BY <2>1, <3>3 DEF Counted
        <4>2. CASE x \in votes[p]
          BY <1>3, <3>3, <4>1, <4>2 DEF Granted, Counted
        <4>3. CASE x \notin votes[p]
          <5>1. x = q /\ r.granted
            BY <2>2, <4>1, <4>3
          <5> QED BY <2>3, <3>3, <4>1, <5>1
        <4> QED BY <4>2, <4>3
      <3> QED BY <2>4, <3>1, <3>2, <3>3 DEF Granted
    <2>5. Elected'
      <3>1. ASSUME NEW x \in Server, state'[x] = "Leader" PROVE Majority(votes'[x])
        BY <2>2, <3>1 DEF Ballots, Elected
      <3> QED BY <3>1 DEF Elected, Majority
    <2> QED BY <2>1, <2>4, <2>5, NoNewVote
  <1> QED BY <1>1, <1>2, <1>3 DEF VoteReply

(* What does not concern elections leaves votes and terms alone. *)
LEMMA LogVotes ==
    ASSUME TypeOK, Ballots, TypeOK',
           \/ \E m \in appReqs : AppendEntries(m)
           \/ \E r \in appReps : AppendReply(r)
    PROVE  Ballots' /\ VotesStep
  <1>1. ASSUME NEW m \in appReqs, AppendEntries(m) PROVE Ballots' /\ VotesStep
    <2>1. m.to \in Server /\ m.term \in Nat
      BY DEF TypeOK, AppReq
    <2>2. /\ UNCHANGED <<votes, voteReps>>
          /\ \/ UNCHANGED <<currentTerm, votedFor, state>>
             \/ m.term > currentTerm[m.to] /\ StepDown(m.to, m.term)
      BY <1>1 DEF AppendEntries
    <2> QED BY <2>1, <2>2, StepDownVotes
  <1>2. ASSUME NEW r \in appReps, AppendReply(r) PROVE Ballots' /\ VotesStep
    <2>1. r.from \in Server /\ r.replyTerm \in Nat
      BY DEF TypeOK, AppRep
    <2>2. /\ UNCHANGED <<votes, voteReps>>
          /\ \/ UNCHANGED <<currentTerm, votedFor, state>>
             \/ r.replyTerm > currentTerm[r.from] /\ StepDown(r.from, r.replyTerm)
      BY <1>2 DEF AppendReply
    <2> QED BY <2>1, <2>2, StepDownVotes
  <1> QED BY <1>1, <1>2

LEMMA SameVotes ==
    ASSUME Ballots, UNCHANGED <<currentTerm, votedFor, state, votes, voteReps>>
    PROVE  Ballots' /\ VotesStep
  <1>1. Ballots'
    BY DEF Ballots, Remembered, VotesOnce, Elected, Granted, Replied, Counted
  <1>2. VotesStep
    BY DEF VotesStep, Granted, Replied, Counted
  <1> QED BY <1>1, <1>2

LEMMA BallotsKept ==
    ASSUME TypeOK, Ballots, [Next]_vars, restarts' = 0 PROVE Ballots' /\ VotesStep
  <1>0. TypeOK'
    BY TypesKept
  <1>1. CASE \E p \in Server : StartElection(p)
    BY <1>0, <1>1, StartElectionVotes
  <1>2. CASE \E m \in voteReqs : RequestVote(m)
    BY <1>0, <1>2, RequestVoteVotes
  <1>3. CASE \E r \in voteReps : VoteReply(r)
    BY <1>0, <1>3, VoteReplyVotes
  <1>4. CASE (\E m \in appReqs : AppendEntries(m)) \/ (\E r \in appReps : AppendReply(r))
    BY <1>0, <1>4, LogVotes
  <1>5. CASE \/ LoseCall \/ UNCHANGED vars
             \/ \E p \in Server : \/ ApplyLogs(p)
                                  \/ \E c \in Command : Propose(p, c)
                                  \/ \E q \in Peers(p) : Replicate(p, q)
    <2>1. UNCHANGED <<currentTerm, votedFor, state, votes, voteReps>>
      BY <1>5 DEF LoseCall, ApplyLogs, Propose, Replicate, vars, persistent, calls
    <2> QED BY <2>1, SameVotes
  <1>6. CASE \E p \in Server : Restart(p)
    BY <1>6 DEF Restart, TypeOK
  <1> QED BY <1>1, <1>2, <1>3, <1>4, <1>5, <1>6 DEF Next

LEMMA BallotsHold == Spec => []IInv
  <1>1. Init => IInv
    <2> SUFFICES ASSUME Init PROVE IInv
      OBVIOUS
    <2>1. TypeOK
      BY InitTypes
    <2>2. \A q, p \in Server : \A t \in Nat : ~ Granted(q, p, t)
      BY DEF Init, Granted, Replied, Counted
    <2>3. Elected
      BY DEF Init, Elected
    <2> QED BY <2>1, <2>2, <2>3 DEF IInv, Ballots, Remembered, VotesOnce
  <1>2. IInv /\ [Next]_vars => IInv'
    <2> SUFFICES ASSUME IInv, [Next]_vars PROVE IInv'
      OBVIOUS
    <2>1. TypeOK /\ TypeOK'
      BY TypesKept DEF IInv
    <2>2. ASSUME restarts' = 0 PROVE restarts = 0
      <3>1. restarts' = restarts \/ restarts' = restarts + 1
        BY DEF Next, StartElection, ApplyLogs, Restart, Propose, Replicate, RequestVote, VoteReply,
               AppendEntries, AppendReply, LoseCall, vars
      <3> QED BY <2>1, <2>2, <3>1 DEF TypeOK
    <2>3. restarts' = 0 => Ballots'
      BY <2>1, <2>2, BallotsKept DEF IInv
    <2> QED BY <2>1, <2>3 DEF IInv
  <1> QED BY <1>1, <1>2, PTL DEF Spec

(* As long as no server restarts there is at most one leader in a term, for   *)
(* any number of servers and elections, whenever votes and replies arrive.   *)
THEOREM LeaderUnique == Spec => []ElectionSafety
  <1>1. IInv => ElectionSafety
    <2> SUFFICES ASSUME IInv, restarts = 0, NEW p \in Server, NEW q \in Server,
                        state[p] = "Leader", state[q] = "Leader", currentTerm[p] = currentTerm[q]
                 PROVE  p = q
      BY DEF ElectionSafety
    <2>1. Majority(votes[p]) /\ Majority(votes[q]) /\ VotesOnce
      BY DEF IInv, Ballots, Elected
    <2>2. votes[p] \subseteq Server /\ votes[q] \subseteq Server /\ currentTerm[p] \in Nat
      BY DEF IInv, TypeOK
    <2>3. PICK x \in Server : x \in votes[p] /\ x \in votes[q]
      BY <2>1, <2>2, MajoritiesMeet
    <2>4. Granted(x, p, currentTerm[p]) /\ Granted(x, q, currentTerm[p])
      BY <2>3 DEF Granted, Counted
    <2> QED BY <2>1, <2>2, <2>4 DEF VotesOnce
  <1> QED BY <1>1, BallotsHold, PTL

-----------------------------------------------------------------------------
(* An entry where it stands, in a log or in what a call carries: its index,  *)
(* and the term of the entry before it.                                      *)
LogLinks(l) ==
    {[index |-> n, entry |-> l[n], before |-> TermAt(l, n - 1)] : n \in DOMAIN l}

CallLinks(m) ==
    {[index |-> m.prev + i, entry |-> m.entries[i],
      before |-> IF i = 1 THEN m.prevTerm ELSE m.entries[i - 1].term] : i \in DOMAIN m.entries}

Links == (UNION {LogLinks(log[p]) : p \in Server}) \cup (UNION {CallLinks(m) : m \in appReqs})

(* Server q can no longer vote in term t for anybody but o, and has not. *)
Locked(q, o, t) ==
    /\ currentTerm[q] > t \/ (currentTerm[q] = t /\ votedFor[q] = o)
    /\ \A x \in Server : Granted(q, x, t) => x = o

(* Server o is or was the leader of term t, and nobody else can be. *)
Owner(o, t) ==
    /\ currentTerm[o] > t \/ (currentTerm[o] = t /\ state[o] = "Leader")
    /\ \E Q \in SUBSET Server : Majority(Q) /\ \A q \in Q : Locked(q, o, t)

(* Index and term determine an entry and the term before it, ... *)
Unique == \A a, b \in Links : a.index = b.index /\ a.entry.term = b.entry.term => a = b

(* ... a leader has every entry of its term, ... *)
Ahead ==
    \A p \in Server : state[p] = "Leader" =>
      \A a \in Links : a.entry.term = currentTerm[p] => a.index <= Len(log[p])

(* ... and calls and entries come from the leader of their term. *)
OwnedCalls   == \A m \in appReqs : m.to # m.from /\ Owner(m.from, m.term)
OwnedEntries == \A a \in Links : \E o \in Server : Owner(o, a.entry.term)

Logs == Unique /\ Ahead /\ OwnedCalls /\ OwnedEntries

-----------------------------------------------------------------------------
(* What the entries of logs and calls are. *)
LEMMA LogLinksType ==
    ASSUME NEW l \in Seq(Entry), NEW a \in LogLinks(l)
    PROVE  /\ a.index \in 1 .. Len(l) /\ a.entry \in Entry
           /\ a.entry = l[a.index] /\ a.before = TermAt(l, a.index - 1)
           /\ a = [index |-> a.index, entry |-> a.entry, before |-> a.before]
  <1>1. PICK n \in DOMAIN l : a = [index |-> n, entry |-> l[n], before |-> TermAt(l, n - 1)]
    BY DEF LogLinks
  <1>2. DOMAIN l = 1 .. Len(l) /\ l[n] \in Entry
    BY <1>1
  <1> QED BY <1>1, <1>2

LEMMA CallLinksType ==
    ASSUME NEW m \in AppReq, NEW a \in CallLinks(m)
    PROVE  a.index \in Nat /\ a.entry \in Entry
  <1>1. m.entries \in Seq(Entry) /\ m.prev \in Nat
    BY DEF AppReq
  <1>2. PICK i \in DOMAIN m.entries : a.index = m.prev + i /\ a.entry = m.entries[i]
    BY DEF CallLinks
  <1>3. i \in 1 .. Len(m.entries) /\ m.entries[i] \in Entry
    BY <1>1, <1>2
  <1> QED BY <1>1, <1>2, <1>3

LEMMA LinksType ==
    ASSUME TypeOK, NEW a \in Links PROVE a.index \in Nat /\ a.entry \in Entry /\ a.entry.term \in Nat
  <1>1. a.index \in Nat /\ a.entry \in Entry
    <2>1. ASSUME NEW p \in Server, a \in LogLinks(log[p]) PROVE a.index \in Nat /\ a.entry \in Entry
      <3>1. log[p] \in Seq(Entry)
        BY DEF TypeOK
      <3> QED BY <2>1, <3>1, LogLinksType
    <2>2. ASSUME NEW m \in appReqs, a \in CallLinks(m) PROVE a.index \in Nat /\ a.entry \in Entry
      <3>1. m \in AppReq
        BY DEF TypeOK
      <3> QED BY <2>2, <3>1, CallLinksType
    <2> QED BY <2>1, <2>2 DEF Links
  <1> QED BY <1>1 DEF Entry

(* What replicateToPeer sends stands in the log it is sent from. *)
LEMMA SentLinks ==
    ASSUME NEW l \in Seq(Entry), NEW k \in Nat, NEW m, k <= Len(l),
           m.prev = k, m.prevTerm = TermAt(l, k), m.entries = SubSeq(l, k + 1, Len(l))
    PROVE  CallLinks(m) \subseteq LogLinks(l)
  <1> SUFFICES ASSUME NEW i \in DOMAIN m.entries
               PROVE  [index |-> m.prev + i, entry |-> m.entries[i],
                       before |-> IF i = 1 THEN m.prevTerm ELSE m.entries[i - 1].term]
                      \in LogLinks(l)
    BY DEF CallLinks
  <1>1. DOMAIN m.entries = 1 .. Len(l) - k /\ DOMAIN l = 1 .. Len(l)
    OBVIOUS
  <1>2. \A j \in 1 .. Len(l) - k : m.entries[j] = l[k + j]
    OBVIOUS
  <1>3. k + i \in DOMAIN l /\ m.entries[i] = l[k + i]
    BY <1>1, <1>2
  <1>4. (IF i = 1 THEN m.prevTerm ELSE m.entries[i - 1].term) = TermAt(l, k + i - 1)
    <2>1. CASE i = 1
      BY <2>1
    <2>2. CASE i # 1
      <3>1. i - 1 \in 1 .. Len(l) - k
        BY <1>1, <2>2
      <3>2. m.entries[i - 1] = l[k + i - 1] /\ k + i - 1 # 0
        BY <1>2, <3>1
      <3> QED BY <2>2, <3>2 DEF TermAt
    <2> QED BY <2>1, <2>2
  <1>5. [index |-> k + i, entry |-> l[k + i], before |-> TermAt(l, k + i - 1)] \in LogLinks(l)
    BY <1>3 DEF LogLinks
  <1> QED BY <1>3, <1>4, <1>5

(* The beginning of one log before the end of another. *)
LEMMA Joined ==
    ASSUME NEW l \in Seq(Entry), NEW e \in Seq(Entry), NEW k \in 0 .. Len(l), NEW j \in 1 .. Len(e)
    PROVE  LET s == SubSeq(l, 1, k) \o SubSeq(e, j, Len(e))
           IN  /\ s \in Seq(Entry) /\ DOMAIN s = 1 .. k + (Len(e) - j + 1)
               /\ \A n \in 1 .. k : s[n] = l[n]
               /\ \A n \in k + 1 .. k + (Len(e) - j + 1) : s[n] = e[j + (n - k) - 1]
  <1>1. /\ SubSeq(l, 1, k) \o SubSeq(e, j, Len(e)) \in Seq(Entry)
        /\ DOMAIN (SubSeq(l, 1, k) \o SubSeq(e, j, Len(e))) = 1 .. k + (Len(e) - j + 1)
    OBVIOUS
  <1>2. \A n \in 1 .. k : (SubSeq(l, 1, k) \o SubSeq(e, j, Len(e)))[n] = l[n]
    OBVIOUS
  <1>3. \A n \in k + 1 .. k + (Len(e) - j + 1) :
          (SubSeq(l, 1, k) \o SubSeq(e, j, Len(e)))[n] = e[j + (n - k) - 1]
    OBVIOUS
  <1> QED BY <1>1, <1>2, <1>3

(* The first n entries that m carries stand in l already, by their terms. *)
Alike(l, m, n) ==
    \A i \in 1 .. n : m.prev + i <= Len(l) /\ l[m.prev + i].term = m.entries[i].term

(* The log after AppendEntries: as it was, or as it was up to the first entry *)
(* of the call that differs, and as the call from there on.                  *)
LEMMA MergedCases ==
    ASSUME NEW l \in Seq(Entry), NEW m \in AppReq, m.prev <= Len(l)
    PROVE  \/ Merged(l, m) = l /\ Alike(l, m, Len(m.entries))
           \/ \E j \in 1 .. Len(m.entries) :
                /\ Alike(l, m, j - 1)
                /\ ~ (m.prev + j <= Len(l) /\ l[m.prev + j].term = m.entries[j].term)
                /\ DOMAIN Merged(l, m) = 1 .. m.prev + Len(m.entries)
                /\ Len(Merged(l, m)) = m.prev + Len(m.entries)
                /\ \A n \in 1 .. m.prev + j - 1 : Merged(l, m)[n] = l[n]
                /\ \A n \in m.prev + j .. m.prev + Len(m.entries) :
                     Merged(l, m)[n] = m.entries[n - m.prev]
  <1> DEFINE e == m.entries
             differs(i) == m.prev + i > Len(l) \/ l[m.prev + i].term # e[i].term
             D == {i \in DOMAIN e : differs(i)}
             j == CHOOSE i \in D : \A k \in D : i <= k
             cut == m.prev + j - 1
             L == Merged(l, m)
  <1>1. /\ e \in Seq(Entry) /\ m.prev \in Nat /\ Len(e) \in Nat /\ Len(l) \in Nat
        /\ DOMAIN e = 1 .. Len(e) /\ DOMAIN l = 1 .. Len(l)
    BY DEF AppReq
  <1>2. /\ D = {} => L = l
        /\ D # {} => L = SubSeq(l, 1, cut) \o SubSeq(e, j, Len(e))
    BY DEF Merged
  <1> HIDE DEF L
  <1>3. \A i \in 1 .. Len(e) : i \notin D =>
          m.prev + i <= Len(l) /\ l[m.prev + i].term = e[i].term
    BY <1>1
  <1>4. CASE D = {}
    <2>1. \A i \in 1 .. Len(e) : i \notin D
      BY <1>4
    <2> HIDE DEF D
    <2> QED BY <1>2, <1>3, <1>4, <2>1 DEF L, Alike
  <1>5. CASE D # {}
    <2>1. j \in D /\ \A k \in D : j <= k
      <3>1. D \subseteq Nat
        BY <1>1
      <3> HIDE DEF D
      <3> QED BY <1>5, <3>1, LeastExists
    <2> HIDE DEF j
    <2>2. j \in 1 .. Len(e) /\ differs(j)
      BY <1>1, <2>1
    <2> HIDE DEF D, e
    <2>3. \A i \in 1 .. j - 1 : i \in 1 .. Len(e) /\ i \notin D
      BY <1>1, <2>1, <2>2
    <2>4. Alike(l, m, j - 1)
      BY <1>3, <2>3 DEF Alike, e
    <2>5. cut \in 0 .. Len(l)
      <3>1. CASE j = 1
        BY <1>1, <3>1
      <3>2. CASE j # 1
        <4>1. j - 1 \in 1 .. j - 1
          BY <2>2, <3>2
        <4>2. m.prev + (j - 1) <= Len(l)
          BY <2>4, <4>1 DEF Alike
        <4> QED BY <1>1, <2>2, <4>2
      <3> QED BY <3>1, <3>2
    <2>6. LET s == SubSeq(l, 1, cut) \o SubSeq(e, j, Len(e))
          IN  /\ s \in Seq(Entry) /\ DOMAIN s = 1 .. cut + (Len(e) - j + 1)
              /\ \A n \in 1 .. cut : s[n] = l[n]
              /\ \A n \in cut + 1 .. cut + (Len(e) - j + 1) : s[n] = e[j + (n - cut) - 1]
      BY <1>1, <2>2, <2>5, Joined
    <2>7. /\ L \in Seq(Entry) /\ DOMAIN L = 1 .. cut + (Len(e) - j + 1)
          /\ \A n \in 1 .. cut : L[n] = l[n]
          /\ \A n \in cut + 1 .. cut + (Len(e) - j + 1) : L[n] = e[j + (n - cut) - 1]
      BY <1>2, <1>5, <2>6
    <2>8. /\ cut + (Len(e) - j + 1) = m.prev + Len(e) /\ cut + 1 = m.prev + j
          /\ \A n \in Int : j + (n - cut) - 1 = n - m.prev
      BY <1>1, <2>2
    <2>9. /\ L \in Seq(Entry) /\ DOMAIN L = 1 .. m.prev + Len(e)
          /\ \A n \in m.prev + j .. m.prev + Len(e) : L[n] = e[n - m.prev]
      <3>1. DOMAIN L = 1 .. m.prev + Len(e)
        <4> HIDE DEF cut
        <4> QED BY <2>7, <2>8
      <3>2. ASSUME NEW n \in m.prev + j .. m.prev + Len(e) PROVE L[n] = e[n - m.prev]
        <4>1. n \in Int
          BY <1>1, <2>2
        <4>2. n \in cut + 1 .. cut + (Len(e) - j + 1)
          BY <1>1, <2>2
        <4>3. L[n] = e[j + (n - cut) - 1]
          BY <2>7, <4>2
        <4>4. j + (n - cut) - 1 = n - m.prev
          BY <2>8, <4>1
        <4> QED BY <4>3, <4>4
      <3> QED BY <2>7, <3>1, <3>2
    <2>10. Len(L) = m.prev + Len(e)
      BY <1>1, <2>9
    <2>11. ~ (m.prev + j <= Len(l) /\ l[m.prev + j].term = e[j].term)
      BY <1>1, <2>2
    <2> QED BY <2>2, <2>4, <2>7, <2>9, <2>10, <2>11 DEF e, L
  <1> QED BY <1>4, <1>5

(* An entry of the log after AppendEntries stood in the log or in the call.  *)
(* Where one gives way to the other the term before is that of both.         *)
LEMMA MergedLinks ==
    ASSUME NEW l \in Seq(Entry), NEW m \in AppReq,
           m.prev <= Len(l), TermAt(l, m.prev) = m.prevTerm
    PROVE  LogLinks(Merged(l, m)) \subseteq LogLinks(l) \cup CallLinks(m)
  <1> DEFINE L == Merged(l, m)
             e == m.entries
  <1>1. /\ e \in Seq(Entry) /\ m.prev \in Nat /\ Len(e) \in Nat /\ Len(l) \in Nat
        /\ DOMAIN e = 1 .. Len(e) /\ DOMAIN l = 1 .. Len(l)
    BY DEF AppReq
  <1> HIDE DEF L, e
  <1>2. ASSUME NEW j \in 1 .. Len(e), Alike(l, m, j - 1),
               DOMAIN L = 1 .. m.prev + Len(e),
               \A n \in 1 .. m.prev + j - 1 : L[n] = l[n],
               \A n \in m.prev + j .. m.prev + Len(e) : L[n] = e[n - m.prev],
               NEW n \in DOMAIN L
        PROVE  [index |-> n, entry |-> L[n], before |-> TermAt(L, n - 1)]
               \in LogLinks(l) \cup CallLinks(m)
    <2> DEFINE cut == m.prev + j - 1
    <2>0. j = 1 \/ j - 1 \in 1 .. j - 1
      OBVIOUS
    <2>1. j # 1 => m.prev + (j - 1) <= Len(l) /\ l[m.prev + (j - 1)].term = e[j - 1].term
      BY <1>2, <2>0 DEF Alike, e
    <2>2. cut \in 0 .. Len(l) /\ n \in 1 .. m.prev + Len(e) /\ cut = m.prev + (j - 1)
      BY <1>1, <1>2, <2>1 DEF e
    <2>3. TermAt(L, cut) = TermAt(l, cut)
      <3>1. cut = 0 \/ L[cut] = l[cut]
        BY <1>2, <2>2
      <3> QED BY <3>1 DEF TermAt
    <2>4. TermAt(l, cut) = IF j = 1 THEN m.prevTerm ELSE e[j - 1].term
      <3>1. CASE j = 1
        <4>1. cut = m.prev
          BY <1>1, <3>1
        <4> QED BY <3>1, <4>1
      <3>2. CASE j # 1
        <4>1. cut # 0
          BY <1>1, <3>2
        <4> QED BY <2>1, <2>2, <3>2, <4>1 DEF TermAt
      <3> QED BY <3>1, <3>2
    <2>5. CASE n <= cut
      <3>1. n \in 1 .. cut /\ (n - 1 = 0 \/ n - 1 \in 1 .. cut)
        BY <2>2, <2>5
      <3>2. n \in DOMAIN l /\ L[n] = l[n]
        BY <1>1, <1>2, <2>2, <3>1
      <3>3. TermAt(L, n - 1) = TermAt(l, n - 1)
        BY <1>2, <3>1 DEF TermAt
      <3> QED BY <3>2, <3>3 DEF LogLinks
    <2>6. CASE n > cut
      <3> DEFINE i == n - m.prev
      <3>1. i \in 1 .. Len(e) /\ n = m.prev + i /\ i >= j
        BY <1>1, <2>2, <2>6
      <3>2. n \in m.prev + j .. m.prev + Len(e)
        BY <1>1, <3>1
      <3>3. L[n] = e[i]
        BY <1>2, <3>2
      <3>4. TermAt(L, n - 1) = IF i = 1 THEN m.prevTerm ELSE e[i - 1].term
        <4>1. CASE i = j
          <5>1. n - 1 = cut
            BY <1>1, <3>1, <4>1
          <5> QED BY <2>3, <2>4, <4>1, <5>1
        <4>2. CASE i # j
          <5>1. n - 1 \in m.prev + j .. m.prev + Len(e) /\ n - 1 # 0 /\ i # 1
            BY <1>1, <3>1, <4>2
          <5>2. n - 1 - m.prev = i - 1
            BY <1>1, <3>1
          <5> QED BY <1>2, <5>1, <5>2 DEF TermAt
        <4> QED BY <4>1, <4>2
      <3> HIDE DEF i
      <3>5. [index |-> m.prev + i, entry |-> e[i],
             before |-> IF i = 1 THEN m.prevTerm ELSE e[i - 1].term] \in CallLinks(m)
        BY <1>1, <3>1 DEF CallLinks, e
      <3> QED BY <3>1, <3>3, <3>4, <3>5
    <2> QED BY <2>2, <2>5, <2>6
  <1>3. CASE L = l
    BY <1>3 DEF L
  <1>4. L = l \/ \A a \in LogLinks(L) : a \in LogLinks(l) \cup CallLinks(m)
    BY <1>2, MergedCases DEF L, e, LogLinks
  <1> QED BY <1>3, <1>4 DEF L

-----------------------------------------------------------------------------
(* What becomes of leaders: they stay until their term rises, and a new one   *)
(* was a candidate.                                                          *)
LeadersStep ==
    \A p \in Server :
      /\ state[p] = "Leader" /\ state'[p] # "Leader" => currentTerm'[p] > currentTerm[p]
      /\ state'[p] = "Leader" =>
           currentTerm'[p] = currentTerm[p] /\ state[p] \in {"Leader", "Candidate"}

(* A lock, and so an owner, outlasts every step. *)
LEMMA LockedKept ==
    ASSUME TypeOK, TypeOK', VotesStep, NEW q \in Server, NEW o \in Server, NEW t \in Nat, Locked(q, o, t)
    PROVE  Locked(q, o, t)'
  <1>1. currentTerm[q] \in Nat /\ currentTerm'[q] \in Nat /\ Nobody \notin Server
    BY RaftAssumption DEF TypeOK
  <1>2. currentTerm'[q] > t \/ (currentTerm'[q] = t /\ votedFor'[q] = o)
    BY <1>1 DEF Locked, VotesStep
  <1>3. ASSUME NEW x \in Server, Granted(q, x, t)' PROVE x = o
    <2>1. Granted(q, x, t) \/ t > currentTerm[q] \/ (t = currentTerm[q] /\ votedFor[q] \in {Nobody, x})
      BY <1>3 DEF VotesStep
    <2> QED BY <1>1, <2>1 DEF Locked
  <1> QED BY <1>2, <1>3 DEF Locked

LEMMA OwnerKept ==
    ASSUME TypeOK, TypeOK', VotesStep, LeadersStep, NEW o \in Server, NEW t \in Nat, Owner(o, t)
    PROVE  Owner(o, t)'
  <1>1. currentTerm[o] \in Nat /\ currentTerm'[o] \in Nat
    BY DEF TypeOK
  <1>2. currentTerm'[o] >= currentTerm[o]
    BY <1>1 DEF VotesStep
  <1>3. currentTerm'[o] > t \/ (currentTerm'[o] = t /\ state'[o] = "Leader")
    BY <1>1, <1>2 DEF Owner, LeadersStep
  <1>4. PICK Q \in SUBSET Server : Majority(Q) /\ \A q \in Q : Locked(q, o, t)
    BY DEF Owner
  <1>5. Majority(Q)' /\ \A q \in Q : Locked(q, o, t)'
    BY <1>4, LockedKept DEF Majority
  <1> QED BY <1>3, <1>5 DEF Owner

(* A leader owns its term, alone. *)
LEMMA LeaderOwns ==
    ASSUME TypeOK, Ballots, NEW p \in Server, state[p] = "Leader"
    PROVE  Owner(p, currentTerm[p])
  <1>1. votes[p] \in SUBSET Server /\ Majority(votes[p]) /\ currentTerm[p] \in Nat
    BY DEF TypeOK, Ballots, Elected
  <1>2. ASSUME NEW q \in votes[p] PROVE Locked(q, p, currentTerm[p])
    <2>1. q \in Server /\ Granted(q, p, currentTerm[p])
      BY <1>1 DEF Granted, Counted
    <2> QED BY <1>1, <2>1 DEF Locked, Ballots, Remembered, VotesOnce
  <1> QED BY <1>1, <1>2 DEF Owner

LEMMA OwnerOfVotes ==
    ASSUME TypeOK, NEW p \in Server, NEW o \in Server, NEW t \in Nat, Owner(o, t),
           NEW Q \in SUBSET Server, Majority(Q), \A q \in Q : Granted(q, p, t)
    PROVE  p = o
  <1>1. PICK S \in SUBSET Server : Majority(S) /\ \A q \in S : Locked(q, o, t)
    BY DEF Owner
  <1>2. PICK q \in Server : q \in Q /\ q \in S
    BY <1>1, MajoritiesMeet
  <1> QED BY <1>1, <1>2 DEF Locked

LEMMA LeaderIsOwner ==
    ASSUME TypeOK, Ballots, NEW p \in Server, state[p] = "Leader",
           NEW o \in Server, Owner(o, currentTerm[p])
    PROVE  p = o
  <1>1. votes[p] \in SUBSET Server /\ Majority(votes[p]) /\ currentTerm[p] \in Nat
    BY DEF TypeOK, Ballots, Elected
  <1>2. \A q \in votes[p] : Granted(q, p, currentTerm[p])
    BY <1>1 DEF Granted, Counted
  <1> QED BY <1>1, <1>2, OwnerOfVotes

(* A server that has just been elected finds no entry and no call of its     *)
(* term.                                                                     *)
LEMMA NewTermUnused ==
    ASSUME TypeOK, TypeOK', Ballots', VotesStep, LeadersStep,
           NEW p \in Server, state[p] # "Leader", state'[p] = "Leader", NEW o \in Server
    PROVE  ~ Owner(o, currentTerm[p])
  <1> SUFFICES ASSUME Owner(o, currentTerm[p]) PROVE FALSE
    OBVIOUS
  <1>1. currentTerm[p] \in Nat /\ currentTerm'[p] = currentTerm[p]
    BY DEF TypeOK, LeadersStep
  <1>2. Owner(o, currentTerm[p])'
    <2>1. \A t \in Nat : Owner(o, t) => Owner(o, t)'
      BY OwnerKept
    <2> QED BY <1>1, <2>1
  <1>3. p = o
    <2>1. PICK S \in SUBSET Server : Majority(S)' /\ \A q \in S : Locked(q, o, currentTerm[p])'
      BY <1>2 DEF Owner
    <2>2. votes'[p] \in SUBSET Server /\ Majority(votes'[p])
      BY DEF TypeOK, Ballots, Elected, Majority
    <2>3. PICK q \in Server : q \in S /\ q \in votes'[p]
      BY <2>1, <2>2, MajoritiesMeet DEF Majority
    <2>4. Granted(q, p, currentTerm[p])'
      BY <2>3 DEF Granted, Counted
    <2> QED BY <1>1, <2>1, <2>3, <2>4 DEF Locked
  <1> QED BY <1>1, <1>3 DEF Owner
-----------------------------------------------------------------------------
LEMMA StepDownLeaders ==
    ASSUME TypeOK, NEW p \in Server, NEW t \in Nat,
           \/ UNCHANGED <<currentTerm, votedFor, state>>
           \/ t > currentTerm[p] /\ StepDown(p, t)
    PROVE  LeadersStep
  <1>1. CASE UNCHANGED <<currentTerm, votedFor, state>>
    BY <1>1 DEF LeadersStep, TypeOK
  <1>2. CASE t > currentTerm[p] /\ StepDown(p, t)
    <2>1. /\ currentTerm'[p] = t /\ state'[p] = "Follower"
          /\ \A x \in Server : x # p => UNCHANGED <<currentTerm[x], state[x]>>
      BY <1>2 DEF StepDown, TypeOK
    <2> QED BY <1>2, <2>1 DEF LeadersStep, TypeOK
  <1> QED BY <1>1, <1>2

LEMMA ElectionLeaders ==
    ASSUME TypeOK,
           \/ \E p \in Server : StartElection(p)
           \/ \E m \in voteReqs : RequestVote(m)
           \/ \E r \in voteReps : VoteReply(r)
    PROVE  LeadersStep
  <1>1. ASSUME NEW p \in Server, StartElection(p) PROVE LeadersStep
    <2>1. /\ state[p] # "Leader" /\ state'[p] = "Candidate"
          /\ \A x \in Server : x # p => UNCHANGED <<currentTerm[x], state[x]>>
      BY <1>1 DEF StartElection, TypeOK
    <2> QED BY <2>1 DEF LeadersStep
  <1>2. ASSUME NEW m \in voteReqs, RequestVote(m) PROVE LeadersStep
    <2> DEFINE q == m.to
               newer == m.term > currentTerm[q]
    <2>1. q \in Server /\ newer \in BOOLEAN
      BY DEF TypeOK, VoteCall
    <2>2. /\ currentTerm' = [currentTerm EXCEPT ![q] = IF newer THEN m.term ELSE @]
          /\ state' = [state EXCEPT ![q] = IF newer THEN "Follower" ELSE @]
      BY <1>2 DEF RequestVote
    <2>3. /\ newer => currentTerm'[q] > currentTerm[q] /\ state'[q] = "Follower"
          /\ ~ newer => currentTerm'[q] = currentTerm[q] /\ state'[q] = state[q]
          /\ \A x \in Server : x # q => UNCHANGED <<currentTerm[x], state[x]>>
      BY <2>1, <2>2 DEF TypeOK
    <2> HIDE DEF newer
    <2> QED BY <2>1, <2>3 DEF LeadersStep, TypeOK
  <1>3. ASSUME NEW r \in voteReps, VoteReply(r) PROVE LeadersStep
    <2> DEFINE p == r.call.from
    <2>1. p \in Server /\ r.term \in Nat
      BY DEF TypeOK, VoteRep, VoteCall
    <2>2. \/ UNCHANGED <<currentTerm, votedFor, state>>
          \/ r.term > currentTerm[p] /\ StepDown(p, r.term)
          \/ state[p] = "Candidate" /\ BecomeLeader(p) /\ UNCHANGED currentTerm
      BY <1>3 DEF VoteReply, persistent
    <2>3. CASE state[p] = "Candidate" /\ BecomeLeader(p) /\ UNCHANGED currentTerm
      <3>1. /\ state'[p] = "Leader"
            /\ \A x \in Server : x # p => UNCHANGED state[x]
        BY <2>1, <2>3 DEF BecomeLeader, TypeOK
      <3> QED BY <2>3, <3>1 DEF LeadersStep
    <2> QED BY <2>1, <2>2, <2>3, StepDownLeaders
  <1> QED BY <1>1, <1>2, <1>3

LEMMA LeadersChange ==
    ASSUME TypeOK, [Next]_vars, restarts' = 0 PROVE LeadersStep
  <1>1. CASE \/ \E p \in Server : StartElection(p)
             \/ \E m \in voteReqs : RequestVote(m)
             \/ \E r \in voteReps : VoteReply(r)
    BY <1>1, ElectionLeaders
  <1>2. ASSUME NEW m \in appReqs, AppendEntries(m) PROVE LeadersStep
    <2>1. m.to \in Server /\ m.term \in Nat
      BY DEF TypeOK, AppReq
    <2>2. \/ UNCHANGED <<currentTerm, votedFor, state>>
          \/ m.term > currentTerm[m.to] /\ StepDown(m.to, m.term)
      BY <1>2 DEF AppendEntries
    <2> QED BY <2>1, <2>2, StepDownLeaders
  <1>3. ASSUME NEW r \in appReps, AppendReply(r) PROVE LeadersStep
    <2>1. r.from \in Server /\ r.replyTerm \in Nat
      BY DEF TypeOK, AppRep
    <2>2. \/ UNCHANGED <<currentTerm, votedFor, state>>
          \/ r.replyTerm > currentTerm[r.from] /\ StepDown(r.from, r.replyTerm)
      BY <1>3 DEF AppendReply
    <2> QED BY <2>1, <2>2, StepDownLeaders
  <1>4. CASE \/ LoseCall \/ UNCHANGED vars
             \/ \E p \in Server : \/ ApplyLogs(p)
                                  \/ \E c \in Command : Propose(p, c)
                                  \/ \E q \in Peers(p) : Replicate(p, q)
    <2>1. UNCHANGED <<currentTerm, state>>
      BY <1>4 DEF LoseCall, ApplyLogs, Propose, Replicate, vars, persistent
    <2> QED BY <2>1 DEF LeadersStep, TypeOK
  <1>5. CASE \E p \in Server : Restart(p)
    BY <1>5 DEF Restart, TypeOK
  <1> QED BY <1>1, <1>2, <1>3, <1>4, <1>5 DEF Next

(* A leader's log only grows: its own calls go to others, and nobody else     *)
(* sends calls of its term.                                                  *)
LogsStep ==
    \A p \in Server : state[p] = "Leader" /\ state'[p] = "Leader" =>
      Len(log'[p]) >= Len(log[p]) /\ SubSeq(log'[p], 1, Len(log[p])) = log[p]

LEMMA LeaderLogKept ==
    ASSUME TypeOK, Ballots, Logs, NEW m \in appReqs, AppendEntries(m),
           NEW p \in Server, state[p] = "Leader", state'[p] = "Leader"
    PROVE  log'[p] = log[p]
  <1>1. m \in AppReq /\ m.to \in Server /\ m.from \in Server /\ m.term \in Nat
    BY DEF TypeOK, AppReq
  <1>2. CASE p # m.to
    BY <1>1, <1>2 DEF AppendEntries, TypeOK
  <1>3. CASE p = m.to
    <2>1. m.term # currentTerm[p]
      BY <1>1, <1>3, LeaderIsOwner DEF Logs, OwnedCalls
    <2>2. ~ (m.term > currentTerm[p])
      <3>1. m.term > currentTerm[p] => state'[p] = "Follower"
        BY <1>1, <1>3 DEF AppendEntries, StepDown, TypeOK
      <3> QED BY <3>1
    <2>3. m.term < currentTerm[p]
      BY <1>1, <2>1, <2>2 DEF TypeOK
    <2> QED BY <1>1, <1>3, <2>3 DEF AppendEntries, TypeOK
  <1> QED BY <1>2, <1>3

LEMMA SameLog ==
    ASSUME TypeOK, NEW p \in Server, log'[p] = log[p]
    PROVE  Len(log'[p]) >= Len(log[p]) /\ SubSeq(log'[p], 1, Len(log[p])) = log[p]
  <1>1. log[p] \in Seq(Entry)
    BY DEF TypeOK
  <1>2. Len(log[p]) \in Nat /\ SubSeq(log[p], 1, Len(log[p])) = log[p]
    BY <1>1
  <1> QED BY <1>2

LEMMA LogsChange ==
    ASSUME TypeOK, Ballots, Logs, [Next]_vars, restarts' = 0 PROVE LogsStep
  <1>1. ASSUME NEW m \in appReqs, AppendEntries(m) PROVE LogsStep
    BY <1>1, LeaderLogKept, SameLog DEF LogsStep
  <1>2. ASSUME NEW p \in Server, NEW c \in Command, Propose(p, c) PROVE LogsStep
    <2> DEFINE e == [term |-> currentTerm[p], cmd |-> c]
    <2>1. log[p] \in Seq(Entry) /\ e \in Entry
      BY DEF TypeOK, Entry
    <2>2. log' = [log EXCEPT ![p] = Append(log[p], e)]
      BY <1>2 DEF Propose
    <2> HIDE DEF e
    <2>3. /\ Len(Append(log[p], e)) >= Len(log[p])
          /\ SubSeq(Append(log[p], e), 1, Len(log[p])) = log[p]
      BY <2>1
    <2>4. /\ log'[p] = Append(log[p], e)
          /\ \A x \in Server : x # p => log'[x] = log[x]
      BY <2>2 DEF TypeOK
    <2> QED BY <2>3, <2>4, SameLog DEF LogsStep
  <1>3. CASE UNCHANGED log
    BY <1>3, SameLog DEF LogsStep
  <1>4. CASE \E p \in Server : Restart(p)
    BY <1>4 DEF Restart, TypeOK
  <1>5. \/ \E m \in appReqs : AppendEntries(m)
        \/ \E p \in Server : \E c \in Command : Propose(p, c)
        \/ \E p \in Server : Restart(p)
        \/ UNCHANGED log
    BY DEF Next, StartElection, ApplyLogs, Replicate, RequestVote, VoteReply, AppendReply, LoseCall,
           vars, persistent
  <1> QED BY <1>1, <1>2, <1>3, <1>4, <1>5
-----------------------------------------------------------------------------
(* A step that puts no new entry anywhere. *)
LEMMA NoNewLink ==
    ASSUME TypeOK, TypeOK', Ballots, Ballots', VotesStep, LeadersStep, LogsStep, Logs,
           Links' \subseteq Links,
           \A m \in appReqs' : \/ m \in appReqs
                               \/ /\ m.to # m.from /\ state[m.from] = "Leader"
                                  /\ m.term = currentTerm[m.from]
    PROVE  Logs'
  <1>1. Unique'
    BY DEF Logs, Unique
  <1>2. ASSUME NEW o \in Server, NEW t \in Nat, Owner(o, t) PROVE Owner(o, t)'
    BY <1>2, OwnerKept
  <1>3. OwnedEntries'
    <2> SUFFICES ASSUME NEW a \in Links' PROVE \E o \in Server : Owner(o, a.entry.term)'
      BY DEF OwnedEntries
    <2>1. a \in Links
      OBVIOUS
    <2>2. a.entry.term \in Nat
      BY <2>1, LinksType
    <2>3. PICK o \in Server : Owner(o, a.entry.term)
      BY <2>1 DEF Logs, OwnedEntries
    <2> QED BY <1>2, <2>2, <2>3
  <1>4. OwnedCalls'
    <2> SUFFICES ASSUME NEW m \in appReqs' PROVE m.to # m.from /\ Owner(m.from, m.term)'
      BY DEF OwnedCalls
    <2>1. m.from \in Server /\ m.term \in Nat
      BY DEF TypeOK, AppReq
    <2>2. m.to # m.from /\ Owner(m.from, m.term)
      BY <2>1, LeaderOwns DEF Logs, OwnedCalls
    <2> QED BY <1>2, <2>1, <2>2
  <1>5. Ahead'
    <2> SUFFICES ASSUME NEW p \in Server, state'[p] = "Leader",
                        NEW a \in Links', a.entry.term = currentTerm'[p]
                 PROVE  a.index <= Len(log'[p])
      BY DEF Ahead
    <2>1. /\ a \in Links /\ a.index \in Nat
          /\ currentTerm'[p] = currentTerm[p]
      BY LinksType DEF LeadersStep
    <2>2. CASE state[p] = "Leader"
      <3>1. a.index <= Len(log[p])
        BY <2>1, <2>2 DEF Logs, Ahead
      <3>2. Len(log'[p]) >= Len(log[p]) /\ Len(log'[p]) \in Nat /\ Len(log[p]) \in Nat
        BY <2>2 DEF LogsStep, TypeOK
      <3> QED BY <2>1, <3>1, <3>2
    <2>3. CASE state[p] # "Leader"
      <3>1. PICK o \in Server : Owner(o, currentTerm[p])
        BY <2>1 DEF Logs, OwnedEntries
      <3> QED BY <2>3, <3>1, NewTermUnused
    <2> QED BY <2>2, <2>3
  <1> QED BY <1>1, <1>3, <1>4, <1>5 DEF Logs

(* The entry a leader appends is the first of its term at its index. *)
LEMMA ProposeLinks ==
    ASSUME TypeOK, NEW p \in Server, NEW c \in Command, Propose(p, c)
    PROVE  Links' \subseteq Links \cup
             {[index |-> Len(log[p]) + 1, entry |-> [term |-> currentTerm[p], cmd |-> c],
               before |-> TermAt(log[p], Len(log[p]))]}
  <1> DEFINE l == log[p]
             e == [term |-> currentTerm[p], cmd |-> c]
             s == Append(l, e)
             a == [index |-> Len(l) + 1, entry |-> e, before |-> TermAt(l, Len(l))]
  <1>1. l \in Seq(Entry) /\ e \in Entry
    BY DEF TypeOK, Entry
  <1>2. /\ log'[p] = s /\ appReqs' = appReqs
        /\ \A x \in Server : x # p => log'[x] = log[x]
    BY DEF Propose, calls, TypeOK
  <1> HIDE DEF e, l
  <1>3. /\ DOMAIN s = 1 .. Len(l) + 1 /\ DOMAIN l = 1 .. Len(l) /\ Len(l) \in Nat
        /\ s[Len(l) + 1] = e /\ \A n \in 1 .. Len(l) : s[n] = l[n]
    BY <1>1
  <1> HIDE DEF s
  <1>4. \A n \in 0 .. Len(l) : TermAt(s, n) = TermAt(l, n)
    BY <1>3 DEF TermAt
  <1>5. LogLinks(s) \subseteq LogLinks(l) \cup {a}
    <2> SUFFICES ASSUME NEW n \in 1 .. Len(l) + 1
                 PROVE  [index |-> n, entry |-> s[n], before |-> TermAt(s, n - 1)]
                        \in LogLinks(l) \cup {a}
      BY <1>3 DEF LogLinks
    <2>1. TermAt(s, n - 1) = TermAt(l, n - 1)
      BY <1>3, <1>4
    <2>2. CASE n = Len(l) + 1
      <3>1. n - 1 = Len(l)
        BY <1>3, <2>2
      <3> QED BY <1>3, <2>1, <2>2, <3>1
    <2>3. CASE n # Len(l) + 1
      <3>1. n \in DOMAIN l /\ s[n] = l[n]
        BY <1>3, <2>3
      <3> QED BY <2>1, <3>1 DEF LogLinks
    <2> QED BY <2>2, <2>3
  <1>6. LogLinks(l) \subseteq Links
    BY DEF Links, l
  <1> HIDE DEF a
  <1>7. ASSUME NEW b \in Links' PROVE b \in Links \cup {a}
    <2>1. CASE \E m \in appReqs' : b \in CallLinks(m)
      BY <1>2, <2>1 DEF Links
    <2>2. CASE \E x \in Server : b \in LogLinks(log'[x])
      <3>1. PICK x \in Server : b \in LogLinks(log'[x])
        BY <2>2
      <3>2. CASE x = p
        BY <1>2, <1>5, <1>6, <3>1, <3>2
      <3>3. CASE x # p
        BY <1>2, <3>1, <3>3 DEF Links
      <3> QED BY <3>2, <3>3
    <2> QED BY <1>7, <2>1, <2>2 DEF Links
  <1> QED BY <1>7 DEF a, e, l

LEMMA ProposeLogs ==
    ASSUME TypeOK, TypeOK', Ballots, Ballots', VotesStep, LeadersStep, Logs,
           NEW p \in Server, NEW c \in Command, Propose(p, c)
    PROVE  Logs'
  <1> DEFINE e == [term |-> currentTerm[p], cmd |-> c]
             new == [index |-> Len(log[p]) + 1, entry |-> e,
                     before |-> TermAt(log[p], Len(log[p]))]
  <1>1. /\ log[p] \in Seq(Entry) /\ Len(log[p]) \in Nat /\ currentTerm[p] \in Nat
        /\ new.index = Len(log[p]) + 1 /\ new.entry.term = currentTerm[p]
    BY DEF TypeOK
  <1>2. /\ state[p] = "Leader"
        /\ UNCHANGED <<currentTerm, state, appReqs>>
        /\ Len(log'[p]) = Len(log[p]) + 1
        /\ \A x \in Server : x # p => log'[x] = log[x]
    <2>1. /\ log'[p] = Append(log[p], e) /\ \A x \in Server : x # p => log'[x] = log[x]
      BY DEF Propose, TypeOK
    <2> HIDE DEF e
    <2>2. Len(Append(log[p], e)) = Len(log[p]) + 1
      BY <1>1
    <2> QED BY <2>1, <2>2 DEF Propose, calls
  <1>3. Links' \subseteq Links \cup {new}
    BY ProposeLinks
  <1> HIDE DEF e, new
  <1>4. \A a \in Links : a.entry.term = currentTerm[p] => a.index <= Len(log[p])
    BY <1>2 DEF Logs, Ahead
  <1>5. \A a \in Links : a.index \in Nat /\ a.entry.term \in Nat
    BY LinksType
  <1>6. Unique'
    <2> SUFFICES ASSUME NEW a \in Links', NEW b \in Links',
                        a.index = b.index, a.entry.term = b.entry.term
                 PROVE  a = b
      BY DEF Unique
    <2>1. \A x \in Links : ~ (x.index = new.index /\ x.entry.term = new.entry.term)
      BY <1>1, <1>4, <1>5
    <2> QED BY <1>3, <2>1 DEF Logs, Unique
  <1>7. ASSUME NEW o \in Server, NEW t \in Nat, Owner(o, t) PROVE Owner(o, t)'
    BY <1>7, OwnerKept
  <1>8. Owner(p, currentTerm[p])
    BY <1>2, LeaderOwns
  <1>9. OwnedEntries'
    <2> SUFFICES ASSUME NEW a \in Links' PROVE \E o \in Server : Owner(o, a.entry.term)'
      BY DEF OwnedEntries
    <2>1. a.entry.term \in Nat /\ \E o \in Server : Owner(o, a.entry.term)
      BY <1>1, <1>3, <1>5, <1>8 DEF Logs, OwnedEntries
    <2> QED BY <1>7, <2>1
  <1>10. OwnedCalls'
    <2> SUFFICES ASSUME NEW m \in appReqs PROVE m.to # m.from /\ Owner(m.from, m.term)'
      BY <1>2 DEF OwnedCalls
    <2>1. m.from \in Server /\ m.term \in Nat
      BY DEF TypeOK, AppReq
    <2> QED BY <1>7, <2>1 DEF Logs, OwnedCalls
  <1>11. Ahead'
    <2> SUFFICES ASSUME NEW x \in Server, state[x] = "Leader",
                        NEW a \in Links', a.entry.term = currentTerm[x]
                 PROVE  a.index <= Len(log'[x])
      BY <1>2 DEF Ahead
    <2>1. CASE a \in Links
      <3>1. a.index <= Len(log[x]) /\ a.index \in Nat
        BY <1>5, <2>1 DEF Logs, Ahead
      <3>2. Len(log[x]) \in Nat
        BY DEF TypeOK
      <3> QED BY <1>2, <3>1, <3>2
    <2>2. CASE a = new
      <3>1. x = p
        BY <1>1, <1>8, <2>2, LeaderIsOwner
      <3> QED BY <1>1, <1>2, <2>2, <3>1
    <2> QED BY <1>3, <2>1, <2>2
  <1> QED BY <1>6, <1>9, <1>10, <1>11 DEF Logs
-----------------------------------------------------------------------------
LEMMA AppendEntriesLinks ==
    ASSUME TypeOK, NEW m \in appReqs, AppendEntries(m)
    PROVE  Links' \subseteq Links
  <1> DEFINE p == m.to
  <1>1. m \in AppReq /\ p \in Server /\ log[p] \in Seq(Entry) /\ appReqs' \subseteq appReqs
    BY DEF TypeOK, AppReq, AppendEntries
  <1>2. /\ \A x \in Server : x # p => log'[x] = log[x]
        /\ \/ log'[p] = log[p]
           \/ /\ m.prev <= Len(log[p]) /\ TermAt(log[p], m.prev) = m.prevTerm
              /\ log'[p] = Merged(log[p], m)
    BY <1>1 DEF AppendEntries, LastIndex, TypeOK
  <1>3. LogLinks(log[p]) \subseteq Links /\ CallLinks(m) \subseteq Links
    BY <1>1 DEF Links
  <1>4. LogLinks(log'[p]) \subseteq Links
    BY <1>1, <1>2, <1>3, MergedLinks
  <1> SUFFICES ASSUME NEW a \in Links' PROVE a \in Links
    OBVIOUS
  <1>5. CASE \E x \in appReqs' : a \in CallLinks(x)
    BY <1>1, <1>5 DEF Links
  <1>6. ASSUME NEW x \in Server, a \in LogLinks(log'[x]) PROVE a \in Links
    <2>1. CASE x = p
      BY <1>4, <1>6, <2>1
    <2>2. CASE x # p
      BY <1>2, <1>6, <2>2 DEF Links
    <2> QED BY <2>1, <2>2
  <1> QED BY <1>5, <1>6 DEF Links

LEMMA ReplicateLinks ==
    ASSUME TypeOK, NEW p \in Server, NEW q \in Peers(p), Replicate(p, q)
    PROVE  /\ Links' \subseteq Links
           /\ \A m \in appReqs' : \/ m \in appReqs
                                  \/ /\ m.to # m.from /\ state[m.from] = "Leader"
                                     /\ m.term = currentTerm[m.from]
  <1> DEFINE last == Len(log[p])
             next == IF nextIndex[p][q] > last + 1 THEN last + 1 ELSE nextIndex[p][q]
             m == [term |-> currentTerm[p], from |-> p, to |-> q, prev |-> next - 1,
                   prevTerm |-> TermAt(log[p], next - 1),
                   entries |-> SubSeq(log[p], next, last), commit |-> commitIndex[p]]
  <1>1. appReqs' = appReqs \cup {m} /\ state[p] = "Leader" /\ log' = log
    BY DEF Replicate, LastIndex, persistent
  <1>2. log[p] \in Seq(Entry) /\ last \in Nat /\ nextIndex[p][q] \in Nat \ {0} /\ q # p
    BY DEF TypeOK, Peers
  <1>3. next \in 1 .. last + 1
    BY <1>2
  <1>4. CallLinks(m) \subseteq LogLinks(log[p])
    <2> DEFINE k == next - 1
    <2>1. k \in Nat /\ k <= last /\ next = k + 1
      BY <1>2, <1>3
    <2> HIDE DEF next
    <2>2. m.prev = k /\ m.prevTerm = TermAt(log[p], k) /\ m.entries = SubSeq(log[p], k + 1, last)
      BY <2>1
    <2> HIDE DEF k, m
    <2> QED BY <1>2, <2>1, <2>2, SentLinks
  <1>5. m.to # m.from /\ m.from = p /\ m.term = currentTerm[p]
    BY <1>2
  <1> HIDE DEF m
  <1>6. LogLinks(log[p]) \subseteq Links
    BY DEF Links
  <1>7. Links' \subseteq Links
    BY <1>1, <1>4, <1>6 DEF Links
  <1> QED BY <1>1, <1>5, <1>7

LEMMA LogsKept ==
    ASSUME TypeOK, Ballots, Logs, [Next]_vars, restarts' = 0 PROVE Logs'
  <1>0. TypeOK' /\ Ballots' /\ VotesStep /\ LeadersStep /\ LogsStep
    BY TypesKept, BallotsKept, LeadersChange, LogsChange
  <1>1. ASSUME NEW m \in appReqs, AppendEntries(m) PROVE Logs'
    <2>1. appReqs' \subseteq appReqs
      BY <1>1 DEF AppendEntries
    <2> QED BY <1>0, <1>1, <2>1, AppendEntriesLinks, NoNewLink
  <1>2. ASSUME NEW p \in Server, NEW q \in Peers(p), Replicate(p, q) PROVE Logs'
    BY <1>0, <1>2, ReplicateLinks, NoNewLink
  <1>3. ASSUME NEW p \in Server, NEW c \in Command, Propose(p, c) PROVE Logs'
    BY <1>0, <1>3, ProposeLogs
  <1>4. CASE UNCHANGED log /\ appReqs' \subseteq appReqs
    <2>1. Links' \subseteq Links
      BY <1>4 DEF Links
    <2> QED BY <1>0, <1>4, <2>1, NoNewLink
  <1>5. CASE \E p \in Server : Restart(p)
    BY <1>5 DEF Restart, TypeOK
  <1>6. \/ \E m \in appReqs : AppendEntries(m)
        \/ \E p \in Server : \E c \in Command : Propose(p, c)
        \/ \E p \in Server : \E q \in Peers(p) : Replicate(p, q)
        \/ \E p \in Server : Restart(p)
        \/ UNCHANGED log /\ appReqs' \subseteq appReqs
    BY DEF Next, StartElection, ApplyLogs, RequestVote, VoteReply, AppendReply, LoseCall,
           vars, persistent, calls
  <1> QED BY <1>1, <1>2, <1>3, <1>4, <1>5, <1>6

LogInv == IInv /\ (restarts = 0 => Logs)

LEMMA RestartsCount == TypeOK /\ [Next]_vars /\ restarts' = 0 => restarts = 0
  <1> SUFFICES ASSUME TypeOK, [Next]_vars, restarts' = 0 PROVE restarts = 0
    OBVIOUS
  <1>1. restarts' = restarts \/ restarts' = restarts + 1
    BY DEF Next, StartElection, ApplyLogs, Restart, Propose, Replicate, RequestVote, VoteReply,
           AppendEntries, AppendReply, LoseCall, vars
  <1> QED BY <1>1 DEF TypeOK

LEMMA LogsHold == Spec => []LogInv
  <1>1. Init /\ IInv => LogInv
    <2> SUFFICES ASSUME Init PROVE Logs
      BY DEF LogInv
    <2>1. Links = {} /\ appReqs = {} /\ \A p \in Server : state[p] # "Leader"
      BY DEF Init, Links, LogLinks
    <2> QED BY <2>1 DEF Logs, Unique, Ahead, OwnedCalls, OwnedEntries
  <1>2. LogInv /\ [Next]_vars /\ IInv' => LogInv'
    BY LogsKept, RestartsCount DEF LogInv, IInv
  <1> QED BY <1>1, <1>2, BallotsHold, PTL DEF Spec

(* Two logs that agree on a term agree up to there. *)
LEMMA PrefixesAgree ==
    ASSUME TypeOK, Unique, NEW p \in Server, NEW q \in Server,
           NEW i \in DOMAIN log[p] \cap DOMAIN log[q], log[p][i].term = log[q][i].term
    PROVE  \A k \in 1 .. i : log[p][k] = log[q][k]
  <1> DEFINE D == {k \in 1 .. i : log[p][k] # log[q][k]}
  <1>1. /\ log[p] \in Seq(Entry) /\ log[q] \in Seq(Entry) /\ i \in Nat
        /\ DOMAIN log[p] = 1 .. Len(log[p]) /\ DOMAIN log[q] = 1 .. Len(log[q])
        /\ i <= Len(log[p]) /\ i <= Len(log[q]) /\ Len(log[p]) \in Nat /\ Len(log[q]) \in Nat
    BY DEF TypeOK
  <1>2. ASSUME NEW k \in 1 .. i, log[p][k].term = log[q][k].term
        PROVE  log[p][k] = log[q][k] /\ TermAt(log[p], k - 1) = TermAt(log[q], k - 1)
    <2> DEFINE a(x) == [index |-> k, entry |-> log[x][k], before |-> TermAt(log[x], k - 1)]
    <2>1. k \in DOMAIN log[p] /\ k \in DOMAIN log[q]
      BY <1>1
    <2>2. a(p) \in Links /\ a(q) \in Links
      BY <2>1 DEF Links, LogLinks
    <2>3. a(p) = a(q)
      BY <1>2, <2>2 DEF Unique
    <2> QED BY <2>3
  <1> SUFFICES ASSUME D # {} PROVE FALSE
    OBVIOUS
  <1>3. PICK k \in D : \A j \in D : j <= k
    <2>1. D \subseteq 0 .. i
      BY <1>1
    <2> HIDE DEF D
    <2> QED BY <1>1, <2>1, GreatestExists
  <1>4. k \in 1 .. i /\ k # i /\ log[p][k] # log[q][k]
    BY <1>2, <1>3
  <1>5. k + 1 \in 1 .. i /\ k + 1 \notin D
    BY <1>1, <1>3, <1>4
  <1>6. TermAt(log[p], k + 1 - 1) = TermAt(log[q], k + 1 - 1)
    BY <1>2, <1>5
  <1>7. log[p][k].term = log[q][k].term
    BY <1>4, <1>6 DEF TermAt
  <1> QED BY <1>2, <1>4, <1>7

(* As long as no server restarts, two logs with an entry of the same term at   *)
(* an index are the same up to there, for any logs and calls.                *)
THEOREM LogsMatch == Spec => []LogMatching
  <1>1. LogInv => LogMatching
    <2> SUFFICES ASSUME LogInv, restarts = 0, NEW p \in Server, NEW q \in Server,
                        NEW i \in DOMAIN log[p] \cap DOMAIN log[q], log[p][i].term = log[q][i].term
                 PROVE  SubSeq(log[p], 1, i) = SubSeq(log[q], 1, i)
      BY DEF LogMatching
    <2>1. TypeOK /\ Unique
      BY DEF LogInv, IInv, Logs
    <2>2. \A k \in 1 .. i : log[p][k] = log[q][k]
      BY <2>1, PrefixesAgree
    <2>3. log[p] \in Seq(Entry) /\ log[q] \in Seq(Entry)
      BY <2>1 DEF TypeOK
    <2>4. i \in 1 .. Len(log[p]) /\ i \in 1 .. Len(log[q])
      BY <2>3
    <2> QED BY <2>2, <2>3, <2>4
  <1> QED BY <1>1, LogsHold, PTL

(* As long as no server restarts terms never go back, a vote stays, and a     *)
(* leader only appends to its log.                                           *)
THEOREM TermsAndLogsGrow == Spec => NeverBackwards
  <1>1. LogInv /\ [Next]_vars =>
          [restarts' = 0 =>
             \A p \in Server :
               /\ currentTerm'[p] >= currentTerm[p]
               /\ currentTerm'[p] = currentTerm[p] /\ votedFor[p] # Nobody => votedFor'[p] = votedFor[p]
               /\ state[p] = "Leader" /\ state'[p] = "Leader" =>
                    Len(log'[p]) >= Len(log[p]) /\ SubSeq(log'[p], 1, Len(log[p])) = log[p]]_vars
    <2> SUFFICES ASSUME LogInv, [Next]_vars, restarts' = 0, NEW p \in Server
                 PROVE  /\ currentTerm'[p] >= currentTerm[p]
                        /\ currentTerm'[p] = currentTerm[p] /\ votedFor[p] # Nobody =>
                             votedFor'[p] = votedFor[p]
                        /\ state[p] = "Leader" /\ state'[p] = "Leader" =>
                             /\ Len(log'[p]) >= Len(log[p])
                             /\ SubSeq(log'[p], 1, Len(log[p])) = log[p]
      OBVIOUS
    <2>1. TypeOK /\ TypeOK' /\ Ballots /\ Logs
      BY RestartsCount, TypesKept DEF LogInv, IInv
    <2>2. VotesStep /\ LogsStep
      BY <2>1, BallotsKept, LogsChange
    <2>3. currentTerm'[p] \in Nat /\ currentTerm[p] \in Nat
      BY <2>1 DEF TypeOK
    <2> QED BY <2>2, <2>3 DEF VotesStep, LogsStep
  <1> QED BY <1>1, LogsHold, PTL DEF Spec, NeverBackwards

-----------------------------------------------------------------------------
(* What the leader of a Raft group believes of its followers is true, for any *)
(* number of servers, calls and entries, as long as no server restarts.      *)

(* The call m carries what stands in the log l. *)
Carries(m, l) ==
    /\ m.prev + Len(m.entries) <= Len(l) /\ m.prevTerm = TermAt(l, m.prev)
    /\ \A i \in DOMAIN m.entries : m.entries[i] = l[m.prev + i]

(* The logs k and l are long enough for index n and have the same term there. *)
Meet(k, l, n) == n <= Len(k) /\ n <= Len(l) /\ TermAt(k, n) = TermAt(l, n)

(* Follower q of leader p has p's log up to index n, or has gone on to a later *)
(* term.                                                                     *)
Follows(p, q, n) ==
    \/ currentTerm[q] > currentTerm[p]
    \/ currentTerm[q] = currentTerm[p] /\ Meet(log[p], log[q], n)

Leads(p, t) == state[p] = "Leader" /\ currentTerm[p] = t

(* A call under way carries a part of the log of its leader, ... *)
CallsCarry == \A m \in appReqs : Leads(m.from, m.term) => Carries(m, log[m.from])

(* ... a successful reply tells what the follower has, ... *)
RepliesTrue ==
    \A r \in appReps :
      /\ r.from # r.to /\ Owner(r.from, r.term)
      /\ r.success /\ Leads(r.from, r.term) => Follows(r.from, r.to, r.match)

(* ... and so does matchIndex. *)
BeliefsTrue ==
    \A p \in Server : \A q \in Peers(p) :
      state[p] = "Leader" => matchIndex[p][q] = 0 \/ Follows(p, q, matchIndex[p][q])

Beliefs == CallsCarry /\ RepliesTrue /\ BeliefsTrue

-----------------------------------------------------------------------------
(* Merging what the leader sent keeps what a follower had in common with it,  *)
(* and leaves the follower with all that was sent.                           *)
LEMMA MergedKeeps ==
    ASSUME NEW l \in Seq(Entry), NEW k \in Seq(Entry), NEW m \in AppReq, NEW n \in Nat,
           m.prev <= Len(l), Carries(m, k), n <= Len(l), \A i \in 1 .. n : l[i] = k[i]
    PROVE  n <= Len(Merged(l, m)) /\ TermAt(Merged(l, m), n) = TermAt(l, n)
  <1> DEFINE L == Merged(l, m)
  <1>1. /\ m.entries \in Seq(Entry) /\ m.prev \in Nat /\ Len(m.entries) \in Nat
        /\ DOMAIN m.entries = 1 .. Len(m.entries) /\ Len(l) \in Nat
    BY DEF AppReq
  <1>2. CASE L = l
    BY <1>2
  <1>3. ASSUME NEW j \in 1 .. Len(m.entries),
               ~ (m.prev + j <= Len(l) /\ l[m.prev + j].term = m.entries[j].term),
               Len(L) = m.prev + Len(m.entries),
               \A i \in 1 .. m.prev + j - 1 : L[i] = l[i]
        PROVE  n <= Len(L) /\ TermAt(L, n) = TermAt(l, n)
    <2>1. m.entries[j] = k[m.prev + j]
      BY <1>1 DEF Carries
    <2>2. ~ (m.prev + j <= n)
      <3> SUFFICES ASSUME m.prev + j <= n PROVE FALSE
        OBVIOUS
      <3>1. m.prev + j \in 1 .. n /\ m.prev + j <= Len(l)
        BY <1>1
      <3> QED BY <1>3, <2>1, <3>1
    <2>3. n <= m.prev + j - 1 /\ n <= m.prev + Len(m.entries)
      BY <1>1, <2>2
    <2>4. n = 0 \/ n \in 1 .. m.prev + j - 1
      BY <1>1, <2>3
    <2> HIDE DEF L
    <2> QED BY <1>3, <2>3, <2>4 DEF TermAt
  <1> HIDE DEF L
  <1> QED BY <1>2, <1>3, MergedCases DEF L

LEMMA MergedReaches ==
    ASSUME NEW l \in Seq(Entry), NEW k \in Seq(Entry), NEW m \in AppReq,
           m.prev <= Len(l), TermAt(l, m.prev) = m.prevTerm, Carries(m, k)
    PROVE  Meet(k, Merged(l, m), m.prev + Len(m.entries))
  <1> DEFINE L == Merged(l, m)
             n == m.prev + Len(m.entries)
  <1>1. /\ m.entries \in Seq(Entry) /\ m.prev \in Nat /\ Len(m.entries) \in Nat
        /\ DOMAIN m.entries = 1 .. Len(m.entries) /\ Len(l) \in Nat
    BY DEF AppReq
  <1>2. n \in Nat /\ n <= Len(k)
    BY <1>1 DEF Carries
  <1>3. CASE Len(m.entries) = 0
    <2>1. L = l
      BY <1>1, <1>3, MergedCases
    <2>2. n = m.prev
      BY <1>1, <1>3
    <2> HIDE DEF L, n
    <2>3. Meet(k, L, n)
      BY <1>2, <2>1, <2>2 DEF Meet, Carries
    <2> QED BY <2>3 DEF L, n
  <1>4. CASE Len(m.entries) # 0
    <2> DEFINE last == Len(m.entries)
    <2>1. last \in 1 .. last /\ m.entries[last] = k[n] /\ n # 0
      BY <1>1, <1>4 DEF Carries
    <2>2. n <= Len(L) /\ L[n].term = m.entries[last].term
      <3>1. CASE L = l /\ Alike(l, m, last)
        BY <2>1, <3>1 DEF Alike
      <3>2. ASSUME NEW j \in 1 .. last, Len(L) = n,
                   \A i \in m.prev + j .. n : L[i] = m.entries[i - m.prev]
            PROVE  n <= Len(L) /\ L[n].term = m.entries[last].term
        <4>1. n \in m.prev + j .. n /\ n - m.prev = last
          BY <1>1
        <4>2. L[n] = m.entries[last]
          BY <3>2, <4>1
        <4> HIDE DEF L, n
        <4> QED BY <1>2, <3>2, <4>2
      <3> QED BY <3>1, <3>2, MergedCases
    <2>3. TermAt(L, n) = TermAt(k, n)
      BY <2>1, <2>2 DEF TermAt
    <2> HIDE DEF L, n
    <2>4. Meet(k, L, n)
      BY <1>2, <2>2, <2>3 DEF Meet
    <2> QED BY <2>4 DEF L, n
  <1> QED BY <1>3, <1>4
-----------------------------------------------------------------------------
LEMMA MeetingLogsAgree ==
    ASSUME TypeOK, Unique, NEW p \in Server, NEW q \in Server, NEW n \in Nat,
           Meet(log[p], log[q], n)
    PROVE  \A k \in 1 .. n : log[p][k] = log[q][k]
  <1>1. log[p] \in Seq(Entry) /\ log[q] \in Seq(Entry)
    BY DEF TypeOK
  <1>2. CASE n = 0
    BY <1>2
  <1>3. CASE n # 0
    <2>1. n \in DOMAIN log[p] \cap DOMAIN log[q]
      BY <1>1, <1>3 DEF Meet
    <2>2. log[p][n].term = log[q][n].term
      BY <1>3 DEF Meet, TermAt
    <2> QED BY <2>1, <2>2, PrefixesAgree
  <1> QED BY <1>2, <1>3

(* Two servers in a term are not both its leader. *)
LEMMA OneLeader ==
    ASSUME TypeOK, Ballots, NEW p \in Server, NEW q \in Server, p # q,
           state[p] = "Leader", currentTerm[q] = currentTerm[p]
    PROVE  state[q] # "Leader"
  <1> SUFFICES ASSUME state[q] = "Leader" PROVE FALSE
    OBVIOUS
  <1>1. Owner(p, currentTerm[q])
    BY LeaderOwns
  <1> QED BY <1>1, LeaderIsOwner

(* A follower in the leader's term keeps what it has in common with it: calls *)
(* of that term come from the leader and carry a part of its log.            *)
LEMMA FollowerKeeps ==
    ASSUME TypeOK, TypeOK', Ballots, Logs, CallsCarry, [Next]_vars, restarts' = 0,
           NEW p \in Server, NEW q \in Peers(p), state[p] = "Leader",
           currentTerm[q] = currentTerm[p], currentTerm'[q] = currentTerm[q],
           NEW n \in Nat, Meet(log[p], log[q], n)
    PROVE  n <= Len(log'[q]) /\ TermAt(log'[q], n) = TermAt(log[q], n)
  <1>1. q \in Server /\ q # p /\ log[q] \in Seq(Entry) /\ log[p] \in Seq(Entry)
    BY DEF Peers, TypeOK
  <1>2. state[q] # "Leader"
    BY <1>1, OneLeader
  <1>3. CASE log'[q] = log[q]
    BY <1>3 DEF Meet
  <1>4. ASSUME NEW m \in appReqs, AppendEntries(m), m.to = q PROVE
               n <= Len(log'[q]) /\ TermAt(log'[q], n) = TermAt(log[q], n)
    <2>1. m \in AppReq /\ m.from \in Server /\ m.term \in Nat /\ currentTerm[q] \in Nat
      BY <1>1 DEF TypeOK, AppReq
    <2>2. \/ log'[q] = log[q]
          \/ /\ ~ (m.term < currentTerm[q]) /\ m.prev <= Len(log[q])
             /\ log'[q] = Merged(log[q], m)
      BY <1>1, <1>4 DEF AppendEntries, LastIndex, TypeOK
    <2>3. m.term > currentTerm[q] => currentTerm'[q] = m.term
      BY <1>1, <1>4 DEF AppendEntries, StepDown, TypeOK
    <2>4. CASE /\ ~ (m.term < currentTerm[q]) /\ m.prev <= Len(log[q])
               /\ log'[q] = Merged(log[q], m)
      <3>1. m.term = currentTerm[p]
        BY <2>1, <2>3, <2>4
      <3>2. m.from = p
        BY <2>1, <3>1, LeaderIsOwner DEF Logs, OwnedCalls
      <3>3. Carries(m, log[p])
        BY <3>1, <3>2 DEF CallsCarry, Leads
      <3>4. n <= Len(log[q]) /\ \A i \in 1 .. n : log[q][i] = log[p][i]
        BY <1>1, MeetingLogsAgree DEF Logs, Meet
      <3> QED BY <1>1, <2>1, <2>4, <3>3, <3>4, MergedKeeps
    <2> QED BY <1>3, <2>2, <2>4
  <1>5. \/ log'[q] = log[q]
        \/ \E m \in appReqs : AppendEntries(m) /\ m.to = q
    <2>1. ASSUME NEW m \in appReqs, AppendEntries(m), m.to # q PROVE log'[q] = log[q]
      <3>1. m.to \in Server
        BY DEF TypeOK, AppReq
      <3> QED BY <1>1, <2>1, <3>1 DEF AppendEntries, TypeOK
    <2>2. ASSUME NEW x \in Server, NEW c \in Command, Propose(x, c) PROVE log'[q] = log[q]
      BY <1>1, <1>2, <2>2 DEF Propose, TypeOK
    <2>3. CASE \E x \in Server : Restart(x)
      BY <2>3 DEF Restart, TypeOK
    <2>4. \/ \E m \in appReqs : AppendEntries(m)
          \/ \E x \in Server : \E c \in Command : Propose(x, c)
          \/ \E x \in Server : Restart(x)
          \/ UNCHANGED log
      BY DEF Next, StartElection, ApplyLogs, Replicate, RequestVote, VoteReply, AppendReply,
             LoseCall, vars, persistent
    <2> QED BY <2>1, <2>2, <2>3, <2>4
  <1> QED BY <1>3, <1>4, <1>5

LEMMA FollowsKept ==
    ASSUME TypeOK, TypeOK', Ballots, Logs, CallsCarry, [Next]_vars, restarts' = 0,
           VotesStep, LeadersStep, LogsStep,
           NEW p \in Server, NEW q \in Peers(p), state[p] = "Leader", state'[p] = "Leader",
           NEW n \in Nat, Follows(p, q, n)
    PROVE  Follows(p, q, n)'
  <1>1. /\ q \in Server /\ currentTerm[q] \in Nat /\ currentTerm'[q] \in Nat
        /\ currentTerm[p] \in Nat /\ currentTerm'[p] = currentTerm[p]
        /\ currentTerm'[q] >= currentTerm[q]
    <2>1. q \in Server /\ currentTerm'[p] = currentTerm[p]
      BY DEF Peers, LeadersStep
    <2>2. currentTerm[q] \in Nat /\ currentTerm'[q] \in Nat /\ currentTerm[p] \in Nat
      BY <2>1 DEF TypeOK
    <2>3. currentTerm'[q] > currentTerm[q] \/ currentTerm'[q] = currentTerm[q]
      BY <2>1 DEF VotesStep
    <2> QED BY <2>1, <2>2, <2>3
  <1>2. CASE currentTerm'[q] > currentTerm[p]
    BY <1>1, <1>2 DEF Follows
  <1>3. CASE ~ (currentTerm'[q] > currentTerm[p])
    <2>1. /\ currentTerm[q] = currentTerm[p] /\ currentTerm'[q] = currentTerm[q]
          /\ Meet(log[p], log[q], n)
      BY <1>1, <1>3 DEF Follows
    <2>2. n <= Len(log'[q]) /\ TermAt(log'[q], n) = TermAt(log[q], n)
      BY <2>1, FollowerKeeps
    <2>3. n <= Len(log'[p]) /\ TermAt(log'[p], n) = TermAt(log[p], n)
      <3>1. /\ log[p] \in Seq(Entry) /\ log'[p] \in Seq(Entry) /\ n <= Len(log[p])
            /\ Len(log'[p]) >= Len(log[p]) /\ SubSeq(log'[p], 1, Len(log[p])) = log[p]
        BY <2>1 DEF TypeOK, LogsStep, Meet
      <3>2. \A i \in 1 .. Len(log[p]) : log'[p][i] = log[p][i]
        BY <3>1
      <3>3. n <= Len(log'[p]) /\ (n = 0 \/ n \in 1 .. Len(log[p]))
        BY <3>1
      <3> QED BY <3>2, <3>3 DEF TermAt
    <2> QED BY <1>1, <2>1, <2>2, <2>3 DEF Follows, Meet
  <1> QED BY <1>2, <1>3

(* Whoever leads in the term of an owner has led in it before the step. *)
LEMMA LedBefore ==
    ASSUME TypeOK, TypeOK', Ballots', VotesStep, LeadersStep,
           NEW p \in Server, NEW t \in Nat, Owner(p, t), Leads(p, t)'
    PROVE  Leads(p, t)
  <1>1. state'[p] = "Leader" /\ currentTerm'[p] = t /\ currentTerm[p] = t
    BY DEF Leads, LeadersStep
  <1>2. state[p] = "Leader"
    BY <1>1, NewTermUnused
  <1> QED BY <1>1, <1>2 DEF Leads
-----------------------------------------------------------------------------
(* What is sent is a part of the leader's log, and stays one. *)
LEMMA CallsCarryKept ==
    ASSUME TypeOK, TypeOK', Ballots, Ballots', Logs, CallsCarry, [Next]_vars, restarts' = 0,
           VotesStep, LeadersStep, LogsStep
    PROVE  CallsCarry'
  <1> SUFFICES ASSUME NEW m \in appReqs', Leads(m.from, m.term)' PROVE Carries(m, log'[m.from])
    BY DEF CallsCarry, Carries
  <1>1. ASSUME m \in appReqs PROVE Carries(m, log'[m.from])
    <2> DEFINE p == m.from
    <2>1. m \in AppReq /\ p \in Server /\ m.term \in Nat /\ Owner(p, m.term)
      BY <1>1 DEF TypeOK, AppReq, Logs, OwnedCalls
    <2>2. Leads(p, m.term)
      BY <2>1, LedBefore
    <2>3. Carries(m, log[p])
      BY <1>1, <2>2 DEF CallsCarry
    <2>4. /\ log[p] \in Seq(Entry) /\ log'[p] \in Seq(Entry)
          /\ Len(log'[p]) >= Len(log[p]) /\ SubSeq(log'[p], 1, Len(log[p])) = log[p]
      BY <2>1, <2>2 DEF TypeOK, LogsStep, Leads
    <2>5. \A i \in 1 .. Len(log[p]) : log'[p][i] = log[p][i]
      BY <2>4
    <2>6. m.prev \in Nat /\ m.entries \in Seq(Entry)
      BY <2>1 DEF AppReq
    <2>7. \A i \in DOMAIN m.entries : m.prev + i \in 1 .. Len(log[p])
      BY <2>3, <2>4, <2>6 DEF Carries
    <2>8. m.prev = 0 \/ m.prev \in 1 .. Len(log[p])
      BY <2>3, <2>4, <2>6 DEF Carries
    <2>9. TermAt(log'[p], m.prev) = TermAt(log[p], m.prev)
      BY <2>5, <2>8 DEF TermAt
    <2>10. m.prev + Len(m.entries) <= Len(log'[p])
      BY <2>3, <2>4, <2>6 DEF Carries
    <2> QED BY <2>3, <2>5, <2>7, <2>9, <2>10 DEF Carries
  <1>2. ASSUME NEW p \in Server, NEW q \in Peers(p), Replicate(p, q), m \notin appReqs
        PROVE  Carries(m, log'[m.from])
    <2> DEFINE l == log[p]
               last == Len(l)
               next == IF nextIndex[p][q] > last + 1 THEN last + 1 ELSE nextIndex[p][q]
    <2>1. /\ log' = log /\ m.from = p /\ m.prev = next - 1
          /\ m.prevTerm = TermAt(l, next - 1) /\ m.entries = SubSeq(l, next, last)
      BY <1>2 DEF Replicate, LastIndex, persistent
    <2>2. l \in Seq(Entry) /\ last \in Nat /\ nextIndex[p][q] \in Nat \ {0}
      BY DEF TypeOK, Peers
    <2>3. next \in 1 .. last + 1
      BY <2>2
    <2> HIDE DEF next, l
    <2>4. /\ Len(m.entries) = last - next + 1
          /\ DOMAIN m.entries = 1 .. last - next + 1
          /\ \A i \in 1 .. last - next + 1 : m.entries[i] = l[next - 1 + i]
      BY <2>1, <2>2, <2>3
    <2>5. Carries(m, l)
      <3>1. m.prev + Len(m.entries) <= Len(l)
        BY <2>1, <2>2, <2>3, <2>4
      <3> QED BY <2>1, <2>4, <3>1 DEF Carries
    <2> QED BY <2>1, <2>5 DEF l
  <1>3. CASE \E p \in Server : Restart(p)
    BY <1>3 DEF Restart, TypeOK
  <1>4. \/ appReqs' \subseteq appReqs
        \/ \E p \in Server : \E q \in Peers(p) : Replicate(p, q)
        \/ \E p \in Server : Restart(p)
    BY DEF Next, StartElection, ApplyLogs, RequestVote, VoteReply, AppendEntries, AppendReply,
           Propose, LoseCall, vars, calls
  <1> QED BY <1>1, <1>2, <1>3, <1>4

(* A successful reply says what the follower has. *)
LEMMA NewReplyTrue ==
    ASSUME TypeOK, TypeOK', Ballots', Logs, CallsCarry, VotesStep, LeadersStep,
           NEW m \in appReqs, AppendEntries(m), NEW r \in appReps', r \notin appReps,
           r.success, Leads(r.from, r.term)'
    PROVE  Follows(r.from, r.to, r.match)'
  <1> DEFINE p == m.from
             q == m.to
             n == m.prev + Len(m.entries)
  <1>1. /\ m \in AppReq /\ p \in Server /\ q \in Server /\ p # q /\ m.term \in Nat
        /\ log[p] \in Seq(Entry) /\ log[q] \in Seq(Entry) /\ currentTerm[q] \in Nat
        /\ Owner(p, m.term)
    BY DEF TypeOK, AppReq, Logs, OwnedCalls
  <1>2. /\ r.from = p /\ r.to = q /\ r.term = m.term /\ r.match = n
        /\ ~ (m.term < currentTerm[q])
        /\ m.prev <= Len(log[q]) /\ TermAt(log[q], m.prev) = m.prevTerm
        /\ log'[q] = Merged(log[q], m)
    <2>1. PICK ok \in BOOLEAN :
            /\ r = AppendAnswer(m, currentTerm[q], ok)
            /\ ok => /\ ~ (m.term < currentTerm[q])
                     /\ m.prev <= Len(log[q]) /\ TermAt(log[q], m.prev) = m.prevTerm
            /\ log' = [log EXCEPT ![q] = IF ok THEN Merged(@, m) ELSE @]
      BY DEF AppendEntries, LastIndex
    <2>2. r.from = p /\ r.to = q /\ r.term = m.term /\ r.match = n /\ r.success = ok
      BY <2>1 DEF AppendAnswer
    <2>3. log'[q] = Merged(log[q], m)
      BY <1>1, <2>1, <2>2 DEF TypeOK
    <2> QED BY <2>1, <2>2, <2>3
  <1>3. Leads(p, m.term)
    BY <1>1, <1>2, LedBefore
  <1>4. Carries(m, log[p])
    BY <1>3 DEF CallsCarry
  <1>5. log'[p] = log[p] /\ currentTerm'[p] = m.term /\ currentTerm'[q] = m.term
    <2>1. log'[p] = log[p]
      BY <1>1 DEF AppendEntries, TypeOK
    <2>2. currentTerm'[p] = m.term
      BY <1>2 DEF Leads
    <2>3. \/ m.term > currentTerm[q] /\ currentTerm'[q] = m.term
          \/ ~ (m.term > currentTerm[q]) /\ currentTerm'[q] = currentTerm[q]
      <3>1. \/ m.term > currentTerm[q] /\ currentTerm' = [currentTerm EXCEPT ![q] = m.term]
            \/ ~ (m.term > currentTerm[q]) /\ UNCHANGED currentTerm
        BY DEF AppendEntries, StepDown
      <3> QED BY <1>1, <3>1 DEF TypeOK
    <2> QED BY <1>1, <1>2, <2>1, <2>2, <2>3
  <1>6. Meet(log[p], log'[q], n)
    BY <1>1, <1>2, <1>4, MergedReaches
  <1> HIDE DEF p, q, n
  <1> QED BY <1>2, <1>5, <1>6 DEF Follows, Meet

LEMMA RepliesTrueKept ==
    ASSUME TypeOK, TypeOK', Ballots, Ballots', Logs, CallsCarry, RepliesTrue, [Next]_vars,
           restarts' = 0, VotesStep, LeadersStep, LogsStep
    PROVE  RepliesTrue'
  <1> SUFFICES ASSUME NEW r \in appReps'
               PROVE  /\ r.from # r.to /\ Owner(r.from, r.term)'
                      /\ r.success /\ Leads(r.from, r.term)' => Follows(r.from, r.to, r.match)'
    BY DEF RepliesTrue
  <1>1. r.from \in Server /\ r.to \in Server /\ r.term \in Nat /\ r.match \in Nat
    BY DEF TypeOK, AppRep
  <1>2. ASSUME r \in appReps
        PROVE  /\ r.from # r.to /\ Owner(r.from, r.term)'
               /\ r.success /\ Leads(r.from, r.term)' => Follows(r.from, r.to, r.match)'
    <2>1. r.from # r.to /\ Owner(r.from, r.term)
      BY <1>2 DEF RepliesTrue
    <2>2. Owner(r.from, r.term)'
      BY <1>1, <2>1, OwnerKept
    <2>3. ASSUME r.success, Leads(r.from, r.term)' PROVE Follows(r.from, r.to, r.match)'
      <3>1. Leads(r.from, r.term)
        BY <1>1, <2>1, <2>3, LedBefore
      <3>2. state[r.from] = "Leader" /\ state'[r.from] = "Leader" /\ r.to \in Peers(r.from)
        BY <1>1, <2>1, <2>3, <3>1 DEF Leads, Peers
      <3>3. Follows(r.from, r.to, r.match)
        BY <1>2, <2>3, <3>1 DEF RepliesTrue
      <3> QED BY <1>1, <3>2, <3>3, FollowsKept
    <2> QED BY <2>1, <2>2, <2>3
  <1>3. ASSUME NEW m \in appReqs, AppendEntries(m), r \notin appReps
        PROVE  /\ r.from # r.to /\ Owner(r.from, r.term)'
               /\ r.success /\ Leads(r.from, r.term)' => Follows(r.from, r.to, r.match)'
    <2>1. m.from # m.to /\ Owner(m.from, m.term)
      BY DEF Logs, OwnedCalls
    <2>2. r.from = m.from /\ r.to = m.to /\ r.term = m.term
      <3>1. \E ok \in BOOLEAN : r = AppendAnswer(m, currentTerm[m.to], ok)
        BY <1>3 DEF AppendEntries
      <3> QED BY <3>1 DEF AppendAnswer
    <2>3. Owner(r.from, r.term)'
      BY <1>1, <2>1, <2>2, OwnerKept
    <2> QED BY <1>3, <2>1, <2>2, <2>3, NewReplyTrue
  <1>4. CASE \E p \in Server : Restart(p)
    BY <1>4 DEF Restart, TypeOK
  <1>5. \/ appReps' \subseteq appReps
        \/ \E m \in appReqs : AppendEntries(m)
        \/ \E p \in Server : Restart(p)
    BY DEF Next, StartElection, ApplyLogs, RequestVote, VoteReply, AppendReply, Replicate,
           Propose, LoseCall, vars, calls
  <1> QED BY <1>2, <1>3, <1>4, <1>5
-----------------------------------------------------------------------------
(* How matchIndex changes: it starts from zero with an office, and otherwise  *)
(* is what a reply of the term says.                                         *)
LEMMA MatchIndexStep ==
    ASSUME TypeOK, [Next]_vars, restarts' = 0, NEW p \in Server, NEW q \in Peers(p),
           state'[p] = "Leader"
    PROVE  \/ matchIndex'[p][q] = 0
           \/ state[p] = "Leader" /\ matchIndex'[p][q] = matchIndex[p][q]
           \/ /\ state[p] = "Leader"
              /\ \E r \in appReps : /\ r.from = p /\ r.to = q /\ r.success
                                    /\ r.term = currentTerm[p] /\ matchIndex'[p][q] = r.match
  <1>0. q \in Server /\ matchIndex[p] \in [Server -> Nat]
    BY DEF Peers, TypeOK
  <1>1. CASE UNCHANGED matchIndex /\ state[p] = "Leader"
    BY <1>1
  <1>2. ASSUME NEW x \in Server, BecomeLeader(x), x = p \/ state[p] = "Leader"
        PROVE  matchIndex'[p][q] = 0 \/ (state[p] = "Leader" /\ matchIndex'[p][q] = matchIndex[p][q])
    <2>1. CASE x = p
      <3>1. matchIndex'[p] = [y \in Server |-> 0]
        BY <1>2, <2>1 DEF BecomeLeader, TypeOK
      <3> QED BY <1>0, <3>1
    <2>2. CASE x # p
      <3>1. matchIndex'[p] = matchIndex[p]
        BY <1>2, <2>2 DEF BecomeLeader, TypeOK
      <3> QED BY <1>2, <2>2, <3>1
    <2> QED BY <2>1, <2>2
  <1>3. ASSUME NEW r \in voteReps, VoteReply(r)
        PROVE  \/ UNCHANGED matchIndex /\ state[p] = "Leader"
               \/ \E x \in Server : BecomeLeader(x) /\ (x = p \/ state[p] = "Leader")
    <2> DEFINE x == r.call.from
    <2>1. x \in Server
      BY DEF TypeOK, VoteRep, VoteCall
    <2>2. \/ UNCHANGED <<state, matchIndex>>
          \/ StepDown(x, r.term) /\ UNCHANGED matchIndex
          \/ BecomeLeader(x)
      BY <1>3 DEF VoteReply, leading, persistent
    <2>3. CASE StepDown(x, r.term) /\ UNCHANGED matchIndex
      <3>1. p # x /\ state'[p] = state[p]
        BY <2>1, <2>3 DEF StepDown, TypeOK
      <3> QED BY <2>3, <3>1
    <2>4. CASE BecomeLeader(x)
      <3>1. x # p => state'[p] = state[p]
        BY <2>1, <2>4 DEF BecomeLeader, TypeOK
      <3> QED BY <2>1, <2>4, <3>1
    <2> QED BY <2>2, <2>3, <2>4
  <1>4. ASSUME NEW r \in appReps, AppendReply(r)
        PROVE  /\ state[p] = "Leader"
               /\ \/ matchIndex'[p][q] = matchIndex[p][q]
                  \/ /\ r.from = p /\ r.to = q /\ r.success
                     /\ r.term = currentTerm[p] /\ matchIndex'[p][q] = r.match
    <2> DEFINE x == r.from
    <2>1. x \in Server /\ r.to \in Server
      BY DEF TypeOK, AppRep
    <2>2. \/ UNCHANGED <<state, matchIndex>>
          \/ StepDown(x, r.replyTerm) /\ UNCHANGED matchIndex
          \/ /\ UNCHANGED state /\ r.success /\ r.term = currentTerm[x]
             /\ matchIndex' = [matchIndex EXCEPT ![x] = [matchIndex[x] EXCEPT ![r.to] = r.match]]
      BY <1>4 DEF AppendReply, leading
    <2>3. CASE StepDown(x, r.replyTerm) /\ UNCHANGED matchIndex
      <3>1. state'[p] = state[p]
        BY <2>1, <2>3 DEF StepDown, TypeOK
      <3> QED BY <2>3, <3>1
    <2>4. CASE /\ UNCHANGED state /\ r.success /\ r.term = currentTerm[x]
               /\ matchIndex' = [matchIndex EXCEPT ![x] = [matchIndex[x] EXCEPT ![r.to] = r.match]]
      <3>1. CASE x = p /\ r.to = q
        <4>1. matchIndex'[p][q] = r.match
          BY <1>0, <2>1, <2>4, <3>1 DEF TypeOK
        <4> QED BY <2>4, <3>1, <4>1
      <3>2. CASE x # p \/ r.to # q
        <4>1. matchIndex'[p][q] = matchIndex[p][q]
          BY <1>0, <2>1, <2>4, <3>2 DEF TypeOK
        <4> QED BY <2>4, <4>1
      <3> QED BY <3>1, <3>2
    <2> QED BY <2>2, <2>3, <2>4
  <1>5. ASSUME NEW x \in Server, StartElection(x) PROVE UNCHANGED matchIndex /\ state[p] = "Leader"
    BY <1>5 DEF StartElection, leading, TypeOK
  <1>6. ASSUME NEW m \in voteReqs, RequestVote(m) PROVE UNCHANGED matchIndex /\ state[p] = "Leader"
    <2>1. m.to \in Server
      BY DEF TypeOK, VoteCall
    <2>2. /\ UNCHANGED matchIndex
          /\ \/ state' = [state EXCEPT ![m.to] = "Follower"]
             \/ state' = [state EXCEPT ![m.to] = @]
      BY <1>6 DEF RequestVote, leading
    <2> QED BY <2>1, <2>2 DEF TypeOK
  <1>7. ASSUME NEW m \in appReqs, AppendEntries(m) PROVE UNCHANGED matchIndex /\ state[p] = "Leader"
    <2>1. m.to \in Server
      BY DEF TypeOK, AppReq
    <2>2. /\ UNCHANGED matchIndex
          /\ UNCHANGED state \/ state' = [state EXCEPT ![m.to] = "Follower"]
      BY <1>7 DEF AppendEntries, StepDown, leading
    <2> QED BY <2>1, <2>2 DEF TypeOK
  <1>8. CASE \/ LoseCall \/ UNCHANGED vars
             \/ \E x \in Server : \/ ApplyLogs(x)
                                  \/ \E c \in Command : Propose(x, c)
                                  \/ \E y \in Peers(x) : Replicate(x, y)
    <2>1. UNCHANGED <<matchIndex, state>>
      BY <1>8 DEF LoseCall, ApplyLogs, Propose, Replicate, vars, leading
    <2> QED BY <2>1
  <1>9. CASE \E x \in Server : Restart(x)
    BY <1>9 DEF Restart, TypeOK
  <1>10. CASE \E r \in voteReps : VoteReply(r)
    BY <1>1, <1>2, <1>3, <1>10
  <1>11. CASE \E r \in appReps : AppendReply(r)
    BY <1>4, <1>11
  <1>12. CASE \/ \E x \in Server : StartElection(x)
              \/ \E m \in voteReqs : RequestVote(m)
              \/ \E m \in appReqs : AppendEntries(m)
    BY <1>1, <1>5, <1>6, <1>7, <1>12
  <1> QED BY <1>8, <1>9, <1>10, <1>11, <1>12 DEF Next

LEMMA BeliefsTrueKept ==
    ASSUME TypeOK, TypeOK', Ballots, Logs, Beliefs, [Next]_vars, restarts' = 0,
           VotesStep, LeadersStep, LogsStep
    PROVE  BeliefsTrue'
  <1> SUFFICES ASSUME NEW p \in Server, NEW q \in Peers(p), state'[p] = "Leader",
                      matchIndex'[p][q] # 0
               PROVE  Follows(p, q, matchIndex[p][q])'
    BY DEF BeliefsTrue, Peers
  <1>1. PICK n \in Nat : n = matchIndex'[p][q]
    BY DEF TypeOK, Peers
  <1>2. state[p] = "Leader" /\ Follows(p, q, n)
    <2>1. CASE state[p] = "Leader" /\ n = matchIndex[p][q]
      BY <1>1, <2>1 DEF Beliefs, BeliefsTrue
    <2>2. CASE /\ state[p] = "Leader"
               /\ \E r \in appReps : /\ r.from = p /\ r.to = q /\ r.success
                                     /\ r.term = currentTerm[p] /\ n = r.match
      BY <2>2 DEF Beliefs, RepliesTrue, Leads
    <2> QED BY <1>1, <2>1, <2>2, MatchIndexStep
  <1>3. Follows(p, q, n)'
    BY <1>2, FollowsKept DEF Beliefs
  <1> QED BY <1>1, <1>3 DEF Follows

RaftInv == LogInv /\ (restarts = 0 => Beliefs)

LEMMA StepFacts ==
    ASSUME RaftInv, [Next]_vars, restarts' = 0
    PROVE  /\ TypeOK /\ TypeOK' /\ Ballots /\ Ballots' /\ Logs /\ Beliefs
           /\ VotesStep /\ LeadersStep /\ LogsStep
  <1>1. restarts = 0 /\ TypeOK
    BY RestartsCount DEF RaftInv, LogInv, IInv
  <1>2. Ballots /\ Logs /\ Beliefs
    BY <1>1 DEF RaftInv, LogInv, IInv
  <1> QED BY <1>1, <1>2, TypesKept, BallotsKept, LeadersChange, LogsChange

LEMMA BeliefsHold == Spec => []RaftInv
  <1>1. Init /\ LogInv => RaftInv
    <2> SUFFICES ASSUME Init PROVE Beliefs
      BY DEF RaftInv
    <2>1. appReqs = {} /\ appReps = {} /\ \A p \in Server : state[p] # "Leader"
      BY DEF Init
    <2> QED BY <2>1 DEF Beliefs, CallsCarry, RepliesTrue, BeliefsTrue
  <1>2. RaftInv /\ [Next]_vars /\ LogInv' => RaftInv'
    <2> SUFFICES ASSUME RaftInv, [Next]_vars, restarts' = 0 PROVE Beliefs'
      BY DEF RaftInv
    <2>1. /\ TypeOK /\ TypeOK' /\ Ballots /\ Ballots' /\ Logs /\ Beliefs
          /\ VotesStep /\ LeadersStep /\ LogsStep
      BY StepFacts
    <2>2. CallsCarry'
      BY <2>1, CallsCarryKept DEF Beliefs
    <2>3. RepliesTrue'
      BY <2>1, RepliesTrueKept DEF Beliefs
    <2>4. BeliefsTrue'
      BY <2>1, BeliefsTrueKept
    <2> QED BY <2>2, <2>3, <2>4 DEF Beliefs
  <1> QED BY <1>1, <1>2, LogsHold, PTL DEF Spec

(* Where a follower is in the leader's term, matchIndex tells what it has. *)
LEMMA BelievedPrefix ==
    ASSUME TypeOK, Unique, NEW p \in Server, NEW q \in Server, ~ (currentTerm[q] > currentTerm[p]),
           NEW k \in Nat, k = 0 \/ Follows(p, q, k), NEW n \in Nat, n <= k
    PROVE  n <= Len(log[q]) /\ SubSeq(log[q], 1, n) = SubSeq(log[p], 1, n)
  <1>1. log[p] \in Seq(Entry) /\ log[q] \in Seq(Entry)
    BY DEF TypeOK
  <1>2. CASE n = 0
    BY <1>1, <1>2
  <1>3. CASE n # 0
    <2>1. Meet(log[p], log[q], k)
      BY <1>3 DEF Follows
    <2>2. \A i \in 1 .. k : log[p][i] = log[q][i]
      BY <2>1, MeetingLogsAgree
    <2>3. k <= Len(log[p]) /\ k <= Len(log[q])
      BY <2>1 DEF Meet
    <2> QED BY <1>1, <1>3, <2>2, <2>3
  <1> QED BY <1>2, <1>3

(* As long as no server restarts, what a leader believes of a follower in its *)
(* term is true, in whatever order replies arrive.                           *)
THEOREM MatchIndexTrue == Spec => []MatchIndexSound
  <1>1. RaftInv => MatchIndexSound
    <2> SUFFICES ASSUME RaftInv, restarts = 0, NEW p \in Server, NEW q \in Peers(p),
                        state[p] = "Leader", currentTerm[q] = currentTerm[p]
                 PROVE  /\ matchIndex[p][q] <= Len(log[q])
                        /\ SubSeq(log[q], 1, matchIndex[p][q]) = SubSeq(log[p], 1, matchIndex[p][q])
      BY DEF MatchIndexSound
    <2>1. TypeOK /\ Unique /\ BeliefsTrue
      BY DEF RaftInv, LogInv, IInv, Logs, Beliefs
    <2>2. q \in Server /\ currentTerm[p] \in Nat
      BY <2>1 DEF TypeOK, Peers
    <2>3. PICK k \in Nat : k = matchIndex[p][q]
      BY <2>1, <2>2 DEF TypeOK
    <2>4. k = 0 \/ Follows(p, q, k)
      BY <2>1, <2>3 DEF BeliefsTrue
    <2>5. ~ (currentTerm[q] > currentTerm[p]) /\ k <= k
      BY <2>2
    <2> QED BY <2>1, <2>2, <2>3, <2>4, <2>5, BelievedPrefix
  <1> QED BY <1>1, BeliefsHold, PTL

-----------------------------------------------------------------------------
LEMMA LargerMajority ==
    ASSUME NEW S, NEW T, S \subseteq T, T \subseteq Server, Majority(S) PROVE Majority(T)
  <1>1. IsFiniteSet(Server) /\ IsFiniteSet(T) /\ IsFiniteSet(S)
    BY RaftAssumption, FS_Subset
  <1>2. /\ Cardinality(S) <= Cardinality(T)
        /\ Cardinality(S) \in Nat /\ Cardinality(T) \in Nat /\ Cardinality(Server) \in Nat
    BY <1>1, FS_Subset, FS_CardinalityType
  <1> QED BY <1>2 DEF Majority

(* Only the reply to a call moves the commitIndex of a leader, to an entry of *)
(* its term that it believes a majority has.                                 *)
LEMMA CommitStep ==
    ASSUME TypeOK, Ballots, Logs, [Next]_vars, restarts' = 0,
           NEW p \in Server, state[p] = "Leader", state'[p] = "Leader",
           commitIndex'[p] # commitIndex[p]
    PROVE  /\ commitIndex'[p] \in Committable(p, matchIndex'[p])
           /\ UNCHANGED <<log, currentTerm>>
  <1>1. ASSUME NEW r \in appReps, AppendReply(r)
        PROVE  /\ commitIndex'[p] \in Committable(p, matchIndex'[p])
               /\ UNCHANGED <<log, currentTerm>>
    <2> DEFINE x  == r.from
               mi == [matchIndex[x] EXCEPT ![r.to] = r.match]
               C  == Committable(x, mi)
    <2>1. /\ x \in Server /\ r.to \in Server /\ log[x] \in Seq(Entry) /\ commitIndex[x] \in Nat
          /\ UNCHANGED log
      BY <1>1 DEF TypeOK, AppRep, AppendReply
    <2>2. \/ UNCHANGED commitIndex
          \/ /\ matchIndex' = [matchIndex EXCEPT ![x] = mi]
             /\ commitIndex' = [commitIndex EXCEPT ![x] =
                  IF C = {} THEN @ ELSE CHOOSE n \in C : \A k \in C : k <= n]
             /\ UNCHANGED currentTerm
      BY <1>1 DEF AppendReply
    <2>3. C # {} => (CHOOSE n \in C : \A k \in C : k <= n) \in C
      <3>1. Len(log[x]) \in Nat /\ C \subseteq 0 .. Len(log[x])
        BY <2>1 DEF Committable, LastIndex
      <3> HIDE DEF C
      <3> QED BY <3>1, GreatestExists
    <2> HIDE DEF C
    <2>4. /\ matchIndex' = [matchIndex EXCEPT ![x] = mi] /\ UNCHANGED currentTerm
          /\ x = p /\ commitIndex'[p] \in C
      BY <2>1, <2>2, <2>3 DEF TypeOK
    <2>5. matchIndex'[p] = mi
      BY <2>1, <2>4 DEF TypeOK
    <2> QED BY <2>1, <2>4, <2>5 DEF C
  <1>2. ASSUME NEW m \in appReqs, AppendEntries(m) PROVE FALSE
    <2>1. m.to \in Server /\ m.from \in Server /\ m.term \in Nat /\ currentTerm[p] \in Nat
      BY DEF TypeOK, AppReq
    <2>2. m.to = p /\ ~ (m.term < currentTerm[p])
      BY <1>2, <2>1 DEF AppendEntries, TypeOK
    <2>3. ~ (m.term > currentTerm[p])
      <3>1. m.term > currentTerm[p] => state'[p] = "Follower"
        BY <1>2, <2>2 DEF AppendEntries, StepDown, TypeOK
      <3> QED BY <3>1
    <2>4. m.term = currentTerm[p]
      BY <2>1, <2>2, <2>3
    <2> QED BY <2>1, <2>2, <2>4, LeaderIsOwner DEF Logs, OwnedCalls
  <1>3. CASE \E x \in Server : Restart(x)
    BY <1>3 DEF Restart, TypeOK
  <1>4. \/ \E r \in appReps : AppendReply(r)
        \/ \E m \in appReqs : AppendEntries(m)
        \/ \E x \in Server : Restart(x)
        \/ UNCHANGED commitIndex
    BY DEF Next, StartElection, ApplyLogs, Replicate, RequestVote, VoteReply, Propose, LoseCall,
           vars, commitment
  <1> QED BY <1>1, <1>2, <1>3, <1>4

(* As long as no server restarts, a leader commits only what a majority of    *)
(* the servers has, but for those that have gone on to a later term.         *)
THEOREM CommitsByMajority == Spec => CommitByMajority
  <1> DEFINE Has(p, n) ==
               {q \in Server :
                  \/ currentTerm[q] > currentTerm[p]
                  \/ Len(log[q]) >= n /\ SubSeq(log[q], 1, n) = SubSeq(log[p], 1, n)}
  <1>1. ASSUME RaftInv, RaftInv', [Next]_vars, restarts' = 0, NEW p \in Server,
               state[p] = "Leader", state'[p] = "Leader", commitIndex'[p] > commitIndex[p]
        PROVE  /\ log[p][commitIndex'[p]].term = currentTerm[p]
               /\ Majority(Has(p, commitIndex'[p]))
    <2>1. TypeOK /\ TypeOK' /\ Ballots /\ Logs
      BY <1>1, StepFacts
    <2>2. BeliefsTrue' /\ Unique
      BY <1>1, <2>1 DEF RaftInv, Beliefs, Logs
    <2>3. commitIndex'[p] # commitIndex[p]
      BY <1>1, <2>1 DEF TypeOK
    <2>4. /\ commitIndex'[p] \in Committable(p, matchIndex'[p])
          /\ UNCHANGED <<log, currentTerm>>
      BY <1>1, <2>1, <2>3, CommitStep
    <2>5. PICK n \in Nat : n = commitIndex'[p]
      BY <2>1 DEF TypeOK
    <2> DEFINE S == {p} \cup {q \in Peers(p) : matchIndex'[p][q] >= n}
    <2>6. n <= Len(log[p]) /\ log[p][n].term = currentTerm[p] /\ Majority(S)
      <3>1. log[p] \in Seq(Entry) /\ commitIndex[p] \in Nat
        BY <2>1 DEF TypeOK
      <3>2. n \in commitIndex[p] + 1 .. Len(log[p]) /\ Len(log[p]) \in Nat
        BY <2>4, <2>5, <3>1 DEF Committable, LastIndex
      <3>3. log[p][n].term = currentTerm[p] /\ Majority(S)
        BY <2>4, <2>5 DEF Committable
      <3> QED BY <3>1, <3>2, <3>3
    <2>7. S \subseteq Has(p, n)
      <3>1. Len(log[p]) \in Nat /\ p \in Has(p, n)
        BY <2>1, <2>6 DEF TypeOK
      <3>2. ASSUME NEW q \in Peers(p), matchIndex'[p][q] >= n, ~ (currentTerm[q] > currentTerm[p])
            PROVE  Len(log[q]) >= n /\ SubSeq(log[q], 1, n) = SubSeq(log[p], 1, n)
        <4>1. q \in Server
          BY DEF Peers
        <4>2. PICK k \in Nat : k = matchIndex'[p][q]
          BY <2>1, <4>1 DEF TypeOK
        <4>3. k = 0 \/ Follows(p, q, k)'
          BY <1>1, <2>2, <4>2 DEF BeliefsTrue, Peers, Follows
        <4>4. k = 0 \/ Follows(p, q, k)
          BY <2>4, <4>3 DEF Follows
        <4>5. n <= k
          BY <3>2, <4>2
        <4>6. n <= Len(log[q]) /\ SubSeq(log[q], 1, n) = SubSeq(log[p], 1, n)
          BY <2>1, <2>2, <3>2, <4>1, <4>4, <4>5, BelievedPrefix
        <4>7. Len(log[q]) \in Nat
          BY <2>1, <4>1 DEF TypeOK
        <4> QED BY <4>6, <4>7
      <3> QED BY <3>1, <3>2 DEF Peers
    <2> HIDE DEF S
    <2>8. Majority(Has(p, n))
      BY <2>6, <2>7, LargerMajority
    <2> QED BY <2>5, <2>6, <2>8
  <1>2. RaftInv /\ RaftInv' /\ [Next]_vars =>
          [restarts' = 0 => \A p \in Server :
             state[p] = "Leader" /\ state'[p] = "Leader" /\ commitIndex'[p] > commitIndex[p] =>
               LET n == commitIndex'[p]
               IN /\ log[p][n].term = currentTerm[p]
                  /\ Majority({q \in Server :
                       \/ currentTerm[q] > currentTerm[p]
                       \/ Len(log[q]) >= n /\ SubSeq(log[q], 1, n) = SubSeq(log[p], 1, n)})]_vars
    BY <1>1
  <1> QED BY <1>2, BeliefsHold, PTL DEF Spec, CommitByMajority
=============================================================================
