--------------------------- MODULE RaftProperties ---------------------------
(* What the Raft implementation promises. *)
EXTENDS Raft

VoteCall == [term : Nat, from : Server, to : Server]
VoteRep  == [call : VoteCall, term : Nat, granted : BOOLEAN]
AppReq   == [term : Nat, from : Server, to : Server, prev : Nat, prevTerm : Nat,
             entries : Seq(Entry), commit : Nat]
AppRep   == [term : Nat, from : Server, to : Server, replyTerm : Nat,
             success : BOOLEAN, match : Nat]

(* The types of the variables. *)
TypeOK ==
    /\ currentTerm \in [Server -> Nat]
    /\ votedFor \in [Server -> Server \cup {Nobody}]
    /\ log \in [Server -> Seq(Entry)]
    /\ state \in [Server -> {"Follower", "Candidate", "Leader"}]
    /\ commitIndex \in [Server -> Nat] /\ lastApplied \in [Server -> Nat]
    /\ nextIndex \in [Server -> [Server -> Nat \ {0}]]
    /\ matchIndex \in [Server -> [Server -> Nat]]
    /\ votes \in [Server -> SUBSET Server]
    /\ applied \in [Server -> SUBSET [index : Nat, entry : Entry]]
    /\ voteReqs \subseteq VoteCall /\ voteReps \subseteq VoteRep
    /\ appReqs \subseteq AppReq /\ appReps \subseteq AppRep
    /\ elections \in Nat /\ restarts \in Nat

(* At most one leader in a term: a server votes once per term, and the       *)
(* replies that a candidate counts are of its current election, although     *)
(* votes are counted in goroutines that may answer during a later election.  *)
(* A server that restarts has forgotten its vote.                            *)
ElectionSafety ==
    restarts = 0 =>
    \A p, q \in Server :
      state[p] = "Leader" /\ state[q] = "Leader" /\ currentTerm[p] = currentTerm[q] => p = q

(* Two logs that have an entry of the same term at the same index are the    *)
(* same up to there: the check of PrevLogTerm and the truncation at the      *)
(* first conflict keep it, whatever old requests arrive in whatever order,   *)
(* as long as no server loses its state.                                     *)
LogMatching ==
    restarts = 0 =>
    \A p, q \in Server : \A i \in DOMAIN log[p] \cap DOMAIN log[q] :
      log[p][i].term = log[q][i].term => SubSeq(log[p], 1, i) = SubSeq(log[q], 1, i)

(* What a leader believes of a follower that is still in its term is true:   *)
(* the follower holds the leader's log up to matchIndex.  updateCommitIndex  *)
(* counts on it, while replies arrive late and out of order.  A follower     *)
(* that restarts loses the entries.                                          *)
MatchIndexSound ==
    restarts = 0 =>
    \A p \in Server : \A q \in Peers(p) :
      state[p] = "Leader" /\ currentTerm[q] = currentTerm[p] =>
        /\ matchIndex[p][q] <= Len(log[q])
        /\ SubSeq(log[q], 1, matchIndex[p][q]) = SubSeq(log[p], 1, matchIndex[p][q])

(* A server never goes back to an earlier term and never changes a vote      *)
(* within a term, whichever of the four handlers raises its term; a leader   *)
(* only ever appends to its log.  After a restart a term may have two        *)
(* leaders, one of which truncates the log of the other.                     *)
NeverBackwards ==
    [][restarts' = 0 =>
         \A p \in Server :
           /\ currentTerm'[p] >= currentTerm[p]
           /\ currentTerm'[p] = currentTerm[p] /\ votedFor[p] # Nobody => votedFor'[p] = votedFor[p]
           /\ state[p] = "Leader" /\ state'[p] = "Leader" =>
                Len(log'[p]) >= Len(log[p]) /\ SubSeq(log'[p], 1, Len(log[p])) = log[p]]_vars

(* A leader advances its commitIndex only over entries that a majority of    *)
(* the servers has at that moment, but for those that have gone on to a      *)
(* later term meanwhile.  A server that restarted has lost what it confirmed. *)
CommitByMajority ==
    [][restarts' = 0 => \A p \in Server :
         state[p] = "Leader" /\ state'[p] = "Leader" /\ commitIndex'[p] > commitIndex[p] =>
           LET n == commitIndex'[p]
           IN /\ log[p][n].term = currentTerm[p]
              /\ Majority({q \in Server :
                   \/ currentTerm[q] > currentTerm[p]
                   \/ Len(log[q]) >= n /\ SubSeq(log[q], 1, n) = SubSeq(log[p], 1, n)})]_vars

(* No two servers apply different entries at the same index. *)
StateMachineSafety ==
    \A p, q \in Server : \A a \in applied[p], b \in applied[q] :
      a.index = b.index => a.entry = b.entry
=============================================================================
