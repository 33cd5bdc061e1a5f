-------------------------------- MODULE Raft --------------------------------
(***************************************************************************)
(* internal/raft: elections, log replication, commitment and application.  *)
(*                                                                         *)
(* Every handler runs under rf.mu and is one action.  An RPC is a call in  *)
(* a goroutine of its own: the request, its handling at the peer and the   *)
(* handling of the reply are three steps, with anything in between.  The   *)
(* transport may lose and delay calls, and gives up after 100 ms.  A vote    *)
(* is asked once per election; AppendEntries is repeated by every heartbeat  *)
(* and every proposal, so several copies may be under way.  A step that      *)
(* takes a request or a reply consumes it.                                   *)
(*                                                                         *)
(* Entry i of a log has index i; the dummy entry at index 0 that           *)
(* NewMemoryLogStore puts in front is the term 0 of TermAt.  Compaction    *)
(* (Snapshot) is not part of this module.                                  *)
(*                                                                         *)
(* As in JobManagerOps, a "Fault" is a wrong version of what follows it,   *)
(* for the mutants only.                                                   *)
(***************************************************************************)
EXTENDS Integers, Sequences, FiniteSets

CONSTANTS Server,       \* config.Peers, every server included
          Command,
          Nobody,       \* the empty votedFor
          MaxElection,  \* bound on the elections started
          MaxLog,       \* bound on the length of a leader's log
          MaxCalls,     \* bound on the AppendEntries calls under way
          MaxRestart    \* bound on the restarts

ASSUME RaftAssumption ==
    /\ IsFiniteSet(Server)
    /\ Nobody \notin Server
    /\ {MaxElection, MaxLog, MaxCalls, MaxRestart} \subseteq Nat

VARIABLES
    currentTerm, votedFor, log,         \* "persistent state": in memory only
    state, commitIndex, lastApplied,
    nextIndex, matchIndex,              \* of leaders
    votes,          \* the servers counted by the election a candidate runs
    applied,        \* what applyCh has carried, by index
    voteReqs, voteReps, appReqs, appReps,
    elections, restarts

persistent == <<currentTerm, votedFor, log>>
commitment == <<commitIndex, lastApplied, applied>>
leading    == <<nextIndex, matchIndex>>
calls      == <<voteReqs, voteReps, appReqs, appReps>>
vars       == <<persistent, state, commitment, leading, votes, calls, elections, restarts>>

Entry == [term : Nat, cmd : Command]

Peers(p) == Server \ {p}

TermAt(l, i) == IF i = 0 THEN 0 ELSE l[i].term

(* Fault: indexes start at zero. *)
LastIndexFromZero(l) == Len(l) - 1

LastIndex(l) == Len(l)

Majority(S) == Cardinality(S) > Cardinality(Server) \div 2

Init ==
    /\ currentTerm = [p \in Server |-> 0]
    /\ votedFor = [p \in Server |-> Nobody]
    /\ log = [p \in Server |-> <<>>]
    /\ state = [p \in Server |-> "Follower"]
    /\ commitIndex = [p \in Server |-> 0]
    /\ lastApplied = [p \in Server |-> 0]
    /\ nextIndex = [p \in Server |-> [q \in Server |-> 1]]
    /\ matchIndex = [p \in Server |-> [q \in Server |-> 0]]
    /\ votes = [p \in Server |-> {}]
    /\ applied = [p \in Server |-> {}]
    /\ voteReqs = {} /\ voteReps = {} /\ appReqs = {} /\ appReps = {}
    /\ elections = 0 /\ restarts = 0

-----------------------------------------------------------------------------
(* What SendRequestVote carries of the candidate; its LastLogIndex and       *)
(* LastLogTerm, which no handler reads, are left out.                        *)
VoteArgs(p, q, term) == [term |-> term, from |-> p, to |-> q]

(* The answers to calls m, as the gRPC server passes them back. *)
VoteAnswer(m, term, granted) == [call |-> m, term |-> term, granted |-> granted]

AppendAnswer(m, term, ok) ==
    [term |-> m.term, from |-> m.from, to |-> m.to, replyTerm |-> term,
     success |-> ok, match |-> m.prev + Len(m.entries)]

(* The election timer of p fires. *)
StartElection(p) ==
    /\ state[p] # "Leader" /\ elections < MaxElection
    /\ elections' = elections + 1
    /\ state' = [state EXCEPT ![p] = "Candidate"]
    /\ currentTerm' = [currentTerm EXCEPT ![p] = @ + 1]
    /\ votedFor' = [votedFor EXCEPT ![p] = p]
    /\ votes' = [votes EXCEPT ![p] = {p}]
    /\ voteReqs' = voteReqs \cup
         {VoteArgs(p, q, currentTerm[p] + 1) : q \in Peers(p)}
    /\ UNCHANGED <<log, commitment, leading, voteReps, appReqs, appReps, restarts>>

(* Fault: the vote given earlier in the term is forgotten. *)
CanVoteAgain(p, m) == TRUE

(* Whether p has a vote left for the term of m: a later term clears votedFor. *)
CanVote(p, m) == m.term > currentTerm[p] \/ votedFor[p] \in {Nobody, m.from}

(* RequestVote at the voter.  isUpToDate is constantly true. *)
RequestVote(m) ==
    LET p       == m.to
        newer   == m.term > currentTerm[p]
        granted == m.term >= currentTerm[p] /\ CanVote(p, m)
    IN /\ m \in voteReqs
       /\ currentTerm' = [currentTerm EXCEPT ![p] = IF newer THEN m.term ELSE @]
       /\ state' = [state EXCEPT ![p] = IF newer THEN "Follower" ELSE @]
       /\ votedFor' = [votedFor EXCEPT ![p] = IF granted THEN m.from ELSE @]
       /\ voteReqs' = voteReqs \ {m}
       /\ voteReps' = voteReps \cup {VoteAnswer(m, currentTerm'[p], granted)}
       /\ UNCHANGED <<log, commitment, leading, votes, appReqs, appReps, elections, restarts>>

(* convertToFollower, on a reply of a later term. *)
StepDown(p, term) ==
    /\ state' = [state EXCEPT ![p] = "Follower"]
    /\ currentTerm' = [currentTerm EXCEPT ![p] = term]
    /\ votedFor' = [votedFor EXCEPT ![p] = Nobody]

(* convertToLeader. *)
BecomeLeader(p) ==
    /\ state' = [state EXCEPT ![p] = "Leader"]
    /\ nextIndex' = [nextIndex EXCEPT ![p] = [q \in Server |-> LastIndex(log[p]) + 1]]
    /\ matchIndex' = [matchIndex EXCEPT ![p] = [q \in Server |-> 0]]

(* The candidate handles a reply to its election; enough votes make it the   *)
(* leader.                                                                   *)
VoteReply(r) ==
    LET p      == r.call.from
        counts == state[p] = "Candidate" /\ r.call.term = currentTerm[p]
        won    == r.granted /\ Majority(votes[p] \cup {r.call.to})
    IN /\ r \in voteReps
       /\ voteReps' = voteReps \ {r}
       /\ \/ /\ ~ counts
             /\ UNCHANGED <<persistent, state, leading, votes>>
          \/ /\ counts /\ r.term > currentTerm[p]
             /\ StepDown(p, r.term)
             /\ UNCHANGED <<log, leading, votes>>
          \/ /\ counts /\ r.term <= currentTerm[p]
             /\ votes' = [votes EXCEPT ![p] = IF r.granted THEN @ \cup {r.call.to} ELSE @]
             /\ IF won THEN BecomeLeader(p) ELSE UNCHANGED <<state, leading>>
             /\ UNCHANGED persistent
       /\ UNCHANGED <<commitment, voteReqs, appReqs, appReps, elections, restarts>>

-----------------------------------------------------------------------------
(* Propose at a leader. *)
Propose(p, c) ==
    /\ state[p] = "Leader" /\ LastIndex(log[p]) < MaxLog
    /\ log' = [log EXCEPT ![p] = Append(@, [term |-> currentTerm[p], cmd |-> c])]
    /\ UNCHANGED <<currentTerm, votedFor, state, commitment, leading, votes, calls, elections, restarts>>

(* replicateToPeer: everything from nextIndex on is sent. *)
Replicate(p, q) ==
    LET last == LastIndex(log[p])
        next == IF nextIndex[p][q] > last + 1 THEN last + 1 ELSE nextIndex[p][q]
    IN /\ state[p] = "Leader" /\ Cardinality(appReqs) + Cardinality(appReps) < MaxCalls
       /\ appReqs' = appReqs \cup
            {[term     |-> currentTerm[p], from |-> p, to |-> q,
              prev     |-> next - 1,
              prevTerm |-> TermAt(log[p], next - 1),
              entries  |-> SubSeq(log[p], next, last),
              commit   |-> commitIndex[p]]}
       /\ UNCHANGED <<persistent, state, commitment, leading, votes,
                      voteReqs, voteReps, appReps, elections, restarts>>

(* Fault: conflicting entries are not deleted. *)
MergedKeeping(l, m) == l \o SubSeq(m.entries, Len(l) - m.prev + 1, Len(m.entries))

(* Fault: what follows the entries of m is deleted, conflicting or not. *)
MergedTruncating(l, m) == SubSeq(l, 1, m.prev) \o m.entries

(* The log of the follower after the entries of m: what it has is kept up to *)
(* the first entry it lacks or whose term differs.                           *)
Merged(l, m) ==
    LET differs(i) == m.prev + i > Len(l) \/ l[m.prev + i].term # m.entries[i].term
        D          == {i \in DOMAIN m.entries : differs(i)}
    IN IF D = {} THEN l
       ELSE LET i == CHOOSE i \in D : \A k \in D : i <= k
            IN SubSeq(l, 1, m.prev + i - 1) \o SubSeq(m.entries, i, Len(m.entries))

(* AppendEntries at the follower.  A candidate of the same term stays one.   *)
(* The reply carries the term from before the handler.                       *)
AppendEntries(m) ==
    LET p     == m.to
        stale == m.term < currentTerm[p]
        newer == m.term > currentTerm[p]
        fits  == m.prev <= LastIndex(log[p]) /\ TermAt(log[p], m.prev) = m.prevTerm
        ok    == ~ stale /\ fits
        last  == LastIndex(log'[p])
    IN /\ m \in appReqs
       /\ IF newer THEN StepDown(p, m.term) ELSE UNCHANGED <<currentTerm, votedFor, state>>
       /\ log' = [log EXCEPT ![p] = IF ok THEN Merged(@, m) ELSE @]
       /\ commitIndex' = [commitIndex EXCEPT ![p] =
            IF ok /\ m.commit > @ THEN (IF m.commit < last THEN m.commit ELSE last) ELSE @]
       /\ appReqs' = appReqs \ {m}
       /\ appReps' = appReps \cup {AppendAnswer(m, currentTerm[p], ok)}
       /\ UNCHANGED <<lastApplied, applied, leading, votes, voteReqs, voteReps, elections, restarts>>

(* Fault: the entry before is what the majority holds. *)
CommittableEarly(p, mi) ==
    {n \in commitIndex[p] + 1 .. LastIndex(log[p]) :
        /\ Majority({p} \cup {q \in Peers(p) : mi[q] >= n - 1})
        /\ log[p][n].term = currentTerm[p]}

(* updateCommitIndex: the last entry of the current term that a majority     *)
(* holds according to mi.                                                    *)
Committable(p, mi) ==
    {n \in commitIndex[p] + 1 .. LastIndex(log[p]) :
        /\ Majority({p} \cup {q \in Peers(p) : mi[q] >= n})
        /\ log[p][n].term = currentTerm[p]}

(* The leader handles a reply to an AppendEntries call.  matchIndex is       *)
(* assigned, not raised: a late reply takes it back.                         *)
AppendReply(r) ==
    LET p      == r.from
        q      == r.to
        counts == state[p] = "Leader" /\ r.term = currentTerm[p]
        mi     == [matchIndex[p] EXCEPT ![q] = r.match]
        C      == Committable(p, mi)
    IN /\ r \in appReps
       /\ appReps' = appReps \ {r}
       /\ \/ /\ ~ counts
             /\ UNCHANGED <<currentTerm, votedFor, state, leading, commitIndex>>
          \/ /\ counts /\ r.replyTerm > currentTerm[p]
             /\ StepDown(p, r.replyTerm)
             /\ UNCHANGED <<leading, commitIndex>>
          \/ /\ counts /\ r.replyTerm <= currentTerm[p] /\ r.success
             /\ matchIndex' = [matchIndex EXCEPT ![p] = mi]
             /\ nextIndex' = [nextIndex EXCEPT ![p][q] = r.match + 1]
             /\ commitIndex' = [commitIndex EXCEPT ![p] =
                  IF C = {} THEN @ ELSE CHOOSE n \in C : \A k \in C : k <= n]
             /\ UNCHANGED <<currentTerm, votedFor, state>>
          \/ /\ counts /\ r.replyTerm <= currentTerm[p] /\ ~ r.success
             /\ nextIndex' = [nextIndex EXCEPT ![p][q] = IF @ > 1 THEN @ - 1 ELSE 1]
             /\ UNCHANGED <<currentTerm, votedFor, state, matchIndex, commitIndex>>
       /\ UNCHANGED <<log, lastApplied, applied, votes, voteReqs, voteReps, appReqs, elections, restarts>>

(* The transport loses an AppendEntries call or gives up on it, before or    *)
(* after the peer has handled it.                                            *)
LoseCall ==
    /\ \/ \E m \in appReqs : appReqs' = appReqs \ {m} /\ UNCHANGED appReps
       \/ \E r \in appReps : appReps' = appReps \ {r} /\ UNCHANGED appReqs
    /\ UNCHANGED <<persistent, state, commitment, leading, votes, voteReqs, voteReps, elections, restarts>>

(* applyLogs: every committed entry goes to applyCh under one hold of rf.mu. *)
(* An index beyond the log is passed over.                                   *)
ApplyLogs(p) ==
    /\ commitIndex[p] > lastApplied[p]
    /\ lastApplied' = [lastApplied EXCEPT ![p] = commitIndex[p]]
    /\ applied' = [applied EXCEPT ![p] =
         @ \cup {[index |-> i, entry |-> log[p][i]] :
                   i \in (lastApplied[p] + 1 .. commitIndex[p]) \cap DOMAIN log[p]}]
    /\ UNCHANGED <<persistent, state, commitIndex, leading, votes, calls, elections, restarts>>

-----------------------------------------------------------------------------
(* The process of p dies and NewRaft starts over: nothing of it is on disk.  *)
(* The calls it was waiting for die with it.                                 *)
Restart(p) ==
    /\ restarts < MaxRestart
    /\ restarts' = restarts + 1
    /\ currentTerm' = [currentTerm EXCEPT ![p] = 0]
    /\ votedFor' = [votedFor EXCEPT ![p] = Nobody]
    /\ log' = [log EXCEPT ![p] = <<>>]
    /\ state' = [state EXCEPT ![p] = "Follower"]
    /\ commitIndex' = [commitIndex EXCEPT ![p] = 0]
    /\ lastApplied' = [lastApplied EXCEPT ![p] = 0]
    /\ nextIndex' = [nextIndex EXCEPT ![p] = [q \in Server |-> 1]]
    /\ matchIndex' = [matchIndex EXCEPT ![p] = [q \in Server |-> 0]]
    /\ votes' = [votes EXCEPT ![p] = {}]
    /\ applied' = [applied EXCEPT ![p] = {}]
    /\ voteReqs' = {m \in voteReqs : m.from # p}
    /\ voteReps' = {r \in voteReps : r.call.from # p}
    /\ appReqs' = {m \in appReqs : m.from # p}
    /\ appReps' = {r \in appReps : r.from # p}
    /\ UNCHANGED elections

Next ==
    \/ \E p \in Server : \/ StartElection(p)
                         \/ ApplyLogs(p)
                         \/ Restart(p)
                         \/ \E c \in Command : Propose(p, c)
                         \/ \E q \in Peers(p) : Replicate(p, q)
    \/ \E m \in voteReqs : RequestVote(m)
    \/ \E r \in voteReps : VoteReply(r)
    \/ \E m \in appReqs : AppendEntries(m)
    \/ \E r \in appReps : AppendReply(r)
    \/ LoseCall

Spec == Init /\ [][Next]_vars
=============================================================================
