------------------------------ MODULE RaftInv -------------------------------
(***************************************************************************)
(* The inductive invariant behind the theorems about Raft.                 *)
(***************************************************************************)
EXTENDS Raft

(* A running node's memory and disk agree; the disk of a stopped one may   *)
(* be a term ahead of what its last handler had seen.                      *)
SyncedAt(n) ==
  /\ disk[n].entries = log[n]
  /\ disk[n].term >= currentTerm[n]
  /\ up[n] => disk[n].term = currentTerm[n] /\ disk[n].votedFor = votedFor[n]
Synced == \A n \in Node : SyncedAt(n)

(* What holds of memory and disk even when saves fail: a running node's    *)
(* disk is not ahead of its memory, and remembers no other vote of its     *)
(* term.                                                                   *)
SavedAt(n) ==
  up[n] => /\ disk[n].term <= currentTerm[n]
           /\ disk[n].term = currentTerm[n] => disk[n].votedFor \in {Nobody, votedFor[n]}
Saved == \A n \in Node : SavedAt(n)

(* A disk knows the terms that its node led, and who still runs for        *)
(* election was not elected.                                               *)
LeadersSaved ==
  /\ \A x \in leaders : x[2] <= disk[x[1]].term
  /\ \A n \in Node : role[n] = Candidate => <<n, currentTerm[n]>> \notin leaders

(* And who leads was elected in its term. *)
LeadersKnown ==
  /\ LeadersSaved
  /\ \A n \in Node : role[n] = Leader => <<n, currentTerm[n]>> \in leaders

(* An AppendEntries request comes from a leader of its term, and while     *)
(* that one leads, it offers nothing beyond the leader's log.              *)
AppendFrom(m) ==
  /\ m.to # m.from
  /\ <<m.from, m.term>> \in leaders
  /\ (role[m.from] = Leader /\ currentTerm[m.from] = m.term)
       => m.prevLogIndex + Len(m.entries) <= Len(log[m.from])
AppendsFromLeaders ==
  /\ \A m \in appendReqs : AppendFrom(m)
  /\ \A r \in appendReps : AppendFrom(r.req)

StructureInv ==
  TypeOK /\ Synced /\ LeadersKnown /\ AppendsFromLeaders /\ NextIndexInLog
    /\ LeaderIDElected

(* A node votes once in a term, and its disk remembers the last vote. *)
BallotsKept ==
  /\ \A b \in ballots :
       /\ b[2] <= disk[b[1]].term
       /\ b[2] = disk[b[1]].term => disk[b[1]].votedFor = b[3]
  /\ \A b, c \in ballots : b[1] = c[1] /\ b[2] = c[2] => b[3] = c[3]

(* A granted vote was saved before the reply was sent. *)
GrantsSaved ==
  \A r \in voteReps :
    r.voteGranted => <<r.req.to, r.req.term, r.req.from>> \in ballots

(* Of one RequestVote call there is one message in the network at most. *)
SameCall(m, q) == m.from = q.from /\ m.to = q.to /\ m.term = q.term
CallsOnce ==
  /\ \A m \in voteReqs : m.term <= disk[m.from].term /\ m.to # m.from
  /\ \A r \in voteReps : r.req.term <= disk[r.req.from].term /\ r.req.to # r.req.from
  /\ \A m, q \in voteReqs : SameCall(m, q) => m = q
  /\ \A r, s \in voteReps : SameCall(r.req, s.req) => r = s
  /\ \A m \in voteReqs, r \in voteReps : ~ SameCall(m, r.req)

(* S voted for n in term t; n has nothing more to expect from them. *)
VotedFor(S, n, t) == \A v \in S : <<v, t, n>> \in ballots
Heard(S, n, t) ==
  /\ \A m \in voteReqs : m.from = n /\ m.term = t => m.to \notin S
  /\ \A r \in voteReps : r.req.from = n /\ r.req.term = t => r.req.to \notin S

(* The number a candidate has counted is the number of nodes that voted    *)
(* for it, and a leader had a quorum of them.                              *)
VotesCounted(n) ==
  \E S \in SUBSET Node :
    /\ Cardinality(S) = votes[n]
    /\ VotedFor(S, n, currentTerm[n]) /\ Heard(S, n, currentTerm[n])
HasQuorum(x) ==
  \E S \in SUBSET Node : Cardinality(S) >= Quorum /\ VotedFor(S, x[1], x[2])
CountsTrue ==
  /\ \A n \in Node : role[n] = Candidate => VotesCounted(n)
  /\ \A x \in leaders : HasQuorum(x)

(* A node that a failed save left a candidate in a term in which it did    *)
(* not ask for votes expects none.                                         *)
CountsSound ==
  /\ \A n \in Node : role[n] = Candidate =>
       VotesCounted(n) \/ Heard(Node, n, currentTerm[n])
  /\ \A x \in leaders : HasQuorum(x)

ElectionInv == BallotsKept /\ GrantsSaved /\ CallsOnce /\ CountsTrue

(* What the theorems about elections rest on; inductive.  It says of the   *)
(* votes saved, in flight and counted how they hang together.              *)
Inv == StructureInv /\ ElectionInv

(* What is left of it when saves may fail in handlers; inductive as well.  *)
PanicInv ==
  /\ TypeOK /\ Saved /\ LeadersSaved /\ AppendsFromLeaders /\ NextIndexInLog
  /\ LeaderIDElected /\ BallotsKept /\ GrantsSaved /\ CallsOnce /\ CountsSound

=============================================================================
