----------------------------- MODULE RaftLogInv -----------------------------
(***************************************************************************)
(* The inductive invariant behind the theorems about what Raft replicates  *)
(* and commits.  It speaks of three things the variables do not hold:      *)
(*                                                                         *)
(*   H[t]     the log of the leader of term t, as it was when it last led, *)
(*   C[n][t]  the log with which n asked for votes in term t,              *)
(*   A[v][t]  the length of the part of H[t] that v acknowledged in t,     *)
(*                                                                         *)
(* each empty or 0 where there is none.  LogInv says that there are such   *)
(* H, C and A, and every step is shown to have a successor of them.        *)
(***************************************************************************)
EXTENDS RaftInv

(* The logs l and h have k entries, and the first k are the same. *)
SameUpTo(k, l, h) ==
  k <= Len(l) /\ k <= Len(h) /\ \A j \in 1 .. k : l[j] = h[j]

Logs == Seq(Entry)

Histories(H, C, A) ==
  /\ H \in [Nat -> Logs]
  /\ C \in [Node -> [Nat -> Logs]]
  /\ A \in [Node -> [Nat -> Nat]]

(* Up to an entry of term t, a log is the log of the leader of t; terms    *)
(* do not decrease along it and do not exceed max.                         *)
Grounded(l, H, max) ==
  \A a \in 1 .. Len(l) :
    /\ l[a].term <= max
    /\ SameUpTo(a, l, H[l[a].term])
    /\ \A j \in 1 .. a : l[j].term <= l[a].term

LogsGrounded(H, C) ==
  /\ \A n \in Node : Grounded(log[n], H, currentTerm[n])
  /\ \A t \in Nat : Grounded(H[t], H, t)
  /\ \A n \in Node, t \in Nat : Grounded(C[n][t], H, t)

(* Who the logs in H and C belong to. *)
Owners(H, C) ==
  /\ \A t \in Nat : H[t] # <<>> => \E n \in Node : <<n, t>> \in leaders
  /\ \A n \in Node : role[n] = Leader => H[currentTerm[n]] = log[n]
  /\ \A n \in Node : role[n] = Candidate => C[n][currentTerm[n]] = log[n]
  /\ \A b \in ballots : b[2] <= disk[b[3]].term
  /\ \A m \in voteReqs :
       /\ m.lastLogIndex = Len(C[m.from][m.term])
       /\ m.lastLogTerm = LastTerm(C[m.from][m.term])

(* The entries es follow index prev in the log h. *)
Follow(es, prev, h) ==
  /\ prev + Len(es) <= Len(h)
  /\ \A k \in 1 .. Len(es) : es[k] = h[prev + k]

(* An AppendEntries request carries a section of the log of its term. *)
Section(m, H) ==
  /\ Follow(m.entries, m.prevLogIndex, H[m.term])
  /\ m.prevLogTerm = TermAt(H[m.term], m.prevLogIndex)
Sections(H) ==
  /\ \A m \in appendReqs : Section(m, H)
  /\ \A r \in appendReps : Section(r.req, H)

(* What a node acknowledged in its term is in its log, and leaders count   *)
(* nothing that was not acknowledged.                                      *)
Acknowledged(H, A) ==
  /\ \A v \in Node, t \in Nat :
       /\ A[v][t] <= Len(H[t])
       /\ t > currentTerm[v] => A[v][t] = 0
  /\ \A v \in Node : SameUpTo(A[v][currentTerm[v]], log[v], H[currentTerm[v]])
  /\ \A r \in appendReps : r.success =>
       r.req.prevLogIndex + Len(r.req.entries) <= A[r.req.to][r.req.term]
  /\ \A n \in Node : role[n] = Leader =>
       /\ A[n][currentTerm[n]] = Len(log[n])
       /\ \A p \in Peers(n) : matchIndex[n][p] <= A[p][currentTerm[n]]

(* The entry at index a was created in term t. *)
Created(t, a, H) == a \in 1 .. Len(H[t]) /\ H[t][a].term = t

(* That entry can never be committed in t any more: a quorum has left the  *)
(* term without acknowledging it.                                          *)
Dead(t, a, A) ==
  \E V \in SUBSET Node :
    /\ Cardinality(V) >= Quorum
    /\ \A v \in V : disk[v].term > t /\ A[v][t] < a

Safe(t, a, l, H, A) == Dead(t, a, A) \/ SameUpTo(a, l, H[t])

(* An entry that may have been committed is in the log of every later      *)
(* leader, of every node that acknowledged it, and of every candidate that *)
(* such a node voted for since.                                            *)
Preserved(H, C, A) ==
  \A t \in Nat : \A a \in Nat : Created(t, a, H) =>
    /\ \A x \in leaders : x[2] > t => Safe(t, a, H[x[2]], H, A)
    /\ \A v \in Node : A[v][t] >= a => Safe(t, a, log[v], H, A)
    /\ \A b \in ballots :
         b[2] > t /\ A[b[1]][t] >= a => Safe(t, a, C[b[3]][b[2]], H, A)

(* A committed entry is at or below one that its leader created and a      *)
(* quorum acknowledged.                                                    *)
Anchored(c, a, H, A) ==
  /\ Created(c.term, a, H)
  /\ c.index \in 1 .. a /\ H[c.term][c.index] = c.entry
  /\ \E Q \in SUBSET Node :
       Cardinality(Q) >= Quorum /\ \A p \in Q : A[p][c.term] >= a

(* The first k entries of l were committed in term t or before. *)
Known(k, l, t) ==
  /\ k <= Len(l)
  /\ \A i \in 1 .. k :
       \E c \in committed : c.index = i /\ c.entry = l[i] /\ c.term <= t

Commits(H, A) ==
  /\ \A c \in committed : \E a \in Nat : Anchored(c, a, H, A)
  /\ \A n \in Node : Known(commitIndex[n], log[n], currentTerm[n])
  /\ \A m \in appendReqs : Known(m.leaderCommit, H[m.term], m.term)

Explained(H, C, A) ==
  /\ Histories(H, C, A)
  /\ LogsGrounded(H, C) /\ Owners(H, C) /\ Sections(H)
  /\ Acknowledged(H, A) /\ Preserved(H, C, A) /\ Commits(H, A)

(* What the theorems about logs rest on; inductive. *)
LogInv == Inv /\ \E H, C, A : Explained(H, C, A)

=============================================================================
