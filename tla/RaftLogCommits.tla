--------------------------- MODULE RaftLogCommits ---------------------------
(***************************************************************************)
(* Every step keeps Commits, and what LogInv says of a state: logs match,  *)
(* what was counted, acknowledged or committed is on disk, leaders have    *)
(* what was committed, state machines agree.  Every step keeps Preserved   *)
(* as far as logs go.                                                      *)
(***************************************************************************)
EXTENDS RaftLogSteps

USE ZenonT(30), SMTT(30)

(* The log l holds the committed entry c. *)
Holds(c, l) == c.index \in 1 .. Len(l) /\ l[c.index] = c.entry

(* What a quorum acknowledged is not dead. *)
LEMMA AnchoredAlive ==
  ASSUME NEW A \in [Node -> [Nat -> Nat]], NEW H, NEW c, c.term \in Nat,
         NEW a \in Nat, Anchored(c, a, H, A)
  PROVE  ~ Dead(c.term, a, A)
<1>1. SUFFICES ASSUME Dead(c.term, a, A) PROVE FALSE
  OBVIOUS
<1>2. PICK t \in Nat : t = c.term
  OBVIOUS
<1>3. PICK Q \in SUBSET Node : Cardinality(Q) >= Quorum /\ \A p \in Q : A[p][t] >= a
  BY <1>2 DEF Anchored
<1>4. PICK V \in SUBSET Node : Cardinality(V) >= Quorum /\ \A p \in V : A[p][t] < a
  BY <1>1, <1>2 DEF Dead
<1>5. PICK p \in Node : p \in Q /\ p \in V
  BY <1>3, <1>4, QuorumsMeet
<1>6. A[p][t] >= a /\ A[p][t] < a
  BY <1>3, <1>4, <1>5
<1>7. A[p][t] \in Nat
  <2>1. A[p] \in [Nat -> Nat]
    OBVIOUS
  <2> QED
    BY <2>1
<1> QED
  BY <1>6, <1>7

(* Every leader of the term of a committed entry or of a later term has    *)
(* the entry.                                                              *)
LEMMA LeadersHold ==
  ASSUME NEW H, NEW C, NEW A, Explained(H, C, A), TypeOK, NEW c \in committed,
         NEW u \in Nat, NEW p, <<p, u>> \in leaders, c.term <= u
  PROVE  Holds(c, H[u])
<1>1. /\ H \in [Nat -> Logs] /\ A \in [Node -> [Nat -> Nat]]
      /\ Commits(H, A) /\ Preserved(H, C, A)
  BY DEF Explained, Histories
<1>2. c.term \in Nat /\ c.index \in Nat
  BY DEF TypeOK
<1>3. PICK t \in Nat : t = c.term
  BY <1>2
<1>4. PICK i \in Nat : i = c.index
  BY <1>2
<1>5. PICK a \in Nat : Anchored(c, a, H, A)
  BY <1>1 DEF Commits
<1>6. Created(t, a, H) /\ i \in 1 .. a /\ H[t][i] = c.entry
  BY <1>3, <1>4, <1>5 DEF Anchored
<1>7. ~ Dead(t, a, A)
  BY <1>1, <1>2, <1>3, <1>5, AnchoredAlive
<1>8. PICK h \in Logs : h = H[t]
  BY <1>1
<1>9. PICK g \in Logs : g = H[u]
  BY <1>1
<1>10. a \in 1 .. Len(h) /\ h[i] = c.entry /\ Len(h) \in Nat /\ Len(g) \in Nat
  BY <1>6, <1>8, LogFacts DEF Created
<1>11. SameUpTo(a, g, h)
  <2>1. CASE t = u
    <3>1. g = h
      BY <1>8, <1>9, <2>1
    <3> QED
      BY <1>10, <3>1 DEF SameUpTo
  <2>2. CASE t # u
    <3>1. u > t
      BY SMTT(30), <1>3, <2>2
    <3>2. PICK x \in leaders : x[2] = u
      OBVIOUS
    <3>3. Safe(t, a, H[u], H, A)
      BY <1>1, <1>6, <3>1, <3>2 DEF Preserved
    <3> QED
      BY <1>7, <1>8, <1>9, <3>3 DEF Safe
  <2> QED
    BY <2>1, <2>2
<1>12. i \in 1 .. Len(g) /\ g[i] = h[i]
  BY SMTT(30), <1>6, <1>10, <1>11 DEF SameUpTo
<1> QED
  BY <1>4, <1>9, <1>10, <1>12 DEF Holds

(* An entry of term t at k, not yet known to be committed, is in l and, as *)
(* far as n has counted, in the logs of a quorum.                          *)
Countable(n, k, l, t, match) ==
  /\ k \in commitIndex[n] + 1 .. Len(l) /\ l[k].term = t
  /\ Cardinality({p \in Peers(n) : match[p] >= k}) + 1 >= Quorum

(* advanceCommitIndex commits up to such an entry of the leader's term. *)
LEMMA CommitPointHeld ==
  ASSUME NEW n \in Node, commitIndex \in [Node -> Nat],
         NEW l \in Logs, NEW t \in Nat, NEW match \in [Node -> Nat],
         CommitPoint(n, l, t, match) # commitIndex[n]
  PROVE  Countable(n, CommitPoint(n, l, t, match), l, t, match)
<1>0. PICK k : k = CommitPoint(n, l, t, match)
  OBVIOUS
<1> DEFINE held == {i \in commitIndex[n] + 1 .. Len(l) :
              /\ \A j \in i .. Len(l) : l[j].term = t
              /\ Cardinality({p \in Peers(n) : match[p] >= i}) + 1 >= Quorum}
<1>1. Len(l) \in Nat /\ commitIndex[n] \in Nat
  BY LogFacts
<1>2. held \in SUBSET (0 .. Len(l))
  BY SMTT(30), <1>1
<1>3. held # {} /\ k = Max(held)
  BY <1>0 DEF CommitPoint
<1>4. k \in held
  <2> HIDE DEF held
  <2> QED
    BY <1>1, <1>2, <1>3, MaxProperties
<1>5. /\ k \in commitIndex[n] + 1 .. Len(l)
      /\ \A j \in k .. Len(l) : l[j].term = t
      /\ Cardinality({p \in Peers(n) : match[p] >= k}) + 1 >= Quorum
  BY <1>4
<1>6. k \in k .. Len(l)
  BY <1>1, <1>5
<1>7. Countable(n, k, l, t, match)
  BY <1>5, <1>6 DEF Countable
<1> QED
  BY <1>0, <1>7

(* What is committed stays committed. *)
LEMMA CommittedGrows ==
  ASSUME NEW n \in Node, CommitStep(n)
  PROVE  committed \subseteq committed'
BY DEF CommitStep, AdvanceCommitIndex, Merged

(* A committed entry keeps its anchor. *)
LEMMA AnchoredKept ==
  ASSUME NEW n \in Node, NEW H, NEW C, NEW A, NEW G, NEW D, NEW B,
         Moves(n, H, C, A, G, D, B), NEW c, c.term \in Nat, c.index \in Nat,
         NEW a \in Nat, Anchored(c, a, H, A)
  PROVE  Anchored(c, a, G, B)
<1>1. Moved(n, H, C, A, G, D, B)
  BY MoveSelf
<1>2. PICK t \in Nat : t = c.term
  OBVIOUS
<1>3. PICK i \in Nat : i = c.index
  OBVIOUS
<1>4. PICK h \in Logs : h = H[t]
  BY <1>1, HistoryTypes
<1>5. PICK g \in Logs : g = G[t]
  BY <1>1, HistoryTypes
<1>6. /\ a \in 1 .. Len(h) /\ h[a].term = t /\ i \in 1 .. a /\ h[i] = c.entry
      /\ Len(h) \in Nat /\ Len(g) \in Nat
  BY <1>2, <1>3, <1>4, LogFacts DEF Anchored, Created
<1>7. SameUpTo(Len(h), g, h)
  BY <1>4, <1>5, HistoryGrows DEF Extends
<1>8. a \in 1 .. Len(g) /\ g[a] = h[a] /\ g[i] = h[i]
  BY <1>6, <1>7 DEF SameUpTo
<1>9. PICK Q \in SUBSET Node : Cardinality(Q) >= Quorum /\ \A p \in Q : A[p][t] >= a
  BY <1>2 DEF Anchored
<1>10. ASSUME NEW p \in Q PROVE B[p][t] >= a
  <2>1. A[p][t] >= a /\ p \in Node
    BY <1>9
  <2>2. A[p][t] \in Nat /\ B[p][t] \in Nat /\ A[p][t] <= B[p][t]
    BY <2>1, AcksGrow
  <2> QED
    BY <2>1, <2>2
<1>11. Created(t, a, G) /\ G[t][i] = c.entry
  BY <1>5, <1>6, <1>8 DEF Created
<1> QED
  BY <1>2, <1>3, <1>6, <1>9, <1>10, <1>11 DEF Anchored

(* The quorum that holds what a leader commits: the leader itself and the  *)
(* peers it counts.                                                        *)
LEMMA QuorumHolds ==
  ASSUME NEW n \in Node, NEW S \in SUBSET Peers(n), Cardinality(S) + 1 >= Quorum
  PROVE  Cardinality(S \cup {n}) >= Quorum
<1>1. IsFiniteSet(S) /\ n \notin S
  BY FS_Subset, ConstantsAssumption DEF Peers
<1>2. Cardinality(S \cup {n}) = Cardinality(S) + 1
  BY <1>1, FS_AddElement
<1> QED
  BY <1>2

(* The index up to which a leader commits is an anchor of all below it. *)
LEMMA NewAnchor ==
  ASSUME NEW n \in Node, NEW H, NEW C, NEW A, NEW G, NEW D, NEW B,
         Moves(n, H, C, A, G, D, B), role'[n] = Leader, AdvanceCommitIndex(n),
         NEW k, k = commitIndex'[n], k # commitIndex[n], NEW i \in 1 .. k
  PROVE  /\ k \in 1 .. Len(log'[n])
         /\ Anchored([index |-> i, entry |-> log'[n][i], term |-> currentTerm'[n]], k, G, B)
<1>1. Moved(n, H, C, A, G, D, B) /\ TypeOK /\ TypeOK' /\ Acknowledged(G, B)'
  BY MoveSelf, AcknowledgedStep DEF Moves, Inv, StructureInv
<1>2. PICK u \in Nat : u = currentTerm'[n]
  BY <1>1 DEF TypeOK
<1>3. PICK l \in Logs : l = log'[n]
  BY <1>1 DEF Moved, Typed
<1>4. PICK match \in [Node -> Nat] : match = matchIndex'[n]
  BY <1>1 DEF TypeOK
<1>5. k = CommitPoint(n, l, u, match) /\ commitIndex \in [Node -> Nat]
  BY <1>1, <1>2, <1>3, <1>4 DEF AdvanceCommitIndex, TypeOK
<1>6. /\ k \in commitIndex[n] + 1 .. Len(l) /\ l[k].term = u
      /\ Cardinality({p \in Peers(n) : match[p] >= k}) + 1 >= Quorum
  <2>1. Countable(n, CommitPoint(n, l, u, match), l, u, match)
    BY <1>5, CommitPointHeld
  <2>2. Countable(n, k, l, u, match)
    BY <1>5, <2>1
  <2> QED
    BY <2>2 DEF Countable
<1>7. commitIndex[n] \in Nat /\ Len(l) \in Nat
  BY <1>5, LogFacts
<1>8. k \in 1 .. Len(l) /\ k \in Nat
  BY SMTT(30), <1>6, <1>7
<1>9. G[u] = l
  <2>1. G[currentTerm'[n]] = log'[n]
    BY SMTT(30), LeadersOwn
  <2> QED
    BY <1>2, <1>3, <2>1
<1>10. Created(u, k, G)
  BY <1>6, <1>8, <1>9 DEF Created
<1>11. B[n][u] = Len(l) /\ \A p \in Peers(n) : match[p] <= B[p][u]
  BY <1>1, <1>2, <1>3, <1>4 DEF Acknowledged
<1> DEFINE S == {p \in Peers(n) : match[p] >= k}
           Q == S \cup {n}
<1>12. Q \in SUBSET Node /\ Cardinality(Q) >= Quorum
  <2>1. S \in SUBSET Peers(n) /\ Cardinality(S) + 1 >= Quorum /\ Q \in SUBSET Node
    BY <1>6 DEF Peers
  <2> HIDE DEF S
  <2> QED
    BY <2>1, QuorumHolds
<1>13. ASSUME NEW p \in Q PROVE B[p][u] >= k
  <2>1. CASE p = n
    BY <1>7, <1>8, <1>11, <2>1
  <2>2. CASE p \in Peers(n) /\ match[p] >= k
    <3>1. p \in Node
      BY <2>2 DEF Peers
    <3>2. B[p][u] \in Nat /\ match[p] \in Nat /\ match[p] <= B[p][u]
      BY <1>1, <1>11, <2>2, <3>1, HistoryTypes
    <3> QED
      BY <1>8, <2>2, <3>2
  <2> QED
    BY <2>1, <2>2
<1> HIDE DEF Q
<1>14. PICK c : c = [index |-> i, entry |-> log'[n][i], term |-> currentTerm'[n]]
  OBVIOUS
<1>15. c.index = i /\ c.entry = l[i] /\ c.term = u
  BY <1>2, <1>3, <1>14
<1>16. Anchored(c, k, G, B)
  BY <1>9, <1>10, <1>12, <1>13, <1>15 DEF Anchored
<1> QED
  BY <1>3, <1>8, <1>14, <1>16

(* The same as Known, of the state a step ends in. *)
KnownAfter(k, l, t) ==
  /\ k <= Len(l)
  /\ \A i \in 1 .. k :
       \E c \in committed' : c.index = i /\ c.entry = l[i] /\ c.term <= t

(* What was known of a log is known of one that starts with the same       *)
(* entries, in a later term too.                                           *)
LEMMA KnownKept ==
  ASSUME TypeOK, NEW n \in Node, CommitStep(n), NEW k \in Nat,
         NEW l \in Logs, NEW h \in Logs, NEW t \in Nat, NEW u \in Nat, t <= u,
         Known(k, l, t), SameUpTo(k, h, l)
  PROVE  KnownAfter(k, h, u)
<1>1. k <= Len(h) /\ \A i \in 1 .. k : h[i] = l[i]
  BY DEF SameUpTo
<1>2. ASSUME NEW i \in 1 .. k
      PROVE  \E c \in committed' : c.index = i /\ c.entry = h[i] /\ c.term <= u
  <2>1. PICK c \in committed : c.index = i /\ c.entry = l[i] /\ c.term <= t
    BY DEF Known
  <2>2. c \in committed' /\ c.term \in Nat
    BY CommittedGrows DEF TypeOK
  <2>3. c.term <= u
    BY <2>1, <2>2
  <2> QED
    BY <1>1, <2>1, <2>2, <2>3
<1> QED
  BY <1>1, <1>2 DEF KnownAfter

(* A follower that merges a request commits what its leader committed, and *)
(* gives up nothing it knew to be committed.                               *)
LEMMA KnownMerged ==
  ASSUME NEW n \in Node, NEW H, NEW C, NEW A, NEW G, NEW D, NEW B,
         Moves(n, H, C, A, G, D, B), NEW m \in appendReqs, Merged(n, m), CommitStep(n)
  PROVE  /\ KnownAfter(commitIndex'[n], log'[n], currentTerm'[n])
         /\ SameUpTo(commitIndex[n], log'[n], log[n])
<1>1. /\ Moved(n, H, C, A, G, D, B) /\ TypeOK /\ Commits(H, A)
      /\ Explained(H, C, A) /\ AppendsFromLeaders
  BY MoveSelf DEF Moves, Explained, Inv, StructureInv
<1>2. Typed(n)
  BY <1>1 DEF Moved
<1>3. /\ m.term \in Nat /\ H[m.term] \in Logs
      /\ m.prevLogIndex + Len(m.entries) \in Nat
      /\ SameUpTo(m.prevLogIndex + Len(m.entries), log'[n], H[m.term])
      /\ \A i \in Nat : SameUpTo(i, log[n], H[m.term]) =>
                          SameUpTo(i, log'[n], H[m.term])
  BY MergeLeaves
<1>4. PICK u \in Nat : u = m.term /\ u = currentTerm'[n]
  BY <1>3 DEF Merged
<1>5. PICK s \in Nat : s = currentTerm[n]
  BY <1>2 DEF Typed
<1>6. PICK h \in Logs : h = H[u]
  BY <1>3, <1>4
<1>7. PICK e \in Nat : e = m.prevLogIndex + Len(m.entries)
  BY <1>3
<1>8. PICK l \in Logs : l = log[n]
  BY <1>2 DEF Typed
<1>9. PICK g \in Logs : g = log'[n]
  BY <1>2 DEF Typed
<1>10. PICK k \in Nat : k = commitIndex[n]
  BY <1>1 DEF TypeOK
<1>11. PICK lc \in Nat : lc = m.leaderCommit
  BY <1>1 DEF TypeOK, AppendEntriesArgs
<1>12. /\ SameUpTo(e, g, h) /\ \A i \in Nat : SameUpTo(i, l, h) => SameUpTo(i, g, h)
  BY <1>3, <1>4, <1>6, <1>7, <1>8, <1>9
<1>13. s <= u /\ Len(l) \in Nat /\ Len(g) \in Nat /\ Len(h) \in Nat
  BY <1>2, <1>4, <1>5, LogFacts DEF Typed
<1>14. Known(k, l, s) /\ Known(lc, h, u)
  BY <1>1, <1>4, <1>5, <1>6, <1>8, <1>10, <1>11 DEF Commits
<1>15. SameUpTo(k, l, h)
  <2>1. ASSUME NEW i \in 1 .. k PROVE i <= Len(h) /\ l[i] = h[i]
    <3>1. PICK c \in committed : c.index = i /\ c.entry = l[i] /\ c.term <= s
      BY <1>14 DEF Known
    <3>2. c.term \in Nat
      BY <1>1 DEF TypeOK
    <3>3. c.term <= u
      BY SMTT(30), <1>13, <3>1, <3>2
    <3>4. <<m.from, u>> \in leaders
      BY <1>1, <1>4 DEF AppendsFromLeaders, AppendFrom
    <3>5. Holds(c, H[u])
      BY <1>1, <3>3, <3>4, LeadersHold
    <3>6. i \in 1 .. Len(h) /\ h[i] = l[i]
      BY <1>6, <3>1, <3>5 DEF Holds
    <3> QED
      BY <1>13, <3>6
  <2>2. k <= Len(l)
    BY <1>14 DEF Known
  <2>3. k <= Len(h)
    <3>1. CASE k = 0
      BY SMTT(30), <1>13, <3>1
    <3>2. CASE k # 0
      BY <2>1, <3>2
    <3> QED
      BY <3>1, <3>2
  <2> QED
    BY <2>1, <2>2, <2>3 DEF SameUpTo
<1>16. SameUpTo(k, g, l)
  <2>1. SameUpTo(k, g, h)
    BY <1>12, <1>15
  <2>2. SameUpTo(k, h, l)
    BY <1>15, SameUpToRules
  <2> QED
    BY <2>1, <2>2, SameUpToRules
<1>17. KnownAfter(k, g, u)
  BY <1>1, <1>13, <1>14, <1>16, KnownKept
<1>18. PICK j \in Nat : j = Min({lc, e}) /\ j <= lc /\ j <= e
  <2>1. Min({lc, e}) = IF lc <= e THEN lc ELSE e
    BY PairExtrema
  <2> QED
    BY <2>1
<1>19. KnownAfter(j, g, u)
  <2>0. j <= lc /\ j <= e /\ SameUpTo(e, g, h)
    BY <1>12, <1>18
  <2>1. SameUpTo(j, g, h)
    BY <1>13, <2>0 DEF SameUpTo
  <2>2. Known(j, h, u)
    <3>1. j <= Len(h) /\ \A i \in 1 .. j : i \in 1 .. lc
      BY SMTT(30), <1>13, <1>14, <2>0 DEF Known
    <3> QED
      BY <1>14, <3>1 DEF Known
  <2>3. u <= u
    OBVIOUS
  <2> QED
    BY <1>1, <2>1, <2>2, <2>3, KnownKept
<1>20. commitIndex'[n] = Max({k, j})
  BY <1>7, <1>10, <1>11, <1>18 DEF Merged, CommitFrom
<1>21. commitIndex'[n] = k \/ commitIndex'[n] = j
  <2>1. Max({k, j}) = IF k >= j THEN k ELSE j
    BY PairExtrema
  <2> QED
    BY <1>20, <2>1
<1> QED
  BY <1>4, <1>8, <1>9, <1>10, <1>16, <1>17, <1>19, <1>21

(* What a node has beyond a log it starts with changes nothing for it. *)
LEMMA LogStarts ==
  ASSUME NEW n \in Node, NEW H, NEW C, NEW A, NEW G, NEW D, NEW B,
         Moves(n, H, C, A, G, D, B), Kept(n) \/ Grew(n)
  PROVE  SameUpTo(Len(log[n]), log'[n], log[n])
<1>1. Typed(n)
  BY MoveSelf DEF Moved
<1>2. CASE Kept(n)
  BY <1>1, <1>2 DEF Kept, SameUpTo, Typed
<1>3. CASE Grew(n)
  BY <1>1, <1>3, OneMoreStarts DEF Grew, Typed
<1> QED
  BY <1>2, <1>3

(* A node that merges nothing still knows what it knew. *)
LEMMA KnownBefore ==
  ASSUME NEW n \in Node, NEW H, NEW C, NEW A, NEW G, NEW D, NEW B,
         Moves(n, H, C, A, G, D, B), Kept(n) \/ Grew(n), CommitStep(n)
  PROVE  KnownAfter(commitIndex[n], log'[n], currentTerm'[n])
<1>1. TypeOK /\ Commits(H, A)
  BY DEF Moves, Explained, Inv, StructureInv
<1>2. Typed(n)
  BY MoveSelf DEF Moved
<1>3. Known(commitIndex[n], log[n], currentTerm[n]) /\ commitIndex[n] \in Nat
  BY <1>1 DEF Commits, TypeOK
<1>4. SameUpTo(Len(log[n]), log'[n], log[n])
  BY LogStarts
<1>5. PICK k \in Nat : k = commitIndex[n]
  BY <1>3
<1>6. PICK l \in Logs : l = log[n]
  BY <1>2 DEF Typed
<1>7. PICK g \in Logs : g = log'[n]
  BY <1>2 DEF Typed
<1>8. k <= Len(l) /\ SameUpTo(Len(l), g, l) /\ Len(l) \in Nat /\ Len(g) \in Nat
  BY <1>3, <1>4, <1>5, <1>6, <1>7, LogFacts DEF Known
<1>9. SameUpTo(k, g, l)
  BY SMTT(30), <1>8 DEF SameUpTo
<1>10. SameUpTo(commitIndex[n], log'[n], log[n])
  BY <1>5, <1>6, <1>7, <1>9
<1> QED
  BY <1>1, <1>2, <1>3, <1>10, KnownKept DEF Typed

(* A leader knows what it commits. *)
LEMMA KnownLed ==
  ASSUME NEW n \in Node, NEW H, NEW C, NEW A, NEW G, NEW D, NEW B,
         Moves(n, H, C, A, G, D, B), role'[n] = Leader, AdvanceCommitIndex(n),
         CommitStep(n)
  PROVE  KnownAfter(commitIndex'[n], log'[n], currentTerm'[n])
<1>1. TypeOK /\ TypeOK' /\ NodeStep(n) /\ Synced
  BY DEF Moves, Inv, StructureInv
<1>2. \A m \in appendReqs : ~ Merged(n, m)
  BY DEF Merged, Leader, Follower
<1>3. Kept(n) \/ Grew(n)
  BY <1>1, <1>2, SelfLog DEF LogStep
<1>4. KnownAfter(commitIndex[n], log'[n], currentTerm'[n])
  BY <1>3, KnownBefore
<1>5. CASE commitIndex'[n] = commitIndex[n]
  BY <1>4, <1>5
<1>6. CASE commitIndex'[n] # commitIndex[n]
  <2>1. PICK k \in Nat : k = commitIndex'[n]
    BY <1>1 DEF TypeOK
  <2>2. PICK j \in Nat : j = commitIndex[n]
    BY <1>1 DEF TypeOK
  <2>3. currentTerm'[n] \in Nat
    BY <1>1 DEF TypeOK
  <2>4. ASSUME NEW i \in 1 .. k
        PROVE  \E c \in committed' :
                 c.index = i /\ c.entry = log'[n][i] /\ c.term <= currentTerm'[n]
    <3>1. CASE i \in 1 .. j
      BY <1>4, <2>2, <3>1 DEF KnownAfter
    <3>2. CASE i \notin 1 .. j
      <4>1. i \in commitIndex[n] + 1 .. commitIndex'[n]
        BY SMTT(30), <2>1, <2>2, <3>2
      <4>2. PICK c : c = [index |-> i, entry |-> log'[n][i], term |-> currentTerm'[n]]
        OBVIOUS
      <4>3. c \in committed'
        BY <4>1, <4>2 DEF AdvanceCommitIndex
      <4>4. c.index = i /\ c.entry = log'[n][i] /\ c.term = currentTerm'[n]
        BY <4>2
      <4>5. c.term <= currentTerm'[n]
        BY SMTT(30), <2>3, <4>4
      <4> QED
        BY <4>3, <4>4, <4>5
    <3> QED
      BY <3>1, <3>2
  <2>5. k <= Len(log'[n])
    <3>1. CASE k = 0
      <4>1. Len(log'[n]) \in Nat
        BY MoveSelf DEF Moved, Typed
      <4> QED
        BY SMTT(30), <3>1, <4>1
    <3>2. CASE k # 0
      <4>1. 1 \in 1 .. k /\ k # commitIndex[n]
        BY <1>6, <2>1, <3>2
      <4>2. k \in 1 .. Len(log'[n])
        BY <2>1, <4>1, NewAnchor
      <4> QED
        BY <4>2
    <3> QED
      BY <3>1, <3>2
  <2> QED
    BY <2>1, <2>4, <2>5 DEF KnownAfter
<1> QED
  BY <1>5, <1>6

(* Every node knows what is committed in the log up to its commit index. *)
LEMMA KnownStep ==
  ASSUME NEW n \in Node, NEW H, NEW C, NEW A, NEW G, NEW D, NEW B,
         Moves(n, H, C, A, G, D, B), CommitStep(n), NEW p \in Node
  PROVE  KnownAfter(commitIndex'[p], log'[p], currentTerm'[p])
<1>1. TypeOK /\ TypeOK' /\ NodeStep(n) /\ Synced /\ Commits(H, A)
  BY DEF Moves, Explained, Inv, StructureInv
<1>2. Typed(p)
  BY MoveSelf DEF Moved
<1>3. CASE p # n
  <2>1. Stayed(p, C, A, D, B)
    BY <1>3, MoveOthers
  <2>2. Known(commitIndex[p], log[p], currentTerm[p]) /\ commitIndex[p] \in Nat
    BY <1>1 DEF Commits, TypeOK
  <2>3. SameUpTo(commitIndex[p], log[p], log[p]) /\ currentTerm[p] <= currentTerm[p]
    BY SMTT(30), <1>2, <2>2 DEF Known, SameUpTo, Typed
  <2>4. KnownAfter(commitIndex[p], log[p], currentTerm[p])
    BY <1>1, <1>2, <2>2, <2>3, KnownKept DEF Typed
  <2> QED
    BY <2>1, <2>4 DEF Stayed
<1>4. ASSUME p = n, NEW m \in appendReqs, Merged(n, m)
      PROVE  KnownAfter(commitIndex'[p], log'[p], currentTerm'[p])
  BY <1>4, KnownMerged
<1>5. CASE p = n /\ role'[n] = Leader /\ AdvanceCommitIndex(n)
  BY <1>5, KnownLed
<1>6. CASE p = n /\ commitIndex'[n] \in {0, commitIndex[n]} /\ ~ \E m \in appendReqs : Merged(n, m)
  <2>1. CASE commitIndex'[n] = 0
    BY <1>2, <1>6, <2>1 DEF KnownAfter, Typed
  <2>2. CASE commitIndex'[n] = commitIndex[n]
    <3>1. Kept(n) \/ Grew(n)
      BY <1>1, <1>6, SelfLog DEF LogStep
    <3>2. KnownAfter(commitIndex[n], log'[n], currentTerm'[n])
      BY <3>1, KnownBefore
    <3> QED
      BY <1>6, <2>2, <3>2
  <2> QED
    BY <1>6, <2>1, <2>2
<1> QED
  BY <1>3, <1>4, <1>5, <1>6 DEF CommitStep

(* Every committed entry has an anchor. *)
LEMMA AnchorsStep ==
  ASSUME NEW n \in Node, NEW H, NEW C, NEW A, NEW G, NEW D, NEW B,
         Moves(n, H, C, A, G, D, B), CommitStep(n), NEW c \in committed'
  PROVE  \E a \in Nat : Anchored(c, a, G, B)
<1>1. TypeOK /\ TypeOK' /\ Commits(H, A)
  BY DEF Moves, Explained, Inv, StructureInv
<1>2. CASE c \in committed
  <2>1. c.term \in Nat /\ c.index \in Nat
    BY <1>1, <1>2 DEF TypeOK
  <2>2. PICK a \in Nat : Anchored(c, a, H, A)
    BY <1>1, <1>2 DEF Commits
  <2> QED
    BY <2>1, <2>2, AnchoredKept
<1>3. CASE c \notin committed
  <2>1. role'[n] = Leader /\ AdvanceCommitIndex(n)
    BY <1>3 DEF CommitStep, Merged
  <2>2. PICK i \in commitIndex[n] + 1 .. commitIndex'[n] :
          c = [index |-> i, entry |-> log'[n][i], term |-> currentTerm'[n]]
    BY <1>3, <2>1 DEF AdvanceCommitIndex
  <2>3. PICK k \in Nat : k = commitIndex'[n]
    BY <1>1 DEF TypeOK
  <2>4. PICK j \in Nat : j = commitIndex[n]
    BY <1>1 DEF TypeOK
  <2>5. i \in 1 .. k /\ k # commitIndex[n]
    BY <2>3, <2>4
  <2>6. Anchored([index |-> i, entry |-> log'[n][i], term |-> currentTerm'[n]], k, G, B)
    BY <2>1, <2>3, <2>5, NewAnchor
  <2> QED
    BY <2>2, <2>3, <2>6
<1> QED
  BY <1>2, <1>3

(* A request tells a commit index that its sender knew. *)
LEMMA RequestsKnown ==
  ASSUME NEW n \in Node, NEW H, NEW C, NEW A, NEW G, NEW D, NEW B,
         Moves(n, H, C, A, G, D, B), CommitStep(n), NEW m \in appendReqs'
  PROVE  KnownAfter(m.leaderCommit, G[m.term], m.term)
<1>1. /\ Moved(n, H, C, A, G, D, B) /\ TypeOK /\ TypeOK' /\ Commits(H, A)
      /\ Owners(H, C) /\ NodeStep(n)
  BY MoveSelf DEF Moves, Explained, Inv, StructureInv
<1>2. PICK t \in Nat : t = m.term
  BY <1>1 DEF TypeOK, AppendEntriesArgs
<1>3. PICK k \in Nat : k = m.leaderCommit
  BY <1>1 DEF TypeOK, AppendEntriesArgs
<1>4. PICK h \in Logs : h = H[t]
  BY <1>1, HistoryTypes
<1>5. PICK g \in Logs : g = G[t]
  BY <1>1, HistoryTypes
<1>6. Known(k, h, t)
  <2>1. CASE m \in appendReqs
    BY <1>1, <1>2, <1>3, <1>4, <2>1 DEF Commits
  <2>2. CASE m \notin appendReqs
    <3>1. PICK q \in Peers(n) : ReplicateTo(n, q)
      BY <1>1, <2>2, AppendNetStep
    <3> DEFINE prev == nextIndex[n][q] - 1
               es == EntriesFrom(log[n], prev + 1, MaxEntriesPerAppend)
    <3> HIDE DEF es
    <3>2. m = [from |-> n, boot |-> boot[n], to |-> q, term |-> currentTerm[n],
               prevLogIndex |-> prev, prevLogTerm |-> TermAt(log[n], prev),
               entries |-> es, leaderCommit |-> commitIndex[n]]
      BY <2>2, <3>1 DEF ReplicateTo, es
    <3>3. m.term = currentTerm[n] /\ m.leaderCommit = commitIndex[n]
      BY <3>2
    <3>4. role[n] = Leader
      BY <3>1 DEF ReplicateTo
    <3>5. H[currentTerm[n]] = log[n]
      BY <1>1, <3>4 DEF Owners
    <3>6. Known(commitIndex[n], log[n], currentTerm[n])
      BY <1>1 DEF Commits
    <3> QED
      BY <1>2, <1>3, <1>4, <3>3, <3>5, <3>6
  <2> QED
    BY <2>1, <2>2
<1>7. SameUpTo(Len(h), g, h)
  BY <1>4, <1>5, HistoryGrows DEF Extends
<1>8. SameUpTo(k, g, h) /\ t <= t
  <2>1. Len(h) \in Nat /\ Len(g) \in Nat /\ k <= Len(h)
    BY <1>6, LogFacts DEF Known
  <2> QED
    BY <1>7, <2>1 DEF SameUpTo
<1>9. KnownAfter(k, g, t)
  BY <1>1, <1>6, <1>8, KnownKept
<1> QED
  BY <1>2, <1>3, <1>5, <1>9

(* Commitment stays what a quorum acknowledged. *)
LEMMA CommitsStep ==
  ASSUME NEW n \in Node, NEW H, NEW C, NEW A, NEW G, NEW D, NEW B,
         Moves(n, H, C, A, G, D, B)
  PROVE  Commits(G, B)'
<1>1. CommitStep(n)
  BY SelfCommit DEF Moves, Inv, StructureInv
<1>2. \A c \in committed' : \E a \in Nat : Anchored(c, a, G, B)
  BY <1>1, AnchorsStep
<1>3. \A p \in Node : KnownAfter(commitIndex'[p], log'[p], currentTerm'[p])
  BY <1>1, KnownStep
<1>4. \A m \in appendReqs' : KnownAfter(m.leaderCommit, G[m.term], m.term)
  BY <1>1, RequestsKnown
<1> QED
  BY <1>2, <1>3, <1>4 DEF Commits, Anchored, Created, Known, KnownAfter

-----------------------------------------------------------------------------
(* What LogInv says of a state, one lemma for each theorem. *)

(* Two logs that agree on the term of an index descend from one leader's. *)
LEMMA InvLogMatching == LogInv => LogMatching
<1> SUFFICES ASSUME LogInv PROVE LogMatching
  OBVIOUS
<1>1. PICK H, C, A : Explained(H, C, A)
  BY DEF LogInv
<1>2. TypeOK /\ Synced /\ H \in [Nat -> Logs] /\ LogsGrounded(H, C)
  BY <1>1 DEF LogInv, Inv, StructureInv, Explained, Histories
<1>3. SUFFICES ASSUME NEW n \in Node, NEW p \in Node,
                      NEW i \in DOMAIN log[n] \cap DOMAIN log[p],
                      log[n][i].term = log[p][i].term
               PROVE  SubSeq(log[n], 1, i) = SubSeq(log[p], 1, i)
  <2>1. \A n \in Node : disk[n].entries = log[n]
    BY <1>2 DEF Synced, SyncedAt
  <2>2. SUFFICES ASSUME NEW n \in Node, NEW p \in Node,
                        NEW i \in DOMAIN disk[n].entries \cap DOMAIN disk[p].entries,
                        disk[n].entries[i].term = disk[p].entries[i].term
                 PROVE  SubSeq(disk[n].entries, 1, i) = SubSeq(disk[p].entries, 1, i)
    BY DEF LogMatching
  <2>3. disk[n].entries = log[n] /\ disk[p].entries = log[p]
    BY <2>1
  <2>4. i \in DOMAIN log[n] \cap DOMAIN log[p] /\ log[n][i].term = log[p][i].term
    BY <2>2, <2>3
  <2> QED
    BY <2>3, <2>4
<1>4. PICK l \in Logs : l = log[n]
  BY <1>2, NodeTypes DEF Logs
<1>5. PICK h \in Logs : h = log[p]
  BY <1>2, NodeTypes DEF Logs
<1>6. PICK s \in Nat : s = currentTerm[n]
  BY <1>2, NodeTypes
<1>7. PICK t \in Nat : t = currentTerm[p]
  BY <1>2, NodeTypes
<1>8. Grounded(l, H, s) /\ Grounded(h, H, t)
  BY <1>2, <1>4, <1>5, <1>6, <1>7 DEF LogsGrounded
<1>9. /\ DOMAIN l = 1 .. Len(l) /\ DOMAIN h = 1 .. Len(h)
      /\ Len(l) \in Nat /\ Len(h) \in Nat
  BY LenProperties DEF Logs
<1>10. i \in 1 .. Len(l) /\ i \in 1 .. Len(h) /\ l[i].term = h[i].term
  BY <1>3, <1>4, <1>5, <1>9
<1>11. i <= Len(h) /\ i \in Nat
  BY <1>9, <1>10
<1>12. SameUpTo(i, l, h)
  BY <1>2, <1>8, <1>10, <1>11, GroundedMatch
<1>13. SubSeq(l, 1, i) = SubSeq(h, 1, i)
  BY <1>11, <1>12, SameStart
<1> QED
  BY <1>4, <1>5, <1>13

(* What a leader counted was acknowledged in its term, and what was        *)
(* acknowledged in a term is kept in that term.                            *)
LEMMA InvMatchIndexTrue == LogInv => MatchIndexTrue
<1> SUFFICES ASSUME LogInv PROVE MatchIndexTrue
  OBVIOUS
<1>1. PICK H, C, A : Explained(H, C, A)
  BY DEF LogInv
<1>2. /\ TypeOK /\ Synced /\ Acknowledged(H, A) /\ Owners(H, C)
      /\ A \in [Node -> [Nat -> Nat]]
  BY <1>1 DEF LogInv, Inv, StructureInv, Explained, Histories
<1>3. SUFFICES ASSUME NEW n \in Node, role[n] = Leader, NEW p \in Peers(n),
                      disk[p].term = currentTerm[n], NEW k, k = matchIndex[n][p]
               PROVE  /\ k <= Len(log[p]) /\ k <= Len(log[n])
                      /\ SubSeq(log[p], 1, k) = SubSeq(log[n], 1, k)
  <2>1. \A n \in Node : \A p \in Peers(n) : disk[p].entries = log[p]
    BY <1>2 DEF Synced, SyncedAt, Peers
  <2> QED
    BY <2>1 DEF MatchIndexTrue
<1>4. p \in Node
  BY DEF Peers
<1>5. PICK l \in Logs : l = log[p]
  BY <1>2, <1>4, NodeTypes DEF Logs
<1>6. PICK h \in Logs : h = log[n]
  BY <1>2, NodeTypes DEF Logs
<1>7. PICK t \in Nat : t = currentTerm[n]
  BY <1>2, NodeTypes
<1>8. PICK s \in Nat : s = currentTerm[p]
  BY <1>2, <1>4, NodeTypes
<1>9. PICK a \in Nat : a = A[p][t]
  <2>1. A[p] \in [Nat -> Nat]
    BY <1>2, <1>4
  <2> QED
    BY <2>1
<1>10. k \in Nat
  BY <1>2, <1>3, <1>4 DEF TypeOK
<1>11. k <= a
  BY <1>2, <1>3, <1>7, <1>9 DEF Acknowledged
<1>12. Len(l) \in Nat /\ Len(h) \in Nat
  BY LogFacts
<1>13. SameUpTo(k, l, h)
  <2>1. CASE s = t
    <3>1. H[t] = h
      BY <1>2, <1>3, <1>6, <1>7 DEF Owners
    <3>2. SameUpTo(a, l, h)
      BY <1>2, <1>4, <1>5, <1>8, <1>9, <2>1, <3>1 DEF Acknowledged
    <3> QED
      BY SMTT(30), <1>10, <1>11, <1>12, <3>2 DEF SameUpTo
  <2>2. CASE s # t
    <3>1. disk[p].term >= currentTerm[p]
      BY <1>2, <1>4 DEF Synced, SyncedAt
    <3>2. t > s
      BY SMTT(30), <1>3, <1>7, <1>8, <2>2, <3>1
    <3>3. a = 0
      BY <1>2, <1>4, <1>8, <1>9, <3>2 DEF Acknowledged
    <3> QED
      BY SMTT(30), <1>10, <1>11, <1>12, <3>3 DEF SameUpTo
  <2> QED
    BY <2>1, <2>2
<1>14. SubSeq(l, 1, k) = SubSeq(h, 1, k)
  BY <1>10, <1>13, SameStart
<1> QED
  BY <1>5, <1>6, <1>13, <1>14 DEF SameUpTo

(* A successful reply is about entries that the node acknowledged. *)
LEMMA InvAcknowledgedOnDisk == LogInv => AcknowledgedOnDisk
<1> SUFFICES ASSUME LogInv, NEW r \in appendReps, r.success,
                    currentTerm[r.req.to] = r.req.term, NEW k \in DOMAIN r.req.entries
             PROVE  OnDisk(r.req.to, [index |-> r.req.prevLogIndex + k,
                                      entry |-> r.req.entries[k]])
  BY DEF AcknowledgedOnDisk
<1>1. PICK H, C, A : Explained(H, C, A)
  BY DEF LogInv
<1>2. /\ TypeOK /\ Synced /\ Acknowledged(H, A) /\ Sections(H)
      /\ A \in [Node -> [Nat -> Nat]] /\ H \in [Nat -> Logs]
  BY <1>1 DEF LogInv, Inv, StructureInv, Explained, Histories
<1>3. r.req \in AppendEntriesArgs
  BY <1>2 DEF TypeOK, AppendEntriesReply
<1>4. PICK v \in Node : v = r.req.to
  BY <1>3 DEF AppendEntriesArgs
<1>5. PICK t \in Nat : t = r.req.term
  BY <1>3 DEF AppendEntriesArgs
<1>6. PICK prev \in Nat : prev = r.req.prevLogIndex
  BY <1>3 DEF AppendEntriesArgs
<1>7. PICK es \in Logs : es = r.req.entries
  BY <1>3 DEF AppendEntriesArgs, Logs
<1>8. PICK l \in Logs : l = log[v]
  BY <1>2, NodeTypes DEF Logs
<1>9. PICK h \in Logs : h = H[t]
  BY <1>2
<1>10. PICK a \in Nat : a = A[v][t]
  <2>1. A[v] \in [Nat -> Nat]
    BY <1>2
  <2> QED
    BY <2>1
<1>11. SameUpTo(a, l, h) /\ prev + Len(es) <= a /\ Follow(es, prev, h)
  BY <1>2, <1>4, <1>5, <1>6, <1>7, <1>8, <1>9, <1>10
     DEF Acknowledged, Sections, Section
<1>12. Len(es) \in Nat /\ Len(l) \in Nat /\ Len(h) \in Nat
  BY LogFacts
<1>13. k \in 1 .. Len(es)
  <2>1. DOMAIN es = 1 .. Len(es)
    BY LenProperties DEF Logs
  <2> QED
    BY <1>7, <2>1
<1>14. PICK i \in Nat : i = prev + k
  BY SMTT(30), <1>12, <1>13
<1>15. i \in 1 .. a
  BY <1>11, <1>12, <1>13, <1>14
<1>16. i <= Len(l) /\ l[i] = h[i]
  BY SMTT(30), <1>11, <1>12, <1>15 DEF SameUpTo
<1>17. es[k] = h[i]
  BY <1>11, <1>13, <1>14 DEF Follow
<1>18. PICK c : c = [index |-> r.req.prevLogIndex + k, entry |-> r.req.entries[k]]
  OBVIOUS
<1>19. c.index = i /\ c.entry = es[k]
  BY <1>6, <1>7, <1>14, <1>18
<1>20. disk[v].entries = l
  BY <1>2, <1>8 DEF Synced, SyncedAt
<1>21. OnDisk(v, c)
  BY <1>16, <1>17, <1>19, <1>20 DEF OnDisk
<1> QED
  BY <1>4, <1>18, <1>21

(* The quorum that acknowledged a committed entry still has it. *)
LEMMA InvCommittedDurable == LogInv => CommittedDurable
<1> SUFFICES ASSUME LogInv, NEW c \in committed
             PROVE  Cardinality({p \in Node : OnDisk(p, c)}) >= Quorum
  BY DEF CommittedDurable
<1>1. PICK H, C, A : Explained(H, C, A)
  BY DEF LogInv
<1>2. /\ TypeOK /\ Synced /\ Preserved(H, C, A) /\ Commits(H, A)
      /\ A \in [Node -> [Nat -> Nat]] /\ H \in [Nat -> Logs]
  BY <1>1 DEF LogInv, Inv, StructureInv, Explained, Histories
<1>3. c.term \in Nat /\ c.index \in Nat
  BY <1>2 DEF TypeOK
<1>4. PICK t \in Nat : t = c.term
  BY <1>3
<1>5. PICK i \in Nat : i = c.index
  BY <1>3
<1>6. PICK a \in Nat : Anchored(c, a, H, A)
  BY <1>2 DEF Commits
<1>7. Created(t, a, H) /\ i \in 1 .. a /\ H[t][i] = c.entry
  BY <1>4, <1>5, <1>6 DEF Anchored
<1>8. ~ Dead(t, a, A)
  BY <1>2, <1>3, <1>4, <1>6, AnchoredAlive
<1>9. PICK Q \in SUBSET Node : Cardinality(Q) >= Quorum /\ \A p \in Q : A[p][t] >= a
  BY <1>4, <1>6 DEF Anchored
<1>10. ASSUME NEW p \in Q PROVE OnDisk(p, c)
  <2>1. p \in Node
    OBVIOUS
  <2>2. PICK l \in Logs : l = log[p]
    BY <1>2, <2>1, NodeTypes DEF Logs
  <2>3. PICK h \in Logs : h = H[t]
    BY <1>2
  <2>4. Safe(t, a, log[p], H, A)
    BY <1>2, <1>7, <1>9, <2>1 DEF Preserved
  <2>5. SameUpTo(a, l, h)
    BY <1>8, <2>2, <2>3, <2>4 DEF Safe
  <2>6. Len(l) \in Nat /\ Len(h) \in Nat
    BY LogFacts
  <2>7. i <= Len(l) /\ l[i] = h[i]
    BY SMTT(30), <1>7, <2>5, <2>6 DEF SameUpTo
  <2>8. disk[p].entries = l
    BY <1>2, <2>1, <2>2 DEF Synced, SyncedAt
  <2> QED
    BY <1>5, <1>7, <2>3, <2>7, <2>8 DEF OnDisk
<1>11. PICK S \in SUBSET Node : S = {p \in Node : OnDisk(p, c)}
  OBVIOUS
<1>12. Q \subseteq S
  BY <1>10, <1>11
<1>13. IsFiniteSet(S) /\ IsFiniteSet(Node)
  BY FS_Subset, ConstantsAssumption
<1>14. Cardinality(Q) <= Cardinality(S) /\ IsFiniteSet(Q)
  BY <1>12, <1>13, FS_Subset
<1>15. Cardinality(Q) \in Nat /\ Cardinality(S) \in Nat /\ Cardinality(Node) \in Nat
  BY <1>13, <1>14, FS_CardinalityType
<1>16. Cardinality(S) >= Quorum
  BY SMTT(30), <1>9, <1>14, <1>15 DEF Quorum
<1> QED
  BY <1>11, <1>16

(* Every leader holds what was committed in its term or before. *)
LEMMA InvLeaderCompleteness == LogInv => LeaderCompleteness
<1> SUFFICES ASSUME LogInv, NEW n \in Node, role[n] = Leader, NEW c \in committed,
                    c.term <= currentTerm[n]
             PROVE  c.index <= Len(log[n]) /\ log[n][c.index] = c.entry
  BY DEF LeaderCompleteness
<1>1. PICK H, C, A : Explained(H, C, A)
  BY DEF LogInv
<1>2. TypeOK /\ LeadersKnown /\ Owners(H, C)
  BY <1>1 DEF LogInv, Inv, StructureInv, Explained
<1>3. <<n, currentTerm[n]>> \in leaders /\ currentTerm[n] \in Nat
  BY <1>2, NodeTypes DEF LeadersKnown
<1>4. Holds(c, H[currentTerm[n]])
  BY <1>1, <1>2, <1>3, LeadersHold
<1>5. Holds(c, log[n])
  BY <1>2, <1>4 DEF Owners
<1>6. Len(log[n]) \in Nat
  BY <1>2, NodeTypes
<1> QED
  BY <1>5, <1>6 DEF Holds

(* Of two committed entries, the leader of the later term held both. *)
LEMMA InvCommittedAgree ==
  ASSUME NEW H, NEW C, NEW A, Explained(H, C, A), TypeOK, NEW c \in committed,
         NEW d \in committed, c.index = d.index, c.term <= d.term
  PROVE  c.entry = d.entry
<1>1. Commits(H, A) /\ Owners(H, C) /\ H \in [Nat -> Logs]
  BY DEF Explained, Histories
<1>2. d.term \in Nat
  BY DEF TypeOK
<1>3. PICK u \in Nat : u = d.term
  BY <1>2
<1>4. PICK a \in Nat : Anchored(d, a, H, A)
  BY <1>1 DEF Commits
<1>5. a \in 1 .. Len(H[u]) /\ H[u][d.index] = d.entry
  BY <1>3, <1>4 DEF Anchored, Created
<1>6. H[u] # <<>>
  BY <1>5
<1>7. PICK p \in Node : <<p, u>> \in leaders
  BY <1>1, <1>6 DEF Owners
<1>8. Holds(c, H[u])
  BY <1>3, <1>7, LeadersHold
<1> QED
  BY <1>5, <1>8 DEF Holds

(* So no index is committed twice, and what a node knows of agrees.        *)
LEMMA InvStateMachineSafety == LogInv => StateMachineSafety
<1> SUFFICES ASSUME LogInv PROVE StateMachineSafety
  OBVIOUS
<1>1. PICK H, C, A : Explained(H, C, A)
  BY DEF LogInv
<1>2. TypeOK /\ Commits(H, A)
  BY <1>1 DEF LogInv, Inv, StructureInv, Explained
<1>3. ASSUME NEW c \in committed, NEW d \in committed, c.index = d.index
      PROVE  c.entry = d.entry
  <2>1. c.term \in Nat /\ d.term \in Nat
    BY <1>2 DEF TypeOK
  <2>2. c.term <= d.term \/ d.term <= c.term
    BY <2>1
  <2> QED
    BY <1>1, <1>2, <1>3, <2>2, InvCommittedAgree
<1>4. \A n \in Node : Known(commitIndex[n], log[n], currentTerm[n])
  BY <1>2 DEF Commits
<1> QED
  BY <1>3, <1>4 DEF StateMachineSafety, Known

-----------------------------------------------------------------------------
(* Nobody acknowledges anything in a term that its disk has left. *)
LEMMA LeftTerm ==
  ASSUME NEW n \in Node, NEW H, NEW C, NEW A, NEW G, NEW D, NEW B,
         Moves(n, H, C, A, G, D, B), NEW v \in Node, NEW t \in Nat, disk[v].term > t
  PROVE  B[v][t] = A[v][t]
<1>1. SUFFICES ASSUME B[v][t] # A[v][t] PROVE FALSE
  OBVIOUS
<1>2. v = n /\ t = currentTerm'[n]
  BY SMTT(30), <1>1, AcksGrow
<1>3. Moved(n, H, C, A, G, D, B)
  BY MoveSelf
<1>4. Typed(n) /\ AckedTo(n, A, B[n][currentTerm'[n]])
  BY <1>3 DEF Moved
<1>5. up[n]
  BY <1>1, <1>2, <1>4 DEF AckedTo, Grew, Merged
<1> QED
  BY <1>2, <1>4, <1>5 DEF Typed

(* The same as Dead and Safe, of the state a step ends in. *)
Gone(t, a, B) ==
  \E V \in SUBSET Node :
    /\ Cardinality(V) >= Quorum
    /\ \A v \in V : disk'[v].term > t /\ B[v][t] < a
SafeAfter(t, a, l, G, B) == Gone(t, a, B) \/ SameUpTo(a, l, G[t])

(* What cannot be committed any more never can. *)
LEMMA DeadKept ==
  ASSUME NEW n \in Node, NEW H, NEW C, NEW A, NEW G, NEW D, NEW B,
         Moves(n, H, C, A, G, D, B), NEW t \in Nat, NEW a \in Nat, Dead(t, a, A)
  PROVE  Gone(t, a, B)
<1>1. PICK V \in SUBSET Node : /\ Cardinality(V) >= Quorum
                               /\ \A v \in V : disk[v].term > t /\ A[v][t] < a
  BY DEF Dead
<1>2. Moved(n, H, C, A, G, D, B)
  BY MoveSelf
<1>3. ASSUME NEW v \in V PROVE disk'[v].term > t /\ B[v][t] < a
  <2>1. v \in Node /\ disk[v].term > t /\ A[v][t] < a
    BY <1>1
  <2>2. Typed(v)
    BY <1>2, <2>1 DEF Moved
  <2>3. B[v][t] = A[v][t]
    BY SMTT(30), <2>1, LeftTerm
  <2>4. disk'[v].term > t
    BY <2>1, <2>2 DEF Typed
  <2> QED
    BY <2>1, <2>3, <2>4
<1> QED
  BY <1>1, <1>3 DEF Gone

(* What is safe stays safe. *)
LEMMA SafeKept ==
  ASSUME NEW n \in Node, NEW H, NEW C, NEW A, NEW G, NEW D, NEW B,
         Moves(n, H, C, A, G, D, B), NEW t \in Nat, NEW a \in Nat, NEW l \in Logs,
         Safe(t, a, l, H, A)
  PROVE  SafeAfter(t, a, l, G, B)
<1>1. CASE Dead(t, a, A)
  BY <1>1, DeadKept DEF SafeAfter
<1>2. CASE SameUpTo(a, l, H[t])
  <2>1. Moved(n, H, C, A, G, D, B)
    BY MoveSelf
  <2>2. PICK h \in Logs : h = H[t]
    BY <2>1, HistoryTypes
  <2>3. PICK g \in Logs : g = G[t]
    BY <2>1, HistoryTypes
  <2>4. SameUpTo(Len(h), g, h)
    BY <2>2, <2>3, HistoryGrows DEF Extends
  <2>5. SameUpTo(a, l, h)
    BY <1>2, <2>2
  <2>6. Len(l) \in Nat /\ Len(h) \in Nat /\ Len(g) \in Nat
    BY LogFacts
  <2>7. SameUpTo(a, l, g)
    BY SMTT(30), <2>4, <2>5, <2>6 DEF SameUpTo
  <2> QED
    BY <2>3, <2>7 DEF SafeAfter
<1> QED
  BY <1>1, <1>2 DEF Safe

(* It stays safe in a longer log too. *)
LEMMA SafeLonger ==
  ASSUME NEW n \in Node, NEW H, NEW C, NEW A, NEW G, NEW D, NEW B,
         Moved(n, H, C, A, G, D, B), NEW t \in Nat, NEW a \in Nat, NEW l \in Logs,
         NEW k \in Logs, SameUpTo(Len(l), k, l), SafeAfter(t, a, l, G, B)
  PROVE  SafeAfter(t, a, k, G, B)
<1>1. CASE Gone(t, a, B)
  BY <1>1 DEF SafeAfter
<1>2. CASE SameUpTo(a, l, G[t])
  <2>1. PICK g \in Logs : g = G[t]
    BY HistoryTypes
  <2>2. SameUpTo(a, l, g)
    BY <1>2, <2>1
  <2>3. Len(l) \in Nat /\ Len(k) \in Nat /\ Len(g) \in Nat
    BY LogFacts
  <2>4. SameUpTo(a, k, g)
    BY SMTT(30), <2>2, <2>3 DEF SameUpTo
  <2> QED
    BY <2>1, <2>4 DEF SafeAfter
<1> QED
  BY <1>1, <1>2 DEF SafeAfter

(* The step adds the entry at index a of the log of term t. *)
Added(n, t, a, H) == Grew(n) /\ t = currentTerm'[n] /\ a > Len(H[t])

(* Its leader leads still. *)
LEMMA NewEntryLeads ==
  ASSUME NEW n \in Node, NEW H, NEW C, NEW A, NEW G, NEW D, NEW B,
         Moves(n, H, C, A, G, D, B), NEW t \in Nat, NEW a \in Nat, Added(n, t, a, H)
  PROVE  disk'[n].term <= t
<1>1. Moved(n, H, C, A, G, D, B)
  BY MoveSelf
<1> QED
  BY <1>1 DEF Moved, Typed, Added, Grew, Leader, Follower

(* Nobody else holds it. *)
LEMMA NewEntryOwn ==
  ASSUME NEW n \in Node, NEW H, NEW C, NEW A, NEW G, NEW D, NEW B,
         Moves(n, H, C, A, G, D, B), NEW t \in Nat, NEW a \in Nat,
         Added(n, t, a, H), NEW v \in Node, v # n
  PROVE  B[v][t] < a
<1>1. Moved(n, H, C, A, G, D, B) /\ Acknowledged(H, A)
  BY MoveSelf DEF Moves, Explained
<1>2. Stayed(v, C, A, D, B)
  BY MoveOthers
<1>3. B[v][t] = A[v][t] /\ A[v][t] <= Len(H[t])
  BY <1>1, <1>2 DEF Stayed, Acknowledged
<1>4. A[v][t] \in Nat /\ Len(H[t]) \in Nat
  BY <1>1, HistoryTypes
<1> QED
  BY SMTT(30), <1>3, <1>4 DEF Added

(* Who acknowledged an entry that may have been committed has it still. *)
LEMMA PreservedInLogs ==
  ASSUME NEW n \in Node, NEW H, NEW C, NEW A, NEW G, NEW D, NEW B,
         Moves(n, H, C, A, G, D, B), NEW t \in Nat, NEW a \in Nat, Created(t, a, G),
         NEW v \in Node, B[v][t] >= a
  PROVE  SafeAfter(t, a, log'[v], G, B)
<1>1. /\ Moved(n, H, C, A, G, D, B) /\ Preserved(H, C, A) /\ NodeStep(n)
      /\ TypeOK /\ TypeOK' /\ Synced /\ AppendsFromLeaders
  BY MoveSelf DEF Moves, Explained, Inv, StructureInv
<1>2. Typed(v) /\ Typed(n) /\ B[v][t] \in Nat /\ A[v][t] \in Nat
  <2>1. Typed(v) /\ Typed(n)
    BY <1>1 DEF Moved
  <2>2. B[v][t] \in Nat /\ A[v][t] \in Nat
    BY <1>1, HistoryTypes
  <2> QED
    BY <2>1, <2>2
<1>3. a >= 1
  <2>1. Len(G[t]) \in Nat
    BY <1>1, HistoryTypes
  <2> QED
    BY <2>1 DEF Created
<1>4. CASE t = currentTerm'[v]
  <2>1. SameUpTo(B[v][t], log'[v], G[t])
    BY <1>4, AcksHeld
  <2>2. SameUpTo(a, log'[v], G[t])
    BY SMTT(30), <1>2, <2>1 DEF SameUpTo
  <2> QED
    BY <2>2 DEF SafeAfter
<1>5. CASE t > currentTerm'[v]
  <2>1. B[v][t] = 0
    BY SMTT(30), <1>5, AcksHeld
  <2> QED
    BY <1>2, <1>3, <2>1
<1>6. CASE t < currentTerm'[v]
  <2>1. t # currentTerm'[v]
    BY <1>2, <1>6 DEF Typed
  <2>2. Created(t, a, H)
    <3>1. SUFFICES ASSUME Added(n, t, a, H) PROVE FALSE
      BY HistoryGrows DEF Added
    <3>2. v # n
      BY <2>1, <3>1 DEF Added
    <3>3. B[v][t] < a
      BY SMTT(30), <3>1, <3>2, NewEntryOwn
    <3> QED
      BY <1>2, <3>3
  <2>3. B[v][t] = A[v][t]
    <3>1. B[v][t] = A[v][t] \/ (v = n /\ t = currentTerm'[n])
      BY SMTT(30), AcksGrow
    <3> QED
      BY <2>1, <3>1
  <2>4. Safe(t, a, log[v], H, A)
    BY <1>1, <2>2, <2>3 DEF Preserved
  <2>5. SafeAfter(t, a, log[v], G, B)
    BY <1>2, <2>4, SafeKept DEF Typed
  <2>6. CASE log'[v] = log[v]
    BY <2>5, <2>6
  <2>7. CASE v = n /\ Grew(n)
    <3>1. SameUpTo(Len(log[n]), log'[n], log[n])
      BY <1>2, <2>7, OneMoreStarts DEF Grew, Typed
    <3> QED
      BY <1>1, <1>2, <2>5, <2>7, <3>1, SafeLonger DEF Typed
  <2>8. ASSUME NEW m \in appendReqs, v = n, Merged(n, m)
        PROVE  SafeAfter(t, a, log'[v], G, B)
    <3>1. /\ G = H /\ m.term \in Nat /\ H[m.term] \in Logs
          /\ \A i \in Nat : SameUpTo(i, log[n], H[m.term]) =>
                              SameUpTo(i, log'[n], H[m.term])
      BY <2>8, MergeLeaves
    <3>2. m.term > t
      BY <1>2, <1>6, <2>8 DEF Merged, Typed
    <3>3. Safe(t, a, H[m.term], H, A)
      <4>1. <<m.from, m.term>> \in leaders
        BY <1>1 DEF AppendsFromLeaders, AppendFrom
      <4>2. PICK x \in leaders : x[2] = m.term
        BY <4>1
      <4> QED
        BY <1>1, <2>2, <3>2, <4>2 DEF Preserved
    <3>4. CASE Dead(t, a, A)
      BY <3>4, DeadKept DEF SafeAfter
    <3>5. CASE ~ Dead(t, a, A)
      <4>1. SameUpTo(a, log[n], H[t]) /\ SameUpTo(a, H[m.term], H[t])
        BY <2>4, <2>8, <3>3, <3>5 DEF Safe
      <4>2. H[t] \in Logs /\ log[n] \in Logs /\ log'[n] \in Logs
        BY <1>1, <1>2, HistoryTypes DEF Typed
      <4>3. SameUpTo(a, H[t], H[m.term])
        BY <3>1, <4>1, <4>2, SameUpToRules
      <4>4. SameUpTo(a, log[n], H[m.term])
        BY <3>1, <4>1, <4>2, <4>3, SameUpToRules
      <4>5. SameUpTo(a, log'[n], H[m.term])
        BY <3>1, <4>4
      <4>6. SameUpTo(a, log'[n], H[t])
        BY <3>1, <4>1, <4>2, <4>5, SameUpToRules
      <4> QED
        BY <2>8, <3>1, <4>6 DEF SafeAfter
    <3> QED
      BY <3>4, <3>5
  <2>9. v # n => Stayed(v, C, A, D, B)
    BY MoveOthers
  <2>10. LogStep(n)
    BY <1>1, SelfLog
  <2> QED
    BY <2>6, <2>7, <2>8, <2>9, <2>10 DEF LogStep, Kept, Stayed
<1>7. t < currentTerm'[v] \/ t = currentTerm'[v] \/ t > currentTerm'[v]
  BY <1>2 DEF Typed
<1> QED
  BY <1>4, <1>5, <1>6, <1>7

=============================================================================
