--------------------------- MODULE RaftLogProofs ----------------------------
(***************************************************************************)
(* Theorems about what Raft replicates and commits, for clusters of any    *)
(* size, any set of elections and any bounds.  Every step keeps Preserved, *)
(* in ballots and for leaders too: an entry that may have been committed   *)
(* is never lost by those who come after.  With RaftLogSteps and           *)
(* RaftLogCommits, LogInv is inductive.                                    *)
(***************************************************************************)
EXTENDS RaftLogCommits

USE ZenonT(30), SMTT(30)

(* Who votes in a later term than an entry it acknowledged votes for a     *)
(* candidate that has the entry, if the entry may have been committed.     *)
LEMMA NewVoteSafe ==
  ASSUME NEW n \in Node, NEW H, NEW C, NEW A, NEW G, NEW D, NEW B,
         Moves(n, H, C, A, G, D, B), NEW t \in Nat, NEW a \in Nat, Created(t, a, H),
         A[n][t] >= a, NEW m \in voteReqs, Granted(n, m)
  PROVE  SafeAfter(t, a, D[m.from][m.term], G, B)
<1>1. /\ Moved(n, H, C, A, G, D, B) /\ Preserved(H, C, A) /\ TypeOK
      /\ LogsGrounded(H, C) /\ Owners(H, C) /\ CallsOnce
  BY MoveSelf DEF Moves, Explained, Inv, StructureInv, ElectionInv
<1>2. m.from \in Node /\ m.term \in Nat /\ m.term <= disk[m.from].term
  BY <1>1 DEF TypeOK, RequestVoteArgs, CallsOnce
<1>3. PICK c \in Logs : c = C[m.from][m.term]
  BY <1>1, <1>2, HistoryTypes
<1>4. D[m.from][m.term] = c
  <2>1. D[m.from][m.term] = C[m.from][m.term]
    BY SMTT(30), <1>2, CampaignsKept
  <2> QED
    BY <1>3, <2>1
<1>5. m.lastLogIndex = Len(c) /\ m.lastLogTerm = LastTerm(c)
  BY <1>1, <1>3 DEF Owners
<1>6. PICK l \in Logs : l = log[n]
  BY <1>1 DEF Moved, Typed
<1>7. PICK s \in Nat : s = currentTerm[n]
  BY <1>1 DEF Moved, Typed
<1>8. IsUpToDate(l, LastTerm(c), Len(c))
  BY <1>5, <1>6 DEF Granted
<1>9. Safe(t, a, l, H, A)
  BY <1>1, <1>6 DEF Preserved
<1>10. SUFFICES ASSUME ~ Dead(t, a, A) PROVE SafeAfter(t, a, c, G, B)
  <2>1. Dead(t, a, A) => SafeAfter(t, a, c, G, B)
    BY DeadKept DEF SafeAfter
  <2> QED
    BY <1>4, <2>1
<1>11. SameUpTo(a, l, H[t])
  BY <1>9, <1>10 DEF Safe
<1>12. Grounded(l, H, s) /\ Grounded(c, H, m.term) /\ \A i \in Nat : Grounded(H[i], H, i)
  BY <1>1, <1>2, <1>3, <1>6, <1>7 DEF LogsGrounded
<1>13. H \in [Nat -> Logs]
  BY <1>1 DEF Moved
<1>14. PICK w \in Nat : /\ Len(H[w]) > 0
                        /\ w > t \/ SameUpTo(a, c, H[t])
                        /\ w > t /\ SameUpTo(a, H[w], H[t]) => SameUpTo(a, c, H[t])
  BY <1>2, <1>8, <1>11, <1>12, <1>13, UpToDateHolds
<1>15. SameUpTo(a, c, H[t])
  <2>1. SUFFICES ASSUME w > t PROVE SameUpTo(a, c, H[t])
    BY <1>14
  <2>2. H[w] # <<>>
    BY <1>14
  <2>3. PICK p \in Node : <<p, w>> \in leaders
    BY <1>1, <2>2 DEF Owners
  <2>4. PICK x \in leaders : x[2] = w
    BY <2>3
  <2>5. Safe(t, a, H[w], H, A)
    BY <1>1, <2>1, <2>4 DEF Preserved
  <2>6. SameUpTo(a, H[w], H[t])
    BY <1>10, <2>5 DEF Safe
  <2> QED
    BY <1>14, <2>1, <2>6
<1>16. Safe(t, a, c, H, A)
  BY <1>15 DEF Safe
<1> QED
  BY <1>16, SafeKept

(* So does every voter, before and after. *)
LEMMA PreservedInBallots ==
  ASSUME NEW n \in Node, NEW H, NEW C, NEW A, NEW G, NEW D, NEW B,
         Moves(n, H, C, A, G, D, B), NEW t \in Nat, NEW a \in Nat, Created(t, a, G),
         NEW b \in ballots', b[2] > t, B[b[1]][t] >= a
  PROVE  SafeAfter(t, a, D[b[3]][b[2]], G, B)
<1>1. /\ Moved(n, H, C, A, G, D, B) /\ Preserved(H, C, A) /\ NodeStep(n)
      /\ TypeOK /\ TypeOK' /\ Synced /\ Owners(H, C) /\ BallotsKept /\ BallotsKept'
  BY MoveSelf DEF Moves, Explained, Inv, StructureInv, ElectionInv
<1>2. b[1] \in Node /\ b[2] \in Nat /\ b[3] \in Node
  BY <1>1 DEF TypeOK
<1>3. PICK v \in Node : v = b[1]
  BY <1>2
<1>4. PICK u \in Nat : u = b[2]
  BY <1>2
<1>5. PICK c \in Node : c = b[3]
  BY <1>2
<1>6. /\ u > t /\ B[v][t] >= a /\ u <= disk'[v].term
      /\ SafeAfter(t, a, D[c][u], G, B) => SafeAfter(t, a, D[b[3]][b[2]], G, B)
  BY <1>1, <1>3, <1>4, <1>5 DEF BallotsKept
<1>7. Typed(v) /\ Typed(n) /\ B[v][t] \in Nat /\ A[v][t] \in Nat
  <2>1. Typed(v) /\ Typed(n)
    BY <1>1 DEF Moved
  <2>2. B[v][t] \in Nat /\ A[v][t] \in Nat
    BY <1>1, HistoryTypes
  <2> QED
    BY <2>1, <2>2
<1>8. Created(t, a, H)
  <2>1. SUFFICES ASSUME Added(n, t, a, H) PROVE FALSE
    BY HistoryGrows DEF Added
  <2>2. CASE v = n
    <3>1. disk'[n].term <= t
      BY <2>1, NewEntryLeads
    <3> QED
      BY SMTT(30), <1>6, <1>7, <2>2, <3>1 DEF Typed
  <2>3. CASE v # n
    <3>1. B[v][t] < a
      BY SMTT(30), <2>1, <2>3, NewEntryOwn
    <3> QED
      BY SMTT(30), <1>6, <1>7, <3>1
  <2> QED
    BY <2>2, <2>3
<1>9. CASE b \in ballots
  <2>1. u <= disk[v].term /\ u <= disk[c].term
    BY <1>1, <1>3, <1>4, <1>5, <1>9 DEF BallotsKept, Owners
  <2>2. B[v][t] = A[v][t]
    <3>1. disk[v].term > t
      BY <1>6, <1>7, <2>1 DEF Typed
    <3> QED
      BY SMTT(30), <3>1, LeftTerm
  <2>3. D[c][u] = C[c][u] /\ C[c][u] \in Logs
    <3>1. D[c][u] = C[c][u]
      BY SMTT(30), <2>1, CampaignsKept
    <3> QED
      BY <1>1, <3>1, HistoryTypes
  <2>4. b[2] > t /\ A[b[1]][t] >= a
    BY <1>3, <2>2
  <2>5. Safe(t, a, C[b[3]][b[2]], H, A)
    BY <1>1, <1>8, <1>9, <2>4 DEF Preserved
  <2>6. Safe(t, a, C[c][u], H, A)
    BY <1>4, <1>5, <2>5
  <2>7. SafeAfter(t, a, C[c][u], G, B)
    BY <2>3, <2>6, SafeKept
  <2> QED
    BY <1>6, <2>3, <2>7
<1>10. CASE b \notin ballots
  <2>1. ballots' # ballots
    BY <1>10
  <2>2. \A m \in appendReqs : ~ Merged(n, m)
    BY <2>1 DEF Merged
  <2>3. BallotStep(n)
    BY <1>1, SelfBallot
  <2>4. CASE SelfVoted(n)
    <3>1. b = <<n, disk'[n].term, n>>
      BY <1>10, <2>4 DEF SelfVoted
    <3>2. v = n /\ u = disk'[n].term /\ c = n
      BY <1>3, <1>4, <1>5, <3>1
    <3>3. D[c][u] = log[n]
      BY <1>1, <2>4, <3>2 DEF Moved
    <3>4. A[n][t] >= a
      <4>1. CASE Grew(n)
        <5>1. t # currentTerm'[n]
          BY SMTT(30), <1>6, <1>7, <3>2, <4>1 DEF Typed, Grew, Leader, Follower
        <5>2. B[n][t] = A[n][t]
          BY <1>1, <5>1 DEF Moved
        <5> QED
          BY <1>6, <3>2, <5>2
      <4>2. CASE ~ Grew(n)
        <5>1. B[n][currentTerm'[n]] = A[n][currentTerm'[n]]
          BY <1>1, <2>2, <4>2 DEF Moved, AckedTo
        <5>2. B[n][t] = A[n][t]
          BY <1>1, <5>1 DEF Moved
        <5> QED
          BY <1>6, <3>2, <5>2
      <4> QED
        BY <4>1, <4>2
    <3>5. Safe(t, a, log[n], H, A)
      BY <1>1, <1>8, <3>4 DEF Preserved
    <3>6. SafeAfter(t, a, log[n], G, B)
      BY <1>7, <3>5, SafeKept DEF Typed
    <3> QED
      BY <1>6, <3>3, <3>6
  <2>5. ASSUME NEW m \in voteReqs, Granted(n, m) PROVE SafeAfter(t, a, D[c][u], G, B)
    <3>1. b = <<n, m.term, m.from>>
      BY <1>10, <2>5 DEF Granted
    <3>2. v = n /\ u = m.term /\ c = m.from
      BY <1>3, <1>4, <1>5, <3>1
    <3>3. ~ Grew(n)
      BY SMTT(30), <1>7, <2>5 DEF Granted, Grew, OneMore, Typed
    <3>4. B[n][currentTerm'[n]] = A[n][currentTerm'[n]]
      BY <1>1, <2>2, <3>3 DEF Moved, AckedTo
    <3>5. B[n][t] = A[n][t]
      BY <1>1, <3>4 DEF Moved
    <3>6. A[n][t] >= a
      BY <1>6, <3>2, <3>5
    <3>7. SafeAfter(t, a, D[m.from][m.term], G, B)
      BY <1>8, <2>5, <3>6, NewVoteSafe
    <3> QED
      BY <3>2, <3>7
  <2> QED
    BY <1>6, <2>1, <2>3, <2>4, <2>5 DEF BallotStep
<1> QED
  BY <1>9, <1>10

(* A new leader starts from the log it campaigned with. *)
LEMMA WinnersLog ==
  ASSUME NEW n \in Node, NEW H, NEW C, NEW A, NEW G, NEW D, NEW B,
         Moves(n, H, C, A, G, D, B), Won(n)
  PROVE  /\ D[n][currentTerm'[n]] = log[n]
         /\ SameUpTo(Len(log[n]), G[currentTerm'[n]], log[n])
<1>1. /\ Moved(n, H, C, A, G, D, B) /\ NodeStep(n) /\ Owners(H, C)
      /\ TypeOK /\ TypeOK' /\ Synced
  BY MoveSelf DEF Moves, Explained, Inv, StructureInv
<1>2. Typed(n)
  BY <1>1 DEF Moved
<1>3. role'[n] # Follower /\ role[n] # Leader /\ role'[n] = Leader
  BY DEF Won, Leader, Follower
<1>4. Grew(n)
  BY <1>3, LeadersOwn
<1>5. SameUpTo(Len(log[n]), G[currentTerm'[n]], log[n])
  <2>1. SameUpTo(Len(log[n]), log'[n], log[n])
    BY <1>2, <1>4, OneMoreStarts DEF Grew, Typed
  <2> QED
    BY <1>1, <1>4, <2>1 DEF Moved
<1>6. CASE SelfVoted(n)
  <2>1. currentTerm'[n] = disk'[n].term
    BY <1>2, <1>3 DEF Typed
  <2> QED
    BY <1>1, <1>5, <1>6, <2>1 DEF Moved
<1>7. CASE ~ SelfVoted(n)
  <2>1. currentTerm'[n] = currentTerm[n] /\ currentTerm[n] \in Nat
    BY <1>1, <1>2, <1>3, <1>7, SelfBallot DEF BallotStep, Typed
  <2>2. currentTerm'[n] # currentTerm[n] + 1
    BY <2>1
  <2>3. role[n] = Candidate
    BY <2>2 DEF Won
  <2>4. D = C
    BY <1>1, <1>7 DEF Moved
  <2> QED
    BY <1>1, <1>5, <2>1, <2>3, <2>4 DEF Owners
<1> QED
  BY <1>6, <1>7

(* A quorum that voted for a later leader has left the term. *)
LEMMA ElectedBy ==
  ASSUME Inv', NEW x \in leaders', x[2] \in Nat, x[1] \in Node
  PROVE  \E S \in SUBSET Node :
           /\ Cardinality(S) >= Quorum
           /\ \A v \in S : <<v, x[2], x[1]>> \in ballots' /\ x[2] <= disk'[v].term
<1>1. CountsTrue' /\ BallotsKept'
  BY DEF Inv, ElectionInv
<1>2. PICK S \in SUBSET Node : Cardinality(S) >= Quorum /\ VotedFor(S, x[1], x[2])'
  BY <1>1 DEF CountsTrue, HasQuorum
<1>3. ASSUME NEW v \in S PROVE <<v, x[2], x[1]>> \in ballots' /\ x[2] <= disk'[v].term
  <2>1. <<v, x[2], x[1]>> \in ballots'
    BY <1>2 DEF VotedFor
  <2>2. PICK b \in ballots' : b[1] = v /\ b[2] = x[2]
    BY <2>1
  <2> QED
    BY <1>1, <2>1, <2>2 DEF BallotsKept
<1> QED
  BY <1>2, <1>3

(* Every later leader has what may have been committed. *)
LEMMA PreservedInLeaders ==
  ASSUME NEW n \in Node, NEW H, NEW C, NEW A, NEW G, NEW D, NEW B,
         Moves(n, H, C, A, G, D, B), NEW t \in Nat, NEW a \in Nat, Created(t, a, G),
         NEW x \in leaders', x[2] > t
  PROVE  SafeAfter(t, a, G[x[2]], G, B)
<1>1. /\ Moved(n, H, C, A, G, D, B) /\ Preserved(H, C, A) /\ NodeStep(n)
      /\ TypeOK /\ TypeOK' /\ Synced /\ Inv'
  BY MoveSelf DEF Moves, Explained, Inv, StructureInv
<1>2. x[1] \in Node /\ x[2] \in Nat
  BY <1>1 DEF TypeOK
<1>3. PICK u \in Nat : u = x[2]
  BY <1>2
<1>4. PICK S \in SUBSET Node :
        /\ Cardinality(S) >= Quorum
        /\ \A v \in S : <<v, x[2], x[1]>> \in ballots' /\ x[2] <= disk'[v].term
  BY <1>1, <1>2, ElectedBy
<1>5. \A v \in S : v \in Node /\ disk'[v].term > t
  <2> SUFFICES ASSUME NEW v \in S PROVE v \in Node /\ disk'[v].term > t
    OBVIOUS
  <2>1. v \in Node /\ u <= disk'[v].term /\ u > t
    BY <1>3, <1>4
  <2>2. Typed(v)
    BY <1>1, <2>1 DEF Moved
  <2>3. disk'[v].term > t
    BY SMTT(30), <2>1, <2>2 DEF Typed
  <2> QED
    BY <2>1, <2>3
<1>6. CASE Added(n, t, a, H)
  <2>1. ASSUME NEW v \in S PROVE B[v][t] < a
    <3>1. disk'[n].term <= t
      BY <1>6, NewEntryLeads
    <3>2. Typed(n)
      BY <1>1 DEF Moved
    <3>3. v \in Node /\ v # n
      BY <1>5, <3>1, <3>2 DEF Typed
    <3> QED
      BY SMTT(30), <1>6, <3>3, NewEntryOwn
  <2> QED
    BY <1>4, <1>5, <2>1 DEF SafeAfter, Gone
<1>7. CASE Created(t, a, H) /\ x \in leaders
  <2>1. Safe(t, a, H[u], H, A)
    BY <1>1, <1>3, <1>7 DEF Preserved
  <2>2. H[u] \in Logs /\ G[u] \in Logs
    BY <1>1, HistoryTypes
  <2>3. SafeAfter(t, a, H[u], G, B)
    BY <2>1, <2>2, SafeKept
  <2>4. SameUpTo(Len(H[u]), G[u], H[u])
    BY HistoryGrows DEF Extends
  <2>5. SafeAfter(t, a, G[u], G, B)
    BY <1>1, <2>2, <2>3, <2>4, SafeLonger
  <2> QED
    BY <1>3, <2>5
<1>8. CASE x \notin leaders
  <2>1. Won(n)
    BY <1>1, <1>8, SelfRole DEF RoleStep, WentOn, FellBack, Ran
  <2>2. x = <<n, currentTerm'[n]>>
    BY <1>8, <2>1 DEF Won
  <2>3. x[1] = n /\ u = currentTerm'[n]
    BY <1>3, <2>2
  <2>4. CASE \A v \in S : B[v][t] < a
    BY <1>4, <1>5, <2>4 DEF SafeAfter, Gone
  <2>5. ASSUME NEW v \in S, ~ (B[v][t] < a) PROVE SafeAfter(t, a, G[u], G, B)
    <3>1. v \in Node /\ <<v, u, n>> \in ballots'
      BY <1>3, <1>4, <2>3
    <3>2. B[v][t] \in Nat
      BY <1>1, <3>1, HistoryTypes
    <3>3. B[v][t] >= a
      BY <2>5, <3>2
    <3>4. PICK b \in ballots' : b[1] = v /\ b[2] = u /\ b[3] = n
      BY <3>1
    <3>5. b[2] > t /\ B[b[1]][t] >= a
      BY <1>3, <3>3, <3>4
    <3>6. SafeAfter(t, a, D[b[3]][b[2]], G, B)
      BY <3>5, PreservedInBallots
    <3>7. D[n][currentTerm'[n]] = log[n]
      BY SMTT(30), <2>1, WinnersLog
    <3>8. SafeAfter(t, a, log[n], G, B)
      BY <2>3, <3>4, <3>6, <3>7
    <3>9. SameUpTo(Len(log[n]), G[u], log[n])
      BY <2>1, <2>3, WinnersLog
    <3>10. G[u] \in Logs /\ log[n] \in Logs
      BY <1>1, HistoryTypes DEF Moved, Typed
    <3> QED
      BY <1>1, <3>8, <3>9, <3>10, SafeLonger
  <2> QED
    BY <1>3, <2>4, <2>5
<1>9. Created(t, a, H) \/ Added(n, t, a, H)
  BY HistoryGrows DEF Added
<1> QED
  BY <1>6, <1>7, <1>8, <1>9

(* What may have been committed is preserved. *)
LEMMA PreservedStep ==
  ASSUME NEW n \in Node, NEW H, NEW C, NEW A, NEW G, NEW D, NEW B,
         Moves(n, H, C, A, G, D, B)
  PROVE  Preserved(G, D, B)'
<1>1. ASSUME NEW t \in Nat, NEW a \in Nat, Created(t, a, G)
      PROVE  /\ \A x \in leaders' : x[2] > t => SafeAfter(t, a, G[x[2]], G, B)
             /\ \A v \in Node : B[v][t] >= a => SafeAfter(t, a, log'[v], G, B)
             /\ \A b \in ballots' : b[2] > t /\ B[b[1]][t] >= a =>
                  SafeAfter(t, a, D[b[3]][b[2]], G, B)
  BY <1>1, PreservedInLeaders, PreservedInLogs, PreservedInBallots
<1> QED
  BY <1>1 DEF Preserved, Created, Safe, Dead, SafeAfter, Gone

-----------------------------------------------------------------------------
(* Every step of a node has successors of the histories. *)
LEMMA SuccessorsExist ==
  ASSUME NEW n \in Node, NodeStep(n), Inv, Inv', NEW H, NEW C, NEW A,
         Explained(H, C, A)
  PROVE  \E G, D, B : Moves(n, H, C, A, G, D, B)
<1>1. TypeOK /\ TypeOK' /\ Synced /\ Sections(H)
  BY DEF Inv, StructureInv, Explained
<1>2. /\ H \in [Nat -> Logs] /\ C \in [Node -> [Nat -> Logs]]
      /\ A \in [Node -> [Nat -> Nat]]
  BY DEF Explained, Histories
<1>3. Typed(n)
  BY StepTyped
<1>4. C[n] \in [Nat -> Logs] /\ A[n] \in [Nat -> Nat]
  BY <1>2
<1>5. PICK u \in Nat : u = currentTerm'[n]
  BY <1>3 DEF Typed
<1>6. PICK w \in Nat : w = disk'[n].term
  BY <1>3 DEF Typed
<1>7. PICK a \in Nat : a = A[n][u]
  BY <1>4
<1>8. \E x \in Nat : AckedTo(n, A, x)
  <2>1. CASE Grew(n)
    BY <1>3, <2>1 DEF AckedTo, Typed
  <2>2. ASSUME NEW m \in appendReqs, Merged(n, m) PROVE \E x \in Nat : AckedTo(n, A, x)
    <3>1. m.prevLogIndex \in Nat /\ m.entries \in Logs
      BY <1>1 DEF TypeOK, AppendEntriesArgs, Logs
    <3>2. Len(m.entries) \in Nat
      BY <3>1, LogFacts
    <3>3. PICK e \in Nat : e = m.prevLogIndex + Len(m.entries)
      BY SMTT(30), <3>1, <3>2
    <3>4. Max({a, e}) = IF a >= e THEN a ELSE e
      BY PairExtrema
    <3>5. Max({a, e}) \in Nat
      BY <3>4
    <3> QED
      BY <1>5, <1>7, <2>2, <3>3, <3>5 DEF AckedTo
  <2>3. CASE ~ Grew(n) /\ \A m \in appendReqs : ~ Merged(n, m)
    <3>1. Kept(n)
      BY <1>1, <2>3, SelfLog DEF LogStep
    <3> QED
      BY <1>5, <1>7, <2>3, <3>1 DEF AckedTo
  <2> QED
    BY <2>1, <2>2, <2>3
<1>9. PICK x \in Nat : AckedTo(n, A, x)
  BY <1>8
<1>10. PICK G : G = IF Grew(n) THEN [H EXCEPT ![currentTerm'[n]] = log'[n]] ELSE H
  OBVIOUS
<1>11. PICK D : D = IF SelfVoted(n)
                    THEN [C EXCEPT ![n] = [C[n] EXCEPT ![disk'[n].term] = log[n]]] ELSE C
  OBVIOUS
<1>12. PICK B : B = [A EXCEPT ![n] = [A[n] EXCEPT ![currentTerm'[n]] = x]]
  OBVIOUS
<1>13. Successors(n, H, C, A, G, D, B)
  BY <1>9, <1>10, <1>11, <1>12 DEF Successors
<1>14. G \in [Nat -> Logs]
  BY <1>2, <1>3, <1>10 DEF Typed
<1>15. D \in [Node -> [Nat -> Logs]]
  <2>1. [C[n] EXCEPT ![disk'[n].term] = log[n]] \in [Nat -> Logs]
    BY <1>3, <1>4 DEF Typed
  <2>2. [C EXCEPT ![n] = [C[n] EXCEPT ![disk'[n].term] = log[n]]] \in [Node -> [Nat -> Logs]]
    BY <1>2, <2>1
  <2> QED
    BY <1>2, <1>11, <2>2
<1>16. B \in [Node -> [Nat -> Nat]]
  <2>1. [A[n] EXCEPT ![currentTerm'[n]] = x] \in [Nat -> Nat]
    BY <1>4
  <2> QED
    BY <1>2, <1>12, <2>1
<1> QED
  BY <1>13, <1>14, <1>15, <1>16 DEF Moves, Histories

(* A step of a node keeps LogInv. *)
LEMMA NodeStepLog ==
  ASSUME LogInv, Inv', NEW n \in Node, NodeStep(n)
  PROVE  LogInv'
<1>1. PICK H, C, A : Explained(H, C, A)
  BY DEF LogInv
<1>2. Inv
  BY DEF LogInv
<1>3. PICK G, D, B : Moves(n, H, C, A, G, D, B)
  BY <1>1, <1>2, SuccessorsExist
<1>4. /\ LogsGrounded(G, D)' /\ Owners(G, D)' /\ Sections(G)' /\ Acknowledged(G, B)'
      /\ Preserved(G, D, B)' /\ Commits(G, B)'
  BY <1>3, GroundedStep, OwnersStep, SectionsStep, AcknowledgedStep,
     PreservedStep, CommitsStep
<1>5. Histories(G, D, B)
  BY <1>3 DEF Moves
<1>6. Explained(G, D, B)'
  BY <1>4, <1>5 DEF Explained, Histories
<1> QED
  BY <1>6 DEF LogInv

(* A message that is lost changes nothing LogInv is about. *)
LEMMA LostStepLog ==
  ASSUME LogInv, Inv', AppendLost \/ UNCHANGED vars
  PROVE  LogInv'
<1>1. PICK H, C, A : Explained(H, C, A)
  BY DEF LogInv
<1>2. /\ log' = log /\ currentTerm' = currentTerm /\ role' = role /\ disk' = disk
      /\ commitIndex' = commitIndex /\ matchIndex' = matchIndex /\ voteReqs' = voteReqs
      /\ ballots' = ballots /\ leaders' = leaders /\ committed' = committed
  BY DEF AppendLost, vars, saved, volatile, progress, voteNet, history
<1>3. appendReqs' \subseteq appendReqs /\ appendReps' \subseteq appendReps
  BY DEF AppendLost, vars, appendNet
<1>4. Histories(H, C, A)'
  BY <1>1 DEF Explained, Histories
<1>5. LogsGrounded(H, C)' /\ Owners(H, C)'
  BY <1>1, <1>2 DEF Explained, LogsGrounded, Owners
<1>6. Sections(H)'
  BY <1>1, <1>3 DEF Explained, Sections
<1>7. Acknowledged(H, A)'
  BY <1>1, <1>2, <1>3 DEF Explained, Acknowledged
<1>8. Preserved(H, C, A)'
  BY <1>1, <1>2 DEF Explained, Preserved, Safe, Dead
<1>9. Commits(H, A)'
  <2>1. Commits(H, A)
    BY <1>1 DEF Explained
  <2>2. \A k, l, t : Known(k, l, t) => KnownAfter(k, l, t)
    BY <1>2 DEF Known, KnownAfter
  <2>3. \A c \in committed' : \E a \in Nat : Anchored(c, a, H, A)
    BY <1>2, <2>1 DEF Commits
  <2>4. \A p \in Node : KnownAfter(commitIndex'[p], log'[p], currentTerm'[p])
    BY <1>2, <2>1, <2>2 DEF Commits
  <2>5. \A m \in appendReqs' : KnownAfter(m.leaderCommit, H[m.term], m.term)
    BY <1>3, <2>1, <2>2 DEF Commits
  <2> QED
    BY <2>3, <2>4, <2>5 DEF Commits, Anchored, Created, Known, KnownAfter
<1>10. Explained(H, C, A)'
  BY <1>4, <1>5, <1>6, <1>7, <1>8, <1>9 DEF Explained
<1> QED
  BY <1>10 DEF LogInv

(* LogInv is inductive. *)
LEMMA LogStepInv == LogInv /\ [Next]_vars => LogInv'
<1> SUFFICES ASSUME LogInv, [Next]_vars PROVE LogInv'
  OBVIOUS
<1>1. Inv'
  BY InvStep DEF LogInv
<1> QED
  BY <1>1, NodeStepLog, LostStepLog DEF Next

(* LogInv holds initially, of empty histories. *)
LEMMA LogInit == Init => LogInv
<1> SUFFICES ASSUME Init PROVE LogInv
  OBVIOUS
<1>1. PICK H : H = [t \in Nat |-> <<>>]
  OBVIOUS
<1>2. PICK C : C = [n \in Node |-> [t \in Nat |-> <<>>]]
  OBVIOUS
<1>3. PICK A : A = [n \in Node |-> [t \in Nat |-> 0]]
  OBVIOUS
<1>4. /\ \A t \in Nat : H[t] = <<>> /\ \A n \in Node : C[n][t] = <<>> /\ A[n][t] = 0
      /\ Len(<<>>) = 0 /\ <<>> \in Logs
  <2>1. \A t \in Nat : H[t] = <<>>
    BY <1>1
  <2>2. \A t \in Nat, n \in Node : C[n][t] = <<>> /\ A[n][t] = 0
    BY <1>2, <1>3
  <2>3. Len(<<>>) = 0 /\ <<>> \in Logs
    BY DEF Logs
  <2> QED
    BY <2>1, <2>2, <2>3
<1>5. /\ \A n \in Node : /\ log[n] = <<>> /\ currentTerm[n] = 0 /\ role[n] = Follower
                         /\ commitIndex[n] = 0
      /\ appendReqs = {} /\ appendReps = {} /\ voteReqs = {}
      /\ ballots = {} /\ leaders = {} /\ committed = {}
  BY DEF Init
<1>6. Histories(H, C, A)
  <2>1. H \in [Nat -> Logs]
    BY <1>1, <1>4
  <2>2. [t \in Nat |-> <<>>] \in [Nat -> Logs] /\ [t \in Nat |-> 0] \in [Nat -> Nat]
    BY <1>4
  <2>3. C \in [Node -> [Nat -> Logs]] /\ A \in [Node -> [Nat -> Nat]]
    BY <1>2, <1>3, <2>2
  <2> QED
    BY <2>1, <2>3 DEF Histories
<1>7. LogsGrounded(H, C)
  <2>1. \A t \in Nat : Grounded(<<>>, H, t)
    BY <1>4 DEF Grounded
  <2>2. 0 \in Nat
    OBVIOUS
  <2> QED
    BY <1>4, <1>5, <2>1, <2>2 DEF LogsGrounded
<1>8. Owners(H, C)
  <2>1. Follower # Leader /\ Follower # Candidate
    BY DEF Follower, Leader, Candidate
  <2> QED
    BY <1>4, <1>5, <2>1 DEF Owners
<1>9. Sections(H)
  BY <1>5 DEF Sections
<1>10. Acknowledged(H, A)
  <2>1. SameUpTo(0, <<>>, <<>>) /\ 0 <= 0 /\ 0 \in Nat /\ Follower # Leader
    BY <1>4 DEF SameUpTo, Follower, Leader
  <2>2. \A v \in Node, t \in Nat : A[v][t] <= Len(H[t]) /\ A[v][t] = 0
    BY <1>4, <2>1
  <2>3. \A v \in Node : SameUpTo(A[v][currentTerm[v]], log[v], H[currentTerm[v]])
    BY <1>4, <1>5, <2>1
  <2> QED
    BY <1>5, <2>1, <2>2, <2>3 DEF Acknowledged
<1>11. \A t \in Nat, a \in Nat : ~ Created(t, a, H)
  BY <1>4 DEF Created
<1>12. Preserved(H, C, A)
  BY <1>11 DEF Preserved
<1>13. Commits(H, A)
  <2>1. \A n \in Node : Known(commitIndex[n], log[n], currentTerm[n])
    BY <1>4, <1>5 DEF Known
  <2> QED
    BY <1>5, <2>1 DEF Commits
<1>14. Explained(H, C, A)
  BY <1>6, <1>7, <1>8, <1>9, <1>10, <1>12, <1>13 DEF Explained
<1> QED
  BY <1>14, InvInit DEF LogInv

-----------------------------------------------------------------------------
(* What CommittedPrefixKept asks of a step for the node p. *)
KeptLen(p) ==
  IF role[p] = Leader /\ role'[p] = Leader THEN Len(log[p]) ELSE commitIndex[p]
PrefixKept(p) ==
  /\ KeptLen(p) <= Len(log'[p])
  /\ SubSeq(log'[p], 1, KeptLen(p)) = SubSeq(log[p], 1, KeptLen(p))

(* A log that starts as it did has the prefix it had. *)
LEMMA SamePrefix ==
  ASSUME NEW p \in Node, log[p] \in Logs, log'[p] \in Logs, NEW k \in Nat,
         k = KeptLen(p), SameUpTo(k, log'[p], log[p])
  PROVE  PrefixKept(p)
<1>1. PICK l \in Logs : l = log[p]
  OBVIOUS
<1>2. PICK g \in Logs : g = log'[p]
  OBVIOUS
<1>3. SameUpTo(k, g, l)
  BY <1>1, <1>2
<1>4. SubSeq(g, 1, k) = SubSeq(l, 1, k)
  BY <1>3, SameStart
<1>5. k <= Len(g)
  BY <1>3 DEF SameUpTo
<1> QED
  BY <1>1, <1>2, <1>4, <1>5 DEF PrefixKept

(* A log that only got longer starts as it did, up to the commit index or  *)
(* up to its end.                                                          *)
LEMMA LongerPrefix ==
  ASSUME LogInv, NEW p \in Node, log'[p] \in Logs,
         SameUpTo(Len(log[p]), log'[p], log[p])
  PROVE  PrefixKept(p)
<1>1. PICK H, C, A : Explained(H, C, A)
  BY DEF LogInv
<1>2. TypeOK /\ Commits(H, A)
  BY <1>1 DEF LogInv, Inv, StructureInv, Explained
<1>3. log[p] \in Logs /\ Len(log[p]) \in Nat /\ commitIndex[p] \in Nat
  BY <1>2, NodeTypes DEF Logs
<1>4. commitIndex[p] <= Len(log[p])
  BY <1>2 DEF Commits, Known
<1>5. Len(log'[p]) \in Nat
  BY LogFacts
<1>6. SameUpTo(commitIndex[p], log'[p], log[p])
  BY SMTT(30), <1>3, <1>4, <1>5 DEF SameUpTo
<1>7. CASE role[p] = Leader /\ role'[p] = Leader
  <2>1. Len(log[p]) = KeptLen(p)
    BY <1>7 DEF KeptLen
  <2> QED
    BY <1>3, <2>1, SamePrefix
<1>8. CASE ~ (role[p] = Leader /\ role'[p] = Leader)
  <2>1. commitIndex[p] = KeptLen(p)
    BY <1>8 DEF KeptLen
  <2> QED
    BY <1>3, <1>6, <2>1, SamePrefix
<1> QED
  BY <1>7, <1>8

(* A merge replaces nothing at or below the commit index. *)
LEMMA MergePrefix ==
  ASSUME LogInv, Inv', NEW n \in Node, NodeStep(n), NEW m \in appendReqs, Merged(n, m)
  PROVE  PrefixKept(n)
<1>1. PICK H, C, A : Explained(H, C, A)
  BY DEF LogInv
<1>2. Inv /\ TypeOK /\ TypeOK'
  BY DEF LogInv, Inv, StructureInv
<1>3. PICK G, D, B : Moves(n, H, C, A, G, D, B)
  BY <1>1, <1>2, SuccessorsExist
<1>4. CommitStep(n)
  BY DEF CommitStep
<1>5. SameUpTo(commitIndex[n], log'[n], log[n])
  BY <1>3, <1>4, KnownMerged
<1>6. commitIndex[n] = KeptLen(n)
  BY DEF Merged, KeptLen, Leader, Follower
<1>7. Typed(n) /\ commitIndex[n] \in Nat
  BY <1>2, StepTyped, NodeTypes
<1> QED
  BY <1>5, <1>6, <1>7, SamePrefix DEF Typed

(* A step of n that merges nothing only makes its log longer. *)
LEMMA OwnPrefix ==
  ASSUME LogInv, Inv', NEW n \in Node, NodeStep(n)
  PROVE  PrefixKept(n)
<1>1. PICK H, C, A : Explained(H, C, A)
  BY DEF LogInv
<1>2. Inv /\ TypeOK /\ TypeOK' /\ Synced
  BY DEF LogInv, Inv, StructureInv
<1>3. LogStep(n)
  BY <1>2, SelfLog
<1>4. CASE Kept(n) \/ Grew(n)
  <2>1. PICK G, D, B : Moves(n, H, C, A, G, D, B)
    BY <1>1, <1>2, SuccessorsExist
  <2>2. SameUpTo(Len(log[n]), log'[n], log[n])
    BY <1>4, <2>1, LogStarts
  <2>3. Typed(n)
    BY <1>2, StepTyped
  <2> QED
    BY <2>2, <2>3, LongerPrefix DEF Typed
<1>5. ASSUME NEW m \in appendReqs, Merged(n, m) PROVE PrefixKept(n)
  BY <1>5, MergePrefix
<1> QED
  BY <1>3, <1>4, <1>5 DEF LogStep

(* A log that no step touched has its prefix. *)
LEMMA SamePrefixUntouched ==
  ASSUME LogInv, NEW p \in Node, log'[p] = log[p]
  PROVE  PrefixKept(p)
<1>1. log[p] \in Logs /\ Len(log[p]) \in Nat
  BY NodeTypes DEF Logs, LogInv, Inv, StructureInv
<1>2. SameUpTo(Len(log[p]), log[p], log[p])
  BY <1>1 DEF SameUpTo
<1> QED
  BY <1>1, <1>2, LongerPrefix

-----------------------------------------------------------------------------
(* Two disks that agree on the term of an entry agree on everything up to  *)
(* it, in every state: crashes, restarts, lost and repeated AppendEntries  *)
(* calls included.                                                         *)
THEOREM LogsMatch == Spec => []LogMatching
BY LogInit, LogStepInv, InvLogMatching, PTL DEF Spec

(* What advanceCommitIndex counts for a peer is on the peer's disk.        *)
THEOREM CountedIsOnDisk == Spec => []MatchIndexTrue
BY LogInit, LogStepInv, InvMatchIndexTrue, PTL DEF Spec

(* What a node acknowledged to the leader of its term is on its disk.      *)
THEOREM AcknowledgedIsKept == Spec => []AcknowledgedOnDisk
BY LogInit, LogStepInv, InvAcknowledgedOnDisk, PTL DEF Spec

(* A committed entry stays on the disks of a quorum for ever.              *)
THEOREM CommittedIsDurable == Spec => []CommittedDurable
BY LogInit, LogStepInv, InvCommittedDurable, PTL DEF Spec

(* Whoever leads has every entry committed in its term or before.          *)
THEOREM LeadersAreComplete == Spec => []LeaderCompleteness
BY LogInit, LogStepInv, InvLeaderCompleteness, PTL DEF Spec

(* No index is committed with two entries, and a node's log up to its      *)
(* commit index is what was committed: the nodes that apply it agree.      *)
THEOREM StateMachinesAgree == Spec => []StateMachineSafety
BY LogInit, LogStepInv, InvStateMachineSafety, PTL DEF Spec

(* No step of any node rewrites what the node knows to be committed, and   *)
(* no leader that goes on leading rewrites any of its log.                 *)
THEOREM CommittedPrefixIsKept == Spec => CommittedPrefixKept
<1>1. LogInv /\ [Next]_vars => [\A p \in Node : PrefixKept(p)]_vars
  <2> SUFFICES ASSUME LogInv, Next, NEW p \in Node PROVE PrefixKept(p)
    OBVIOUS
  <2>1. Inv' /\ TypeOK
    BY InvStep DEF LogInv, Inv, StructureInv
  <2>2. ASSUME NEW n \in Node, NodeStep(n) PROVE PrefixKept(p)
    <3>1. CASE p = n
      BY <2>1, <2>2, <3>1, OwnPrefix
    <3>2. CASE p # n
      <4>1. log'[p] = log[p]
        BY <2>1, <2>2, <3>2, OthersUntouched DEF Untouched
      <4> QED
        BY <4>1, SamePrefixUntouched
    <3> QED
      BY <3>1, <3>2
  <2>3. CASE AppendLost
    <3>1. log'[p] = log[p]
      BY <2>3 DEF AppendLost, saved
    <3> QED
      BY <3>1, SamePrefixUntouched
  <2> QED
    BY <2>2, <2>3 DEF Next
<1>2. [\A p \in Node : PrefixKept(p)]_vars <=>
        [\A n \in Node :
           LET keep == IF role[n] = Leader /\ role'[n] = Leader
                       THEN Len(log[n]) ELSE commitIndex[n]
           IN  /\ keep <= Len(log'[n])
               /\ SubSeq(log'[n], 1, keep) = SubSeq(log[n], 1, keep)]_vars
  BY DEF PrefixKept, KeptLen
<1> QED
  BY <1>1, <1>2, LogInit, LogStepInv, PTL DEF Spec, CommittedPrefixKept

(* What a leader has recorded of a peer never falls while it leads, for    *)
(* any repeated, delayed or reordered answers, and the entry it sends next *)
(* falls only by the one that a refusal of its own term named.             *)
THEOREM ProgressIsKept == Spec => ProgressKept
<1>1. TypeOK /\ [Next]_vars
      => [\A n \in Node : LeadsOn(n) => \A p \in Peers(n) : Advances(n, p)]_vars
  <2> SUFFICES ASSUME TypeOK, Next, NEW n \in Node, LeadsOn(n), NEW p \in Peers(n)
               PROVE  Advances(n, p)
    OBVIOUS
  <2>1. matchIndex[n][p] \in Nat /\ nextIndex[n][p] \in Nat
    BY SMTT(30) DEF TypeOK, Peers
  <2>2. ASSUME nextIndex'[n] = nextIndex[n], matchIndex'[n] = matchIndex[n]
        PROVE  Advances(n, p)
    BY SMTT(30), <2>1, <2>2 DEF Advances
  <2>3. CASE AppendLost
    BY <2>2, <2>3 DEF AppendLost, progress
  <2>4. ASSUME NEW q \in Node, NodeStep(q), q # n PROVE Advances(n, p)
    BY <2>2, <2>4, OthersUntouched DEF Untouched
  <2>5. CASE NodeStep(n)
    BY <2>5, SelfAdvances
  <2> QED
    BY <2>3, <2>4, <2>5 DEF Next
<1>2. Spec => [][\A n \in Node : LeadsOn(n) => \A p \in Peers(n) : Advances(n, p)]_vars
  BY <1>1, TypeCorrect, PTL DEF Spec
<1> QED
  BY <1>2 DEF ProgressKept, Advances

-----------------------------------------------------------------------------
(* Raft implements ReplicatedLog. *)

(* What a step of n commits follows what was committed, and n knows of all *)
(* of it then.                                                             *)
LEMMA CommitMoves ==
  ASSUME TypeOK, TypeOK', NEW n \in Node, NodeStep(n), NEW k \in Nat,
         {c.index : c \in committed} = 1 .. k, commitIndex[n] <= k
  PROVE  /\ committed \subseteq committed'
         /\ \E j \in Nat : /\ {c.index : c \in committed'} = 1 .. j
                           /\ j = k \/ (j > k /\ j = commitIndex'[n])
<1>1. CommitStep(n)
  BY SelfCommit
<1>2. committed \subseteq committed'
  BY <1>1, CommittedGrows
<1>3. commitIndex[n] \in Nat /\ commitIndex'[n] \in Nat
  BY NodeTypes DEF TypeOK
<1>4. CASE committed' = committed
  BY <1>4
<1>5. CASE AdvanceCommitIndex(n)
  <2>1. commitIndex'[n] >= commitIndex[n]
    BY <1>5, AdvanceGrows
  <2>2. {c.index : c \in committed'} = 1 .. k \cup (commitIndex[n] + 1 .. commitIndex'[n])
    <3>1. \A c \in committed' : c.index \in 1 .. k \cup (commitIndex[n] + 1 .. commitIndex'[n])
      BY SMTT(30), <1>5 DEF AdvanceCommitIndex
    <3>2. ASSUME NEW i \in commitIndex[n] + 1 .. commitIndex'[n]
          PROVE  \E c \in committed' : c.index = i
      <4>1. PICK c : c = [index |-> i, entry |-> log'[n][i], term |-> currentTerm'[n]]
        OBVIOUS
      <4>2. c \in committed'
        BY <1>5, <3>2, <4>1 DEF AdvanceCommitIndex
      <4> QED
        BY <4>1, <4>2
    <3>3. \A i \in 1 .. k : \E c \in committed' : c.index = i
      BY <1>2
    <3> QED
      BY <3>1, <3>2, <3>3
  <2>3. CASE commitIndex'[n] <= k
    <3>1. 1 .. k \cup (commitIndex[n] + 1 .. commitIndex'[n]) = 1 .. k
      BY SMTT(30), <1>3, <2>3
    <3> QED
      BY <1>2, <2>1, <2>2, <3>1
  <2>4. CASE commitIndex'[n] > k
    <3>1. 1 .. k \cup (commitIndex[n] + 1 .. commitIndex'[n]) = 1 .. commitIndex'[n]
      BY SMTT(30), <1>3, <2>4
    <3> QED
      BY <1>2, <1>3, <2>1, <2>2, <2>4, <3>1
  <2> QED
    BY SMTT(30), <1>3, <2>3, <2>4
<1> QED
  BY <1>1, <1>2, <1>4, <1>5 DEF CommitStep, Merged

(* Chosen is the log of what was committed, and what a node has learnt is  *)
(* a prefix of it.                                                         *)
ChosenUpTo(k) ==
  /\ Chosen \in Logs /\ Len(Chosen) = k
  /\ \A c \in committed : Chosen[c.index] = c.entry
  /\ \A n \in Node :
       commitIndex[n] <= k /\ Learnt[n] = SubSeq(Chosen, 1, commitIndex[n])
ChosenKnown == \A k \in Nat : {c.index : c \in committed} = 1 .. k => ChosenUpTo(k)
LEMMA ChosenIs == TypeOK /\ StateMachineSafety => ChosenKnown
<1> SUFFICES ASSUME TypeOK, StateMachineSafety, NEW k \in Nat,
                    {c.index : c \in committed} = 1 .. k
             PROVE  ChosenUpTo(k)
  BY DEF ChosenKnown
<1>1. OneEach(committed, k)
  BY DEF OneEach, TypeOK, StateMachineSafety
<1>3. ASSUME NEW n \in Node
      PROVE  commitIndex[n] <= k /\ Learnt[n] = SubSeq(Chosen, 1, commitIndex[n])
  <2>1. StartsIn(commitIndex[n], log[n], committed)
    BY DEF StartsIn, StateMachineSafety
  <2>2. log[n] \in Logs /\ commitIndex[n] \in Nat
    BY NodeTypes DEF Logs
  <2>3. /\ commitIndex[n] <= k
        /\ SubSeq(log[n], 1, commitIndex[n]) = SubSeq(InOrder(committed), 1, commitIndex[n])
    BY <1>1, <2>1, <2>2, LearntInOrder
  <2> QED
    BY <2>3 DEF Learnt, Chosen
<1>2. /\ InOrder(committed) \in Logs /\ Len(InOrder(committed)) = k
      /\ \A c \in committed : InOrder(committed)[c.index] = c.entry
  BY <1>1, InOrderIs
<1> QED
  BY <1>2, <1>3 DEF Chosen, ChosenUpTo

(* A step of a node is a step of ReplicatedLog, or none. *)
LEMMA NodeStepsLog ==
  ASSUME TypeOK, TypeOK', StateMachineSafety, StateMachineSafety', Gapless,
         NEW n \in Node, NodeStep(n)
  PROVE  Gapless' /\ [Abstract!Next]_(Abstract!logVars)
<1>1. PICK k \in Nat : {c.index : c \in committed} = 1 .. k
  BY DEF Gapless
<1>2. ChosenUpTo(k)
  BY <1>1, ChosenIs DEF ChosenKnown
<1>3. /\ committed \subseteq committed'
      /\ \E j \in Nat : /\ {c.index : c \in committed'} = 1 .. j
                        /\ j = k \/ (j > k /\ j = commitIndex'[n])
  BY <1>1, <1>2, CommitMoves DEF ChosenUpTo
<1>4. PICK j \in Nat : /\ {c.index : c \in committed'} = 1 .. j
                       /\ j = k \/ (j > k /\ j = commitIndex'[n])
  BY <1>3
<1>5. ChosenUpTo(j)'
  <2>1. (TypeOK /\ StateMachineSafety)' => ChosenKnown'
    BY ChosenIs, PTL
  <2> QED
    BY <1>4, <2>1 DEF ChosenKnown
<1>6. Gapless'
  BY <1>4 DEF Gapless
<1>7. SameUpTo(k, Chosen', Chosen)
  <2>1. k <= j
    BY <1>4
  <2>2. ASSUME NEW i \in 1 .. k PROVE Chosen'[i] = Chosen[i]
    <3>1. PICK c \in committed : c.index = i
      BY <1>1
    <3> QED
      BY <1>2, <1>3, <1>5, <3>1 DEF ChosenUpTo
  <2> QED
    BY SMTT(30), <1>2, <1>5, <2>1, <2>2 DEF ChosenUpTo, SameUpTo
<1>8. /\ SubSeq(Chosen', 1, k) = Chosen
      /\ SubSeq(Chosen', 1, j) = Chosen' /\ SubSeq(Chosen', 1, 0) = <<>>
  <2>1. Chosen \in Logs /\ Chosen' \in Logs /\ Len(Chosen) = k /\ Len(Chosen') = j
    BY <1>2, <1>5 DEF ChosenUpTo
  <2>2. SubSeq(Chosen', 1, k) = SubSeq(Chosen, 1, k)
    BY <1>7, <2>1, SameStart
  <2> QED
    BY <2>1, <2>2, PrefixEnds
<1>9. Learnt' = [Learnt EXCEPT ![n] = SubSeq(Chosen', 1, commitIndex'[n])]
  <2>1. \A p \in Node \ {n} : log'[p] = log[p] /\ commitIndex'[p] = commitIndex[p]
    BY OthersUntouched, SelfCommit DEF Untouched
  <2>2. Learnt'[n] = SubSeq(Chosen', 1, commitIndex'[n])
    BY <1>5 DEF ChosenUpTo
  <2>3. \A p \in Node \ {n} : Learnt'[p] = Learnt[p]
    BY <2>1 DEF Learnt
  <2>4. DOMAIN Learnt = Node /\ DOMAIN Learnt' = Node /\ Learnt' = [p \in Node |-> Learnt'[p]]
    BY DEF Learnt
  <2> QED
    BY <2>2, <2>3, <2>4
<1>10. /\ commitIndex[n] \in Nat /\ commitIndex'[n] \in Nat /\ commitIndex'[n] <= j
       /\ Learnt[n] = SubSeq(Chosen, 1, commitIndex[n])
       /\ Chosen' \in Seq(Entry) /\ Len(Chosen) = k /\ Len(Chosen') = j
  BY <1>2, <1>5, NodeTypes DEF TypeOK, ChosenUpTo, Logs
<1>11. Stops(n) \/ Starts(n) \/ RunsOn(n)
  BY SelfRuns
<1>12. CASE j # k
  <2>1. j > k /\ j = commitIndex'[n]
    BY <1>4, <1>12
  <2>2. committed' # committed
    BY SMTT(30), <1>1, <1>4, <1>12
  <2>3. up[n] /\ up' = up
    BY <1>11, <2>2 DEF Stops, Starts, RunsOn
  <2>4. Abstract!Commit(n)
    BY <1>8, <1>9, <1>10, <2>1, <2>3 DEF Abstract!Commit
  <2> QED
    BY <1>6, <2>4 DEF Abstract!Next
<1>13. CASE j = k
  <2>1. Chosen' = Chosen
    BY <1>8, <1>13
  <2>2. ASSUME commitIndex'[n] = commitIndex[n] PROVE Learnt' = Learnt
    BY <1>9, <1>10, <2>1, <2>2 DEF Learnt
  <2>3. CASE Stops(n)
    <3>1. Abstract!Stop(n)
      BY <1>8, <1>9, <2>1, <2>3 DEF Stops, Abstract!Stop
    <3> QED
      BY <1>6, <3>1 DEF Abstract!Next
  <2>4. CASE Starts(n)
    <3>1. Abstract!Start(n)
      BY <2>1, <2>2, <2>4 DEF Starts, Abstract!Start
    <3> QED
      BY <1>6, <3>1 DEF Abstract!Next
  <2>5. CASE RunsOn(n) /\ commitIndex'[n] = commitIndex[n]
    BY <1>6, <2>1, <2>2, <2>5 DEF RunsOn, Abstract!logVars
  <2>6. CASE RunsOn(n) /\ commitIndex'[n] > commitIndex[n]
    <3>1. Len(Learnt[n]) = commitIndex[n]
      <4>1. Chosen \in Logs /\ commitIndex[n] <= Len(Chosen)
        BY <1>2 DEF ChosenUpTo
      <4> QED
        BY <1>10, <4>1, PrefixLength
    <3>2. commitIndex'[n] \in Len(Learnt[n]) + 1 .. Len(Chosen)
      BY SMTT(30), <1>10, <1>13, <2>6, <3>1
    <3>3. Abstract!Learn(n)
      BY <1>9, <2>1, <2>6, <3>2 DEF RunsOn, Abstract!Learn
    <3> QED
      BY <1>6, <3>3 DEF Abstract!Next
  <2>7. RunsOn(n) => commitIndex'[n] = commitIndex[n] \/ commitIndex'[n] > commitIndex[n]
    BY SMTT(30), <1>10 DEF RunsOn
  <2> QED
    BY <1>11, <2>3, <2>4, <2>5, <2>6, <2>7
<1> QED
  BY <1>12, <1>13

(* The cluster implements ReplicatedLog: for clusters of any size, with    *)
(* any elections, crashes and lost or repeated calls, there is one         *)
(* committed sequence, it only grows at its end, and every node learns a   *)
(* prefix of it, which it forgets only when its process stops.             *)
THEOREM RaftImplementsLog == Spec => ImplementsLog
<1>1. Init => Gapless /\ Abstract!Init
  <2> SUFFICES ASSUME Init PROVE Gapless /\ Abstract!Init
    OBVIOUS
  <2>1. /\ committed = {} /\ log = [n \in Node |-> <<>>]
        /\ commitIndex = [n \in Node |-> 0] /\ up = [n \in Node |-> TRUE]
    BY DEF Init
  <2>2. Gapless
    <3>1. {c.index : c \in committed} = 1 .. 0 /\ 0 \in Nat
      BY SMTT(30), <2>1
    <3> QED
      BY <3>1 DEF Gapless
  <2>3. Chosen = <<>>
    BY SMTT(30), <2>1 DEF Chosen, InOrder
  <2>4. <<>> \in Logs
    BY DEF Logs
  <2>5. SubSeq(<<>>, 1, 0) = <<>>
    BY <2>4, PrefixEnds
  <2>6. Learnt = [n \in Node |-> <<>>]
    BY <2>1, <2>5 DEF Learnt
  <2> QED
    BY <2>1, <2>2, <2>3, <2>6 DEF Abstract!Init
<1>2. LogInv => TypeOK /\ StateMachineSafety
  BY InvStateMachineSafety DEF LogInv, Inv, StructureInv
<1>3. /\ TypeOK /\ StateMachineSafety /\ (TypeOK /\ StateMachineSafety)'
      /\ Gapless /\ [Next]_vars
      => Gapless' /\ [Abstract!Next]_(Abstract!logVars)
  <2> SUFFICES ASSUME TypeOK, StateMachineSafety, TypeOK', StateMachineSafety',
                      Gapless, [Next]_vars
               PROVE  Gapless' /\ [Abstract!Next]_(Abstract!logVars)
    OBVIOUS
  <2>1. CASE AppendLost \/ UNCHANGED vars
    <3>1. UNCHANGED <<committed, log, commitIndex, up>>
      BY <2>1 DEF AppendLost, vars, saved, volatile, history
    <3> QED
      BY <3>1 DEF Gapless, Chosen, Learnt, Abstract!logVars
  <2>2. ASSUME NEW n \in Node, NodeStep(n)
        PROVE  Gapless' /\ [Abstract!Next]_(Abstract!logVars)
    BY <2>2, NodeStepsLog
  <2> QED
    BY <2>1, <2>2 DEF Next
<1> QED
  BY <1>1, <1>2, <1>3, LogInit, LogStepInv, PTL DEF Spec, ImplementsLog, Abstract!Spec

=============================================================================
