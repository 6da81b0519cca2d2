----------------------------- MODULE RaftProofs -----------------------------
(***************************************************************************)
(* Theorems about the terms, votes and leaders of Raft, for clusters of    *)
(* any size, any set of elections and any bounds: every step keeps         *)
(* StructureInv (memory and disk agree, leaders are on record, requests    *)
(* and progress stay within the leader's log), and ElectionInv (votes      *)
(* saved, in flight and counted hang together).  Where saves may fail,     *)
(* memory and disk need not agree, and PanicInv is what every step keeps.  *)
(***************************************************************************)
EXTENDS RaftLemmas, RaftPanic

USE ZenonT(30), SMTT(30)

(* The state of node p, but for its commit index, is left alone. *)
Untouched(p) ==
  /\ currentTerm'[p] = currentTerm[p] /\ votedFor'[p] = votedFor[p]
  /\ log'[p] = log[p] /\ disk'[p] = disk[p] /\ up'[p] = up[p]
  /\ role'[p] = role[p] /\ leaderID'[p] = leaderID[p]
  /\ nextIndex'[p] = nextIndex[p] /\ matchIndex'[p] = matchIndex[p]
  /\ votes'[p] = votes[p]

(* A step of one node leaves every other node untouched. *)
LEMMA OthersUntouched ==
  ASSUME TypeOK, NEW n \in Node, NodeStep(n), NEW p \in Node, p # n
  PROVE  Untouched(p)
<1> USE DEF TypeOK, Untouched, Persist, BecomeLeader, AdvanceCommitIndex,
            saved, volatile, progress
<1>1. CASE ElectionTimeout(n)
  BY <1>1 DEF ElectionTimeout
<1>2. ASSUME NEW m \in voteReqs, HandleRequestVote(n, m) PROVE Untouched(p)
  BY <1>2 DEF HandleRequestVote
<1>3. ASSUME NEW r \in voteReps, RequestVoteReplied(n, r) PROVE Untouched(p)
  <2>1. CASE BecomeLeader(n)
    BY SMTT(30), <1>3, <2>1 DEF RequestVoteReplied
  <2>2. CASE UNCHANGED <<log, disk, volatile, progress, leaders, committed>>
    BY <1>3, <2>2 DEF RequestVoteReplied
  <2> QED
    BY <1>3, <2>1, <2>2 DEF RequestVoteReplied
<1>4. ASSUME NEW r \in voteReps \cup appendReps, ReplyWithNewerTerm(n, r)
      PROVE  Untouched(p)
  BY <1>4 DEF ReplyWithNewerTerm
<1>5. ASSUME NEW c \in Command, Propose(n, c) PROVE Untouched(p)
  BY <1>5 DEF Propose
<1>6. ASSUME NEW q \in Peers(n), ReplicateTo(n, q) PROVE Untouched(p)
  BY <1>6 DEF ReplicateTo
<1>7. ASSUME NEW m \in appendReqs, HandleAppendEntries(n, m) PROVE Untouched(p)
  BY <1>7 DEF HandleAppendEntries
<1>8. ASSUME NEW r \in appendReps, AppendSucceeded(n, r) PROVE Untouched(p)
  BY <1>8 DEF AppendSucceeded
<1>9. ASSUME NEW r \in appendReps, AppendRefused(n, r) PROVE Untouched(p)
  BY <1>9 DEF AppendRefused
<1>10. CASE Crash(n)
  BY <1>10 DEF Crash, LoseMemory
<1>11. CASE CrashBetweenSaves(n)
  BY <1>11 DEF CrashBetweenSaves, LoseMemory
<1>12. CASE Restart(n)
  BY <1>12 DEF Restart
<1> HIDE DEF TypeOK, Untouched, Persist, BecomeLeader, AdvanceCommitIndex,
             saved, volatile, progress
<1> QED
  BY <1>1, <1>2, <1>3, <1>4, <1>5, <1>6, <1>7, <1>8, <1>9, <1>10, <1>11, <1>12
     DEF NodeStep

(* Memory and disk of the acting node agree again when its step ends, and  *)
(* the term on its disk has not decreased.                                 *)
LEMMA SelfSynced ==
  ASSUME TypeOK, Synced, NEW n \in Node, NodeStep(n)
  PROVE  SyncedAt(n)' /\ disk'[n].term >= disk[n].term
<1> DEFINE Goal == SyncedAt(n)' /\ disk'[n].term >= disk[n].term
<1>1. /\ SyncedAt(n)
      /\ currentTerm[n] \in Nat /\ disk[n].term \in Nat
      /\ DOMAIN disk = Node /\ DOMAIN currentTerm = Node
      /\ DOMAIN votedFor = Node /\ DOMAIN log = Node /\ DOMAIN up = Node
  BY NodeTypes DEF Synced, TypeOK
<1> USE DEF SyncedAt, Persist, BecomeLeader, saved
<1>2. CASE ElectionTimeout(n)
  BY SMTT(30), <1>1, <1>2 DEF ElectionTimeout
<1>3. ASSUME NEW m \in voteReqs, HandleRequestVote(n, m) PROVE Goal
  <2>1. m.term \in Nat
    BY DEF TypeOK, RequestVoteArgs
  <2>2. TermAfter(n, m.term) = IF m.term > currentTerm[n] THEN m.term ELSE currentTerm[n]
    BY <2>1, AfterTypes
  <2> QED
    BY SMTT(30), <1>1, <1>3, <2>1, <2>2 DEF HandleRequestVote, VoteAfter
<1>4. ASSUME NEW r \in voteReps, RequestVoteReplied(n, r) PROVE Goal
  BY SMTT(30), <1>1, <1>4 DEF RequestVoteReplied
<1>5. ASSUME NEW r \in voteReps \cup appendReps, ReplyWithNewerTerm(n, r) PROVE Goal
  <2>1. r.term \in Nat
    BY DEF TypeOK, RequestVoteReply, AppendEntriesReply
  <2> QED
    BY SMTT(30), <1>1, <1>5, <2>1 DEF ReplyWithNewerTerm
<1>6. ASSUME NEW c \in Command, Propose(n, c) PROVE Goal
  BY <1>1, <1>6 DEF Propose
<1>7. ASSUME NEW q \in Peers(n), ReplicateTo(n, q) PROVE Goal
  BY <1>1, <1>7 DEF ReplicateTo
<1>8. ASSUME NEW m \in appendReqs, HandleAppendEntries(n, m) PROVE Goal
  <2>1. m.term \in Nat
    BY DEF TypeOK, AppendEntriesArgs
  <2>2. TermAfter(n, m.term) = IF m.term > currentTerm[n] THEN m.term ELSE currentTerm[n]
    BY <2>1, AfterTypes
  <2> QED
    BY SMTT(30), <1>1, <1>8, <2>1, <2>2 DEF HandleAppendEntries, VoteAfter
<1>9. ASSUME NEW r \in appendReps, AppendSucceeded(n, r) PROVE Goal
  BY <1>1, <1>9 DEF AppendSucceeded
<1>10. ASSUME NEW r \in appendReps, AppendRefused(n, r) PROVE Goal
  BY <1>1, <1>10 DEF AppendRefused
<1>11. CASE Crash(n)
  BY <1>1, <1>11 DEF Crash, LoseMemory
<1>12. CASE CrashBetweenSaves(n)
  <2>1. \A m \in voteReqs \cup appendReqs : m.term \in Nat
    BY DEF TypeOK, RequestVoteArgs, AppendEntriesArgs
  <2> QED
    BY SMTT(30), <1>1, <1>12, <2>1 DEF CrashBetweenSaves, LoseMemory
<1>13. CASE Restart(n)
  BY <1>1, <1>13 DEF Restart
<1> HIDE DEF SyncedAt, Persist, BecomeLeader, saved
<1> QED
  BY <1>2, <1>3, <1>4, <1>5, <1>6, <1>7, <1>8, <1>9, <1>10, <1>11, <1>12, <1>13
     DEF NodeStep

(* What a running node's disk remembers stays behind its memory, also when *)
(* an earlier save has failed, and the term on disk does not decrease.     *)
LEMMA SelfSaved ==
  ASSUME TypeOK, Saved, NEW n \in Node, NodeStep(n)
  PROVE  SavedAt(n)' /\ disk'[n].term >= disk[n].term
<1> DEFINE Goal == SavedAt(n)' /\ disk'[n].term >= disk[n].term
<1>1. /\ SavedAt(n)
      /\ currentTerm[n] \in Nat /\ disk[n].term \in Nat
      /\ DOMAIN disk = Node /\ DOMAIN currentTerm = Node
      /\ DOMAIN votedFor = Node /\ DOMAIN log = Node /\ DOMAIN up = Node
  BY NodeTypes DEF Saved, TypeOK
<1>2. ASSUME Persist(n), currentTerm'[n] >= currentTerm[n], up[n],
             currentTerm'[n] \in Nat
      PROVE  Goal
  <2>1. disk'[n].term = currentTerm'[n] /\ disk'[n].votedFor = votedFor'[n]
    BY <1>1, <1>2 DEF Persist
  <2> QED
    BY <1>1, <1>2, <2>1 DEF SavedAt
<1>3. ASSUME disk' = disk, currentTerm'[n] = currentTerm[n], votedFor'[n] = votedFor[n],
             up'[n] = up[n]
      PROVE  Goal
  BY <1>1, <1>3 DEF SavedAt
<1>4. ASSUME up' = [up EXCEPT ![n] = FALSE], disk'[n].term >= disk[n].term PROVE Goal
  BY <1>1, <1>4 DEF SavedAt
<1>5. CASE ElectionTimeout(n)
  <2>1. up[n] /\ Persist(n) /\ currentTerm' = [currentTerm EXCEPT ![n] = currentTerm[n] + 1]
    BY <1>5 DEF ElectionTimeout, BecomeLeader
  <2> QED
    BY <1>1, <1>2, <2>1
<1>6. ASSUME NEW m \in voteReqs, HandleRequestVote(n, m) PROVE Goal
  <2>1. m.term \in Nat
    BY DEF TypeOK, RequestVoteArgs
  <2>2. TermAfter(n, m.term) = IF m.term > currentTerm[n] THEN m.term ELSE currentTerm[n]
    BY <2>1, AfterTypes
  <2>3. /\ up[n] /\ up' = up /\ currentTerm'[n] = TermAfter(n, m.term)
        /\ Persist(n) \/ (/\ disk' = disk /\ ~ m.term > currentTerm[n]
                          /\ votedFor'[n] = VoteAfter(n, m.term))
    BY <1>1, <1>6 DEF HandleRequestVote
  <2>4. ~ m.term > currentTerm[n] => VoteAfter(n, m.term) = votedFor[n]
    BY DEF VoteAfter
  <2> QED
    BY <1>1, <1>2, <1>3, <2>1, <2>2, <2>3, <2>4
<1>7. ASSUME NEW r \in voteReps, RequestVoteReplied(n, r) PROVE Goal
  <2>1. /\ up[n] /\ up' = up /\ currentTerm' = currentTerm /\ votedFor' = votedFor
        /\ Persist(n) \/ disk' = disk
    BY <1>7 DEF RequestVoteReplied, BecomeLeader
  <2> QED
    BY <1>1, <1>2, <1>3, <2>1
<1>8. ASSUME NEW r \in voteReps \cup appendReps, ReplyWithNewerTerm(n, r) PROVE Goal
  <2>1. r.term \in Nat
    BY DEF TypeOK, RequestVoteReply, AppendEntriesReply
  <2>2. /\ up[n] /\ Persist(n) /\ r.term > currentTerm[n]
        /\ currentTerm' = [currentTerm EXCEPT ![n] = r.term]
    BY <1>8 DEF ReplyWithNewerTerm
  <2> QED
    BY <1>1, <1>2, <2>1, <2>2
<1>9. ASSUME NEW c \in Command, Propose(n, c) PROVE Goal
  <2>1. up[n] /\ Persist(n) /\ currentTerm' = currentTerm
    BY <1>9 DEF Propose
  <2> QED
    BY <1>1, <1>2, <2>1
<1>10. ASSUME NEW m \in appendReqs, HandleAppendEntries(n, m) PROVE Goal
  <2>1. m.term \in Nat
    BY DEF TypeOK, AppendEntriesArgs
  <2>2. TermAfter(n, m.term) = IF m.term > currentTerm[n] THEN m.term ELSE currentTerm[n]
    BY <2>1, AfterTypes
  <2>3. /\ up[n] /\ up' = up /\ currentTerm'[n] = TermAfter(n, m.term)
        /\ votedFor'[n] = VoteAfter(n, m.term)
        /\ Persist(n) \/ (disk' = disk /\ ~ m.term > currentTerm[n])
    BY <1>1, <1>10 DEF HandleAppendEntries
  <2>4. ~ m.term > currentTerm[n] => VoteAfter(n, m.term) = votedFor[n]
    BY DEF VoteAfter
  <2> QED
    BY <1>1, <1>2, <1>3, <2>1, <2>2, <2>3, <2>4
<1>11. ASSUME NEW q \in Peers(n), ReplicateTo(n, q) PROVE Goal
  BY <1>3, <1>11 DEF ReplicateTo, saved
<1>12. ASSUME NEW r \in appendReps, AppendSucceeded(n, r) \/ AppendRefused(n, r)
       PROVE  Goal
  BY <1>3, <1>12 DEF AppendSucceeded, AppendRefused, saved
<1>13. CASE Crash(n)
  BY <1>1, <1>4, <1>13 DEF Crash, LoseMemory
<1>14. CASE CrashBetweenSaves(n)
  <2>1. \A m \in voteReqs \cup appendReqs : m.term \in Nat
    BY DEF TypeOK, RequestVoteArgs, AppendEntriesArgs
  <2>2. up[n] /\ up' = [up EXCEPT ![n] = FALSE]
    BY <1>14 DEF CrashBetweenSaves, LoseMemory
  <2>3. disk'[n].term > currentTerm[n] /\ disk'[n].term \in Nat
    BY <1>1, <1>14, <2>1 DEF CrashBetweenSaves
  <2>4. disk[n].term <= currentTerm[n]
    BY <1>1, <2>2 DEF SavedAt
  <2> QED
    BY <1>1, <1>4, <2>2, <2>3, <2>4
<1>15. CASE Restart(n)
  BY <1>1, <1>15 DEF Restart, SavedAt
<1> HIDE DEF Goal
<1> QED
  BY <1>5, <1>6, <1>7, <1>8, <1>9, <1>10, <1>11, <1>12, <1>13, <1>14, <1>15
     DEF NodeStep, Goal

(* What a step of n can do to its role: win an election, go on in the same *)
(* role and term, fall back to follower, or run for election.              *)
Won(n) ==
  /\ up[n] /\ role[n] # Leader /\ role'[n] = Leader
  /\ leaders' = leaders \cup {<<n, currentTerm'[n]>>}
  /\ \/ role[n] = Candidate /\ currentTerm'[n] = currentTerm[n]
     \/ currentTerm'[n] = currentTerm[n] + 1
  /\ nextIndex'[n] = [p \in Node |-> Len(log[n]) + 1]
  /\ Len(log'[n]) = Len(log[n]) + 1
  /\ disk'[n].term = currentTerm'[n]
WentOn(n) ==
  /\ role'[n] = role[n] /\ currentTerm'[n] = currentTerm[n]
  /\ leaders' = leaders
  /\ role[n] = Leader => Len(log'[n]) >= Len(log[n])
FellBack(n) == role'[n] = Follower /\ leaders' = leaders
Ran(n) ==
  /\ up[n] /\ role'[n] = Candidate /\ currentTerm'[n] = currentTerm[n] + 1
  /\ leaders' = leaders
RoleStep(n) == Won(n) \/ WentOn(n) \/ FellBack(n) \/ Ran(n)

(* becomeLeader makes a node that did not lead a leader. *)
LEMMA BecomeLeaderWins ==
  ASSUME TypeOK, NEW n \in Node, BecomeLeader(n), up[n], role[n] # Leader,
         currentTerm' \in [Node -> Nat],
         \/ role[n] = Candidate /\ currentTerm'[n] = currentTerm[n]
         \/ currentTerm'[n] = currentTerm[n] + 1
  PROVE  Won(n)
<1>1. [term |-> currentTerm'[n], cmd |-> NoOp] \in Entry
  BY DEF Entry
<1>2. Len(Append(log[n], [term |-> currentTerm'[n], cmd |-> NoOp])) = Len(log[n]) + 1
  BY SMTT(30), <1>1, AppendProperties, NodeTypes
<1>3. disk'[n].term = currentTerm'[n]
  BY DEF BecomeLeader, Persist, TypeOK
<1> QED
  BY <1>2, <1>3 DEF Won, BecomeLeader, TypeOK

(* Every step of n is one of these four. *)
LEMMA SelfRole ==
  ASSUME TypeOK, NEW n \in Node, NodeStep(n)
  PROVE  RoleStep(n)
<1>1. /\ currentTerm[n] \in Nat /\ log[n] \in Seq(Entry) /\ Len(log[n]) \in Nat
      /\ currentTerm \in [Node -> Nat]
      /\ DOMAIN role = Node /\ DOMAIN log = Node /\ DOMAIN currentTerm = Node
  BY NodeTypes DEF TypeOK
<1> USE DEF saved, volatile, progress, history
<1>2. CASE ElectionTimeout(n)
  <2>1. CASE BecomeLeader(n)
    <3>1. /\ up[n] /\ role[n] # Leader /\ currentTerm' \in [Node -> Nat]
          /\ currentTerm'[n] = currentTerm[n] + 1
      BY SMTT(30), <1>1, <1>2 DEF ElectionTimeout
    <3> QED
      BY <2>1, <3>1, BecomeLeaderWins DEF RoleStep
  <2>2. CASE Quorum > 1 /\ role' = [role EXCEPT ![n] = Candidate] /\ leaders' = leaders
    BY <1>1, <1>2, <2>2 DEF ElectionTimeout, RoleStep, Ran
  <2> QED
    BY <1>2, <2>1, <2>2 DEF ElectionTimeout
<1>3. ASSUME NEW m \in voteReqs, HandleRequestVote(n, m) PROVE RoleStep(n)
  <2>1. m.term \in Nat
    BY DEF TypeOK, RequestVoteArgs
  <2>2. TermAfter(n, m.term) = IF m.term > currentTerm[n] THEN m.term ELSE currentTerm[n]
    BY <2>1, AfterTypes
  <2> QED
    BY <1>1, <1>3, <2>1, <2>2
       DEF HandleRequestVote, RoleAfter, RoleStep, WentOn, FellBack
<1>4. ASSUME NEW r \in voteReps, RequestVoteReplied(n, r) PROVE RoleStep(n)
  <2>1. CASE BecomeLeader(n)
    <3>1. /\ up[n] /\ role[n] # Leader /\ role[n] = Candidate
          /\ currentTerm' \in [Node -> Nat] /\ currentTerm'[n] = currentTerm[n]
      BY <1>1, <1>4 DEF RequestVoteReplied, StillRunning, Candidate, Leader
    <3> QED
      BY <2>1, <3>1, BecomeLeaderWins DEF RoleStep
  <2>2. CASE UNCHANGED <<log, disk, volatile, progress, leaders, committed>>
    BY <1>1, <1>4, <2>2 DEF RequestVoteReplied, RoleStep, WentOn
  <2> QED
    BY <1>4, <2>1, <2>2 DEF RequestVoteReplied
<1>5. ASSUME NEW r \in voteReps \cup appendReps, ReplyWithNewerTerm(n, r)
      PROVE  RoleStep(n)
  BY <1>1, <1>5 DEF ReplyWithNewerTerm, RoleStep, FellBack
<1>6. ASSUME NEW c \in Command, Propose(n, c) PROVE RoleStep(n)
  <2>1. [term |-> currentTerm[n], cmd |-> c] \in Entry
    BY <1>1 DEF Entry
  <2>2. Len(Append(log[n], [term |-> currentTerm[n], cmd |-> c])) = Len(log[n]) + 1
    BY ZenonT(90), <1>1, <2>1, AppendProperties
  <2> QED
    BY <1>1, <1>6, <2>2 DEF Propose, RoleStep, WentOn
<1>7. ASSUME NEW q \in Peers(n), ReplicateTo(n, q) PROVE RoleStep(n)
  BY <1>1, <1>7 DEF ReplicateTo, RoleStep, WentOn
<1>8. ASSUME NEW m \in appendReqs, HandleAppendEntries(n, m) PROVE RoleStep(n)
  <2>1. m.term \in Nat
    BY DEF TypeOK, AppendEntriesArgs
  <2>2. TermAfter(n, m.term) = IF m.term > currentTerm[n] THEN m.term ELSE currentTerm[n]
    BY <2>1, AfterTypes
  <2>3. leaders' = leaders
    BY <1>8 DEF HandleAppendEntries
  <2>4. CASE m.term >= currentTerm[n]
    <3>1. m.term = TermAfter(n, m.term)
      BY <1>1, <2>1, <2>2, <2>4
    <3>2. role'[n] = Follower
      BY <1>1, <1>8, <3>1 DEF HandleAppendEntries
    <3> QED
      BY <2>3, <3>2 DEF RoleStep, FellBack
  <2>5. CASE m.term < currentTerm[n]
    <3>1. m.term # TermAfter(n, m.term) /\ TermAfter(n, m.term) = currentTerm[n]
      BY <1>1, <2>1, <2>2, <2>5
    <3>2. role'[n] = role[n] /\ currentTerm'[n] = currentTerm[n] /\ log'[n] = log[n]
      BY <1>1, <1>8, <3>1 DEF HandleAppendEntries
    <3> QED
      BY <1>1, <2>3, <3>2 DEF RoleStep, WentOn
  <2> QED
    BY <1>1, <2>1, <2>4, <2>5
<1>9. ASSUME NEW r \in appendReps, AppendSucceeded(n, r) PROVE RoleStep(n)
  BY <1>1, <1>9 DEF AppendSucceeded, RoleStep, WentOn
<1>10. ASSUME NEW r \in appendReps, AppendRefused(n, r) PROVE RoleStep(n)
  BY <1>1, <1>10 DEF AppendRefused, RoleStep, WentOn
<1>11. CASE Crash(n) \/ CrashBetweenSaves(n)
  BY <1>1, <1>11 DEF Crash, CrashBetweenSaves, LoseMemory, RoleStep, FellBack
<1>12. CASE Restart(n)
  BY <1>1, <1>12 DEF Restart, RoleStep, FellBack, TypeOK
<1> QED
  BY <1>2, <1>3, <1>4, <1>5, <1>6, <1>7, <1>8, <1>9, <1>10, <1>11, <1>12
     DEF NodeStep

(* Memory and disk of every node agree after a step of any. *)
LEMMA SyncedStep ==
  ASSUME TypeOK, Synced, NEW n \in Node, NodeStep(n)
  PROVE  Synced' /\ \A p \in Node : disk'[p].term >= disk[p].term
<1> SUFFICES ASSUME NEW p \in Node
             PROVE  SyncedAt(p)' /\ disk'[p].term >= disk[p].term
  BY DEF Synced
<1>1. CASE p = n
  BY <1>1, SelfSynced
<1>2. CASE p # n
  <2>1. Untouched(p)
    BY <1>2, OthersUntouched
  <2>2. SyncedAt(p)
    BY DEF Synced
  <2>3. /\ disk'[p] = disk[p] /\ log'[p] = log[p] /\ up'[p] = up[p]
        /\ currentTerm'[p] = currentTerm[p] /\ votedFor'[p] = votedFor[p]
    BY <2>1 DEF Untouched
  <2>4. SyncedAt(p)'
    BY <2>2, <2>3 DEF SyncedAt
  <2>5. disk[p].term \in Nat
    BY NodeTypes
  <2> QED
    BY <2>3, <2>4, <2>5
<1> QED
  BY <1>1, <1>2

(* Where memory and disk agree, the disk remembers no other vote. *)
LEMMA SyncedIsSaved == TypeOK /\ Synced => Saved
<1> SUFFICES ASSUME TypeOK, Synced, NEW n \in Node PROVE SavedAt(n)
  BY DEF Saved
<1>1. disk[n].term \in Nat /\ SyncedAt(n)
  BY NodeTypes DEF Synced
<1> QED
  BY <1>1 DEF SyncedAt, SavedAt

(* No disk gets ahead of its node's memory in a step of any. *)
LEMMA SavedStep ==
  ASSUME TypeOK, Saved, NEW n \in Node, NodeStep(n)
  PROVE  Saved' /\ \A p \in Node : disk'[p].term >= disk[p].term
<1> SUFFICES ASSUME NEW p \in Node
             PROVE  SavedAt(p)' /\ disk'[p].term >= disk[p].term
  BY DEF Saved
<1>1. CASE p = n
  BY <1>1, SelfSaved
<1>2. CASE p # n
  <2>1. /\ disk'[p] = disk[p] /\ up'[p] = up[p]
        /\ currentTerm'[p] = currentTerm[p] /\ votedFor'[p] = votedFor[p]
    BY <1>2, OthersUntouched DEF Untouched
  <2>2. disk[p].term \in Nat /\ SavedAt(p)
    BY NodeTypes DEF Saved
  <2> QED
    BY <2>1, <2>2 DEF SavedAt
<1> QED
  BY <1>1, <1>2

(* Who was elected and who still runs for election stays on record. *)
LEMMA LeadersSavedStep ==
  ASSUME TypeOK, TypeOK', Saved, LeadersSaved, NEW n \in Node, NodeStep(n)
  PROVE  LeadersSaved' /\ leaders \subseteq leaders'
<1>1. Saved' /\ \A p \in Node : disk'[p].term >= disk[p].term
  BY SavedStep
<1>2. RoleStep(n)
  BY SelfRole
<1>3. /\ leaders \subseteq Node \X Nat /\ leaders' \subseteq Node \X Nat
      /\ \A p \in Node : disk[p].term \in Nat /\ disk'[p].term \in Nat
                           /\ currentTerm[p] \in Nat /\ currentTerm'[p] \in Nat
  <2>1. disk' \in [Node -> PersistentState] /\ currentTerm' \in [Node -> Nat]
    BY DEF TypeOK
  <2> QED
    BY <2>1, NodeTypes DEF TypeOK, PersistentState
<1>4. up[n] => disk[n].term <= currentTerm[n]
  BY DEF Saved, SavedAt
<1>5. leaders' = leaders \/ (leaders' = leaders \cup {<<n, currentTerm'[n]>>} /\ Won(n))
  BY <1>2 DEF RoleStep, Won, WentOn, FellBack, Ran
<1>6. \A x \in leaders' : x[2] <= disk'[x[1]].term
  <2> SUFFICES ASSUME NEW x \in leaders' PROVE x[2] <= disk'[x[1]].term
    OBVIOUS
  <2>1. CASE x \in leaders
    <3>1. x[1] \in Node /\ x[2] \in Nat /\ x[2] <= disk[x[1]].term
      BY <1>3, <2>1 DEF LeadersSaved
    <3> QED
      BY <1>1, <1>3, <3>1
  <2>2. CASE x = <<n, currentTerm'[n]>> /\ Won(n)
    <3>1. x[1] = n /\ x[2] = currentTerm'[n] /\ disk'[n].term = currentTerm'[n]
      BY <2>2 DEF Won
    <3> QED
      BY <1>3, <3>1
  <2> QED
    BY <1>5, <2>1, <2>2
<1>7. ASSUME NEW p \in Node, role'[p] = Candidate
      PROVE  <<p, currentTerm'[p]>> \notin leaders'
  <2>1. CASE p # n
    <3>1. role'[p] = role[p] /\ currentTerm'[p] = currentTerm[p]
      BY <2>1, OthersUntouched DEF Untouched
    <3> QED
      BY <1>5, <1>7, <2>1, <3>1 DEF LeadersSaved
  <2>2. CASE p = n
    <3>1. CASE Won(n)
      BY <1>7, <2>2, <3>1 DEF Won, Leader, Candidate
    <3>2. CASE WentOn(n)
      BY <1>7, <2>2, <3>2 DEF WentOn, LeadersSaved
    <3>3. CASE FellBack(n)
      BY <1>7, <2>2, <3>3 DEF FellBack, Follower, Candidate
    <3>4. CASE Ran(n)
      <4>1. <<n, currentTerm[n] + 1>> \notin leaders
        BY SMTT(30), <1>3, <1>4, <3>4 DEF Ran, LeadersSaved
      <4> QED
        BY <2>2, <3>4, <4>1 DEF Ran
    <3> QED
      BY <1>2, <3>1, <3>2, <3>3, <3>4 DEF RoleStep
  <2> QED
    BY <2>1, <2>2
<1> QED
  BY <1>5, <1>6, <1>7 DEF LeadersSaved

(* Where memory and disk agree, who leads stays on record, too. *)
LEMMA LeadersKnownStep ==
  ASSUME TypeOK, TypeOK', Synced, LeadersKnown, NEW n \in Node, NodeStep(n)
  PROVE  LeadersKnown' /\ leaders \subseteq leaders'
<1>1. LeadersSaved' /\ leaders \subseteq leaders'
  BY SyncedIsSaved, LeadersSavedStep DEF LeadersKnown
<1>2. ASSUME NEW p \in Node, role'[p] = Leader
      PROVE  <<p, currentTerm'[p]>> \in leaders'
  <2>1. CASE p # n
    <3>1. role'[p] = role[p] /\ currentTerm'[p] = currentTerm[p]
      BY <2>1, OthersUntouched DEF Untouched
    <3> QED
      BY <1>1, <1>2, <3>1 DEF LeadersKnown
  <2>2. CASE p = n
    <3>1. Won(n) \/ WentOn(n)
      BY <1>2, <2>2, SelfRole DEF RoleStep, FellBack, Ran, Leader, Follower, Candidate
    <3>2. CASE Won(n)
      BY <2>2, <3>2 DEF Won
    <3>3. CASE WentOn(n)
      BY <1>2, <2>2, <3>3 DEF WentOn, LeadersKnown
    <3> QED
      BY <3>1, <3>2, <3>3
  <2> QED
    BY <2>1, <2>2
<1> QED
  BY <1>1, <1>2 DEF LeadersKnown

(* What a request in the network says of its sender stays true. *)
LEMMA AppendFromKept ==
  ASSUME TypeOK, TypeOK', Saved, LeadersSaved, NEW n \in Node, NodeStep(n),
         NEW m \in AppendEntriesArgs, AppendFrom(m)
  PROVE  AppendFrom(m)'
<1>1. m.from \in Node /\ m.term \in Nat /\ m.prevLogIndex + Len(m.entries) \in Nat
  BY SMTT(30), LenProperties DEF AppendEntriesArgs
<1>2. <<m.from, m.term>> \in leaders'
  BY LeadersSavedStep DEF AppendFrom
<1>3. ASSUME role'[m.from] = Leader, currentTerm'[m.from] = m.term
      PROVE  m.prevLogIndex + Len(m.entries) <= Len(log'[m.from])
  <2>1. CASE m.from # n
    BY <1>1, <1>3, <2>1, OthersUntouched DEF Untouched, AppendFrom
  <2>2. CASE m.from = n
    <3>1. RoleStep(n)
      BY SelfRole
    <3>2. ~ Won(n)
      <4>1. SUFFICES ASSUME Won(n) PROVE FALSE
        OBVIOUS
      <4>2. m.term <= currentTerm[n] /\ currentTerm[n] \in Nat
        <5>1. disk[n].term \in Nat /\ currentTerm[n] \in Nat
          BY NodeTypes
        <5>2. disk[n].term <= currentTerm[n]
          BY <4>1 DEF Won, Saved, SavedAt
        <5>3. m.term <= disk[n].term
          BY <2>2 DEF LeadersSaved, AppendFrom
        <5> QED
          BY <1>1, <5>1, <5>2, <5>3
      <4>3. currentTerm'[n] # currentTerm[n] + 1
        BY <1>1, <1>3, <2>2, <4>2
      <4>4. role[n] = Candidate /\ m.term = currentTerm[n]
        BY <1>3, <2>2, <4>1, <4>3 DEF Won
      <4> QED
        BY <2>2, <4>4 DEF LeadersSaved, AppendFrom
    <3>3. WentOn(n)
      BY <1>3, <2>2, <3>1, <3>2
         DEF RoleStep, FellBack, Ran, Leader, Follower, Candidate
    <3>4. Len(log[n]) \in Nat /\ Len(log'[n]) \in Nat
      <4>1. log'[n] \in Seq(Entry)
        BY DEF TypeOK
      <4> QED
        BY <4>1, LenProperties, NodeTypes
    <3> QED
      BY <1>1, <1>3, <2>2, <3>3, <3>4 DEF WentOn, AppendFrom
  <2> QED
    BY <2>1, <2>2
<1> QED
  BY <1>2, <1>3 DEF AppendFrom

(* The request that replicateTo of a leader of its term sends carries what *)
(* the leader has.                                                         *)
LEMMA ReplicateToFrom ==
  ASSUME TypeOK, LoopsKeepToTheirTerm, NextIndexInLog, NEW n \in Node,
         NEW q \in Peers(n), ReplicateTo(n, q), NEW m \in appendReqs',
         m \notin appendReqs
  PROVE  AppendFrom(m)'
<1> DEFINE prev == nextIndex[n][q] - 1
           es == EntriesFrom(log[n], prev + 1, MaxEntriesPerAppend)
<1>1. /\ m.from = n /\ m.to = q /\ m.term = currentTerm[n]
      /\ m.prevLogIndex = prev /\ m.entries = es
  <2> HIDE DEF es
  <2>1. m = [from |-> n, boot |-> boot[n], to |-> q, term |-> currentTerm[n],
             prevLogIndex |-> prev, prevLogTerm |-> TermAt(log[n], prev),
             entries |-> es, leaderCommit |-> commitIndex[n]]
    BY DEF ReplicateTo, es
  <2> QED
    BY <2>1
<1>2. /\ role'[n] = role[n] /\ log'[n] = log[n] /\ leaders' = leaders
      /\ role[n] = Leader
  BY DEF ReplicateTo, saved, volatile, history
<1>3. nextIndex[n][q] \in 1 .. Len(log[n]) + 1 /\ Len(log[n]) \in Nat
  BY <1>2, NodeTypes DEF NextIndexInLog
<1>4. prev + Len(es) <= Len(log[n])
  <2> DEFINE lo == nextIndex[n][q]
  <2>1. lo \in 1 .. Len(log[n]) + 1 /\ prev = lo - 1 /\ prev + 1 = lo
    BY <1>3
  <2>2. log[n] \in Seq(Entry) /\ MaxEntriesPerAppend \in Nat \ {0}
    BY NodeTypes, ConstantsAssumption
  <2> HIDE DEF prev, lo
  <2>3. lo - 1 + Len(EntriesFrom(log[n], lo, MaxEntriesPerAppend)) <= Len(log[n])
    BY <2>1, <2>2, EntriesFromType
  <2> QED
    BY <2>1, <2>3
<1> HIDE DEF prev, es
<1> QED
  BY <1>1, <1>2, <1>4 DEF AppendFrom, LoopsKeepToTheirTerm, Peers

(* Only replicateTo sends a request, and a reply answers one that was sent. *)
LEMMA AppendNetStep ==
  ASSUME NEW n \in Node, NodeStep(n)
  PROVE  /\ \/ appendReqs' \subseteq appendReqs
            \/ \E q \in Peers(n) : ReplicateTo(n, q)
         /\ \A r \in appendReps' : r \in appendReps \/ r.req \in appendReqs
<1> USE DEF appendNet
<1>1. ASSUME NEW m \in voteReqs, HandleRequestVote(n, m)
      PROVE  appendReqs' = appendReqs /\ appendReps' = appendReps
  BY <1>1 DEF HandleRequestVote
<1>2. ASSUME NEW m \in appendReqs, HandleAppendEntries(n, m)
      PROVE  /\ appendReqs' \subseteq appendReqs
             /\ \A r \in appendReps' : r \in appendReps \/ r.req \in appendReqs
  <2>1. appendReqs' \subseteq appendReqs
    BY <1>2 DEF HandleAppendEntries
  <2>2. PICK granted :
          appendReps' = appendReps \cup
            ToCaller(m, [req |-> m, term |-> TermAfter(n, m.term), success |-> granted])
    BY <1>2 DEF HandleAppendEntries
  <2> DEFINE reply == [req |-> m, term |-> TermAfter(n, m.term), success |-> granted]
  <2>3. reply.req = m
    OBVIOUS
  <2> HIDE DEF reply
  <2>4. ToCaller(m, reply) \subseteq {reply}
    BY DEF ToCaller
  <2>5. appendReps' = appendReps \cup ToCaller(m, reply)
    BY <2>2 DEF reply
  <2> QED
    BY <2>1, <2>3, <2>4, <2>5
<1>3. CASE ElectionTimeout(n)
  BY <1>3 DEF ElectionTimeout
<1>4. ASSUME NEW r \in voteReps, RequestVoteReplied(n, r)
      PROVE  appendReqs' = appendReqs /\ appendReps' = appendReps
  BY <1>4 DEF RequestVoteReplied
<1>5. ASSUME NEW r \in voteReps \cup appendReps, ReplyWithNewerTerm(n, r)
      PROVE  appendReqs' = appendReqs /\ appendReps' \subseteq appendReps
  BY <1>5 DEF ReplyWithNewerTerm
<1>6. ASSUME NEW c \in Command, Propose(n, c)
      PROVE  appendReqs' = appendReqs /\ appendReps' = appendReps
  BY <1>6 DEF Propose
<1>7. ASSUME NEW q \in Peers(n), ReplicateTo(n, q)
      PROVE  appendReps' = appendReps
  BY <1>7 DEF ReplicateTo
<1>8. ASSUME NEW r \in appendReps, AppendSucceeded(n, r) \/ AppendRefused(n, r)
      PROVE  appendReqs' = appendReqs /\ appendReps' \subseteq appendReps
  BY <1>8 DEF AppendSucceeded, AppendRefused, TakeAppendReply
<1>9. CASE Crash(n) \/ CrashBetweenSaves(n)
  BY <1>9 DEF Crash, CrashBetweenSaves, LoseMemory
<1>10. CASE Restart(n)
  BY <1>10 DEF Restart
<1> QED
  BY <1>1, <1>2, <1>3, <1>4, <1>5, <1>6, <1>7, <1>8, <1>9, <1>10 DEF NodeStep

(* While saves do not fail, whoever leads was elected in its term, and so  *)
(* every loop works for the term it was started in.                        *)
LEMMA LeadersSendForTheirTerm ==
  ASSUME LeadersKnown, NEW n \in Node, NodeStep(n)
  PROVE  LoopsKeepToTheirTerm
<1> SUFFICES ASSUME NEW m \in appendReqs' \ appendReqs
             PROVE  <<m.from, m.term>> \in leaders
  BY DEF LoopsKeepToTheirTerm
<1>1. PICK q \in Peers(n) : ReplicateTo(n, q)
  BY AppendNetStep
<1>2. m.from = n /\ m.term = currentTerm[n] /\ role[n] = Leader
  BY <1>1 DEF ReplicateTo
<1> QED
  BY <1>2 DEF LeadersKnown

(* Every AppendEntries message comes from a leader, before and after. *)
LEMMA AppendsFromLeadersStep ==
  ASSUME TypeOK, TypeOK', Saved, LeadersSaved, NextIndexInLog,
         AppendsFromLeaders, NEW n \in Node, NodeStep(n), LoopsKeepToTheirTerm
  PROVE  AppendsFromLeaders'
<1>1. \A m \in AppendEntriesArgs : AppendFrom(m) => AppendFrom(m)'
  BY AppendFromKept
<1>2. ASSUME NEW m \in appendReqs PROVE AppendFrom(m)'
  BY <1>1 DEF TypeOK, AppendsFromLeaders
<1>3. ASSUME NEW m \in appendReqs' PROVE AppendFrom(m)'
  <2>1. CASE m \in appendReqs
    BY <1>2, <2>1
  <2>2. CASE m \notin appendReqs
    <3>1. PICK q \in Peers(n) : ReplicateTo(n, q)
      BY <2>2, AppendNetStep
    <3> QED
      BY <2>2, <3>1, ReplicateToFrom
  <2> QED
    BY <2>1, <2>2
<1>4. ASSUME NEW r \in appendReps' PROVE AppendFrom(r.req)'
  <2>1. CASE r \in appendReps
    <3>1. r.req \in AppendEntriesArgs /\ AppendFrom(r.req)
      BY <2>1 DEF TypeOK, AppendEntriesReply, AppendsFromLeaders
    <3> QED
      BY <1>1, <3>1
  <2>2. CASE r.req \in appendReqs
    BY <1>2, <2>2
  <2> QED
    BY <2>1, <2>2, AppendNetStep
<1> QED
  BY <1>3, <1>4 DEF AppendsFromLeaders

(* Where nextIndex of the acting node points after its step. *)
LEMMA SelfNextIndex ==
  ASSUME TypeOK, TypeOK', AppendsFromLeaders, NextIndexInLog, NEW n \in Node,
         NodeStep(n), role'[n] = Leader, NEW p \in Peers(n)
  PROVE  nextIndex'[n][p] \in 1 .. Len(log'[n]) + 1
<1> DEFINE Goal == nextIndex'[n][p] \in 1 .. Len(log'[n]) + 1
<1>1. /\ Len(log[n]) \in Nat /\ Len(log'[n]) \in Nat
      /\ nextIndex \in [Node -> [Node -> Nat]] /\ nextIndex[n][p] \in Nat /\ p \in Node
  <2>1. log'[n] \in Seq(Entry)
    BY DEF TypeOK
  <2>2. nextIndex \in [Node -> [Node -> Nat]]
    BY DEF TypeOK
  <2> QED
    BY <2>1, <2>2, LenProperties, NodeTypes DEF Peers
<1>2. RoleStep(n)
  BY SelfRole
<1>3. CASE Won(n)
  BY SMTT(30), <1>1, <1>3 DEF Won
<1>4. ASSUME WentOn(n) PROVE Goal
  <2>1. /\ role[n] = Leader /\ nextIndex[n][p] \in 1 .. Len(log[n]) + 1
        /\ Len(log'[n]) >= Len(log[n]) /\ currentTerm'[n] = currentTerm[n]
    BY <1>4 DEF WentOn, NextIndexInLog
  <2>2. nextIndex'[n][p] = nextIndex[n][p] => Goal
    BY <1>1, <2>1
  <2> USE DEF saved, volatile, progress, history
  <2>3. ASSUME NEW r \in appendReps, AppendSucceeded(n, r) PROVE Goal
    <3> DEFINE k == r.req.prevLogIndex + Len(r.req.entries)
    <3>1. /\ r.req \in AppendEntriesArgs /\ r.req.from = n /\ r.req.term = currentTerm[n]
          /\ r.req.to \in Node
      BY <2>3 DEF AppendSucceeded, TakeAppendReply, TypeOK, AppendEntriesReply,
                  AppendEntriesArgs
    <3>2. k \in Nat /\ k <= Len(log[n])
      <4>1. r.req.prevLogIndex \in Nat /\ r.req.entries \in Seq(Entry)
        BY <3>1 DEF AppendEntriesArgs
      <4>2. Len(r.req.entries) \in Nat
        BY <4>1, LenProperties
      <4>3. r.req.prevLogIndex + Len(r.req.entries) <= Len(log[n])
        <5>1. AppendFrom(r.req)
          BY DEF AppendsFromLeaders
        <5> QED
          BY <2>1, <3>1, <5>1 DEF AppendFrom
      <4> QED
        BY <4>1, <4>2, <4>3
    <3> HIDE DEF k
    <3>3. nextIndex[n][r.req.to] \in Nat /\ k + 1 \in Nat
      BY <1>1, <3>1, <3>2
    <3>4. NextAfter(n, r.req.to, r.req) =
            IF nextIndex[n][r.req.to] >= k + 1 THEN nextIndex[n][r.req.to] ELSE k + 1
      BY <3>3, PairExtrema DEF NextAfter, k
    <3>5. nextIndex'[n][p] = IF p = r.req.to THEN NextAfter(n, p, r.req)
                                             ELSE nextIndex[n][p]
      BY <1>1, <2>3 DEF AppendSucceeded
    <3>6. CASE p # r.req.to
      BY <2>2, <3>5, <3>6
    <3>7. CASE p = r.req.to
      <4>1. nextIndex'[n][p] = IF nextIndex[n][p] >= k + 1 THEN nextIndex[n][p] ELSE k + 1
        BY <3>4, <3>5, <3>7
      <4> QED
        BY <1>1, <2>1, <3>2, <4>1
    <3> QED
      BY <3>6, <3>7
  <2>4. ASSUME NEW r \in appendReps, AppendRefused(n, r) PROVE Goal
    <3>1. r.req.prevLogIndex \in Nat
      BY DEF TypeOK, AppendEntriesReply, AppendEntriesArgs
    <3>2. /\ log' = log
          /\ \/ nextIndex'[n][p] = nextIndex[n][p]
             \/ /\ nextIndex[n][p] = r.req.prevLogIndex + 1
                /\ nextIndex'[n][p] = r.req.prevLogIndex /\ r.req.prevLogIndex > 0
      BY <1>1, <2>4 DEF AppendRefused
    <3> QED
      BY SMTT(30), <1>1, <2>1, <3>1, <3>2
  <2>5. CASE ElectionTimeout(n)
    BY <2>1, <2>5 DEF ElectionTimeout
  <2>6. ASSUME NEW m \in voteReqs, HandleRequestVote(n, m) PROVE Goal
    BY <2>2, <2>6 DEF HandleRequestVote
  <2>7. ASSUME NEW r \in voteReps, RequestVoteReplied(n, r) PROVE Goal
    BY <2>1, <2>7 DEF RequestVoteReplied, StillRunning, Leader, Candidate
  <2>8. ASSUME NEW r \in voteReps \cup appendReps, ReplyWithNewerTerm(n, r) PROVE Goal
    BY <2>2, <2>8 DEF ReplyWithNewerTerm
  <2>9. ASSUME NEW c \in Command, Propose(n, c) PROVE Goal
    BY <2>2, <2>9 DEF Propose
  <2>10. ASSUME NEW q \in Peers(n), ReplicateTo(n, q) PROVE Goal
    BY <2>2, <2>10 DEF ReplicateTo
  <2>11. ASSUME NEW m \in appendReqs, HandleAppendEntries(n, m) PROVE Goal
    BY <2>2, <2>11 DEF HandleAppendEntries
  <2>12. ASSUME Crash(n) \/ CrashBetweenSaves(n) PROVE FALSE
    BY <2>12 DEF Crash, CrashBetweenSaves, LoseMemory, TypeOK, Leader, Follower
  <2>13. CASE Restart(n)
    BY <2>2, <2>13 DEF Restart
  <2> HIDE DEF Goal
  <2> QED
    BY <2>3, <2>4, <2>5, <2>6, <2>7, <2>8, <2>9, <2>10, <2>11, <2>12, <2>13
       DEF NodeStep
<1> QED
  BY <1>2, <1>3, <1>4 DEF RoleStep, FellBack, Ran, Leader, Follower, Candidate

(* The leader a node names after its step was elected in the node's term. *)
LEMMA SelfLeaderID ==
  ASSUME TypeOK, AppendsFromLeaders, LeaderIDElected,
         NEW n \in Node, NodeStep(n), leaders \subseteq leaders',
         leaderID'[n] # Nobody
  PROVE  <<leaderID'[n], currentTerm'[n]>> \in leaders'
<1> DEFINE Goal == <<leaderID'[n], currentTerm'[n]>> \in leaders'
<1>1. /\ currentTerm[n] \in Nat /\ DOMAIN leaderID = Node /\ DOMAIN currentTerm = Node
  BY NodeTypes DEF TypeOK
<1>2. leaderID'[n] = leaderID[n] /\ currentTerm'[n] = currentTerm[n] => Goal
  BY DEF LeaderIDElected
<1> USE DEF saved, volatile, history
<1>3. CASE BecomeLeader(n)
  <2>1. leaderID'[n] = n
    BY <1>1, <1>3 DEF BecomeLeader
  <2>2. <<n, currentTerm'[n]>> \in leaders'
    BY <1>3 DEF BecomeLeader
  <2> QED
    BY <2>1, <2>2
<1>4. CASE ElectionTimeout(n)
  <2>1. BecomeLeader(n) \/ leaderID' = [leaderID EXCEPT ![n] = Nobody]
    BY <1>4 DEF ElectionTimeout
  <2>2. CASE leaderID' = [leaderID EXCEPT ![n] = Nobody]
    BY <1>1, <2>2
  <2> QED
    BY <1>3, <2>1, <2>2
<1>5. ASSUME NEW m \in voteReqs, HandleRequestVote(n, m) PROVE Goal
  <2>1. m.term \in Nat
    BY DEF TypeOK, RequestVoteArgs
  <2>2. TermAfter(n, m.term) = IF m.term > currentTerm[n] THEN m.term ELSE currentTerm[n]
    BY <2>1, AfterTypes
  <2> QED
    BY <1>1, <1>2, <1>5, <2>1, <2>2 DEF HandleRequestVote, LeaderAfter
<1>6. ASSUME NEW r \in voteReps, RequestVoteReplied(n, r) PROVE Goal
  <2>1. BecomeLeader(n) \/ (UNCHANGED volatile /\ currentTerm' = currentTerm)
    BY <1>6 DEF RequestVoteReplied
  <2> QED
    BY <1>2, <1>3, <2>1
<1>7. ASSUME NEW r \in voteReps \cup appendReps, ReplyWithNewerTerm(n, r) PROVE Goal
  BY <1>1, <1>7 DEF ReplyWithNewerTerm
<1>8. ASSUME NEW c \in Command, Propose(n, c) PROVE Goal
  BY <1>2, <1>8 DEF Propose
<1>9. ASSUME NEW q \in Peers(n), ReplicateTo(n, q) PROVE Goal
  BY <1>2, <1>9 DEF ReplicateTo
<1>10. ASSUME NEW m \in appendReqs, HandleAppendEntries(n, m) PROVE Goal
  <2>1. m.term \in Nat
    BY DEF TypeOK, AppendEntriesArgs
  <2>2. TermAfter(n, m.term) = IF m.term > currentTerm[n] THEN m.term ELSE currentTerm[n]
    BY <2>1, AfterTypes
  <2>3. <<m.from, m.term>> \in leaders
    BY DEF AppendsFromLeaders, AppendFrom
  <2> QED
    BY <1>1, <1>2, <1>10, <2>1, <2>2, <2>3 DEF HandleAppendEntries
<1>11. ASSUME NEW r \in appendReps, AppendSucceeded(n, r) PROVE Goal
  BY <1>2, <1>11 DEF AppendSucceeded
<1>12. ASSUME NEW r \in appendReps, AppendRefused(n, r) PROVE Goal
  BY <1>2, <1>12 DEF AppendRefused
<1>13. CASE Crash(n) \/ CrashBetweenSaves(n)
  BY <1>1, <1>13 DEF Crash, CrashBetweenSaves, LoseMemory
<1>14. CASE Restart(n)
  BY <1>14 DEF Restart, TypeOK
<1> HIDE DEF Goal, saved, volatile, history
<1> QED
  BY <1>4, <1>5, <1>6, <1>7, <1>8, <1>9, <1>10, <1>11, <1>12, <1>13, <1>14
     DEF NodeStep, Goal

-----------------------------------------------------------------------------
(* What a step of n can do to the vote on its disk: leave it, enter a      *)
(* newer term, write one that an earlier save did not, or give it to c,    *)
(* who had it or nobody had.                                               *)
NoVote(n) ==
  /\ ballots' = ballots
  /\ \/ disk'[n].term > disk[n].term
     \/ /\ disk'[n].term = disk[n].term
        /\ disk[n].votedFor \in {Nobody, disk'[n].votedFor}
Vote(n, c) ==
  /\ ballots' = ballots \cup {<<n, disk'[n].term, c>>}
  /\ disk'[n].votedFor = c
  /\ \/ disk'[n].term > disk[n].term
     \/ disk'[n].term = disk[n].term /\ disk[n].votedFor \in {Nobody, c}
VoteStep(n) == NoVote(n) \/ \E c \in Node : Vote(n, c)

(* Every step of n is one of these. *)
LEMMA SelfVote ==
  ASSUME TypeOK, Saved, NEW n \in Node, NodeStep(n)
  PROVE  VoteStep(n)
<1>1. /\ currentTerm[n] \in Nat /\ disk[n].term \in Nat
      /\ DOMAIN disk = Node /\ DOMAIN currentTerm = Node /\ DOMAIN votedFor = Node
  BY NodeTypes DEF TypeOK
<1>2. up[n] => /\ disk[n].term <= currentTerm[n]
               /\ disk[n].term = currentTerm[n] => disk[n].votedFor \in {Nobody, votedFor[n]}
  BY DEF Saved, SavedAt
<1>3. ASSUME NEW t, NEW v, currentTerm' = [currentTerm EXCEPT ![n] = t],
             votedFor' = [votedFor EXCEPT ![n] = v], Persist(n)
      PROVE  disk'[n].term = t /\ disk'[n].votedFor = v
  BY <1>1, <1>3 DEF Persist
<1>4. ASSUME up[n], ballots' = ballots, disk'[n].term = currentTerm[n],
             disk'[n].votedFor = votedFor[n]
      PROVE  VoteStep(n)
  BY <1>1, <1>2, <1>4 DEF VoteStep, NoVote
<1>5. ASSUME up[n], NEW t \in Nat, t > currentTerm[n], ballots' = ballots,
             disk'[n].term = t
      PROVE  VoteStep(n)
  BY <1>1, <1>2, <1>5 DEF VoteStep, NoVote
<1>6. ASSUME up[n], NEW c \in Node, NEW t \in Nat, disk'[n].term = t,
             disk'[n].votedFor = c, ballots' = ballots \cup {<<n, t, c>>},
             t > currentTerm[n] \/ (t = currentTerm[n] /\ votedFor[n] \in {Nobody, c})
      PROVE  VoteStep(n)
  <2>1. t > disk[n].term \/ (t = disk[n].term /\ disk[n].votedFor \in {Nobody, c})
    BY <1>1, <1>2, <1>6
  <2> QED
    BY <1>6, <2>1 DEF VoteStep, Vote
<1>7. currentTerm[n] + 1 \in Nat /\ currentTerm[n] + 1 > currentTerm[n]
  BY <1>1
<1>8. ASSUME ballots' = ballots, disk' = disk PROVE VoteStep(n)
  BY <1>1, <1>8 DEF VoteStep, NoVote
<1>9. CASE ElectionTimeout(n)
  <2>1. /\ up[n] /\ currentTerm' = [currentTerm EXCEPT ![n] = currentTerm[n] + 1]
        /\ votedFor' = [votedFor EXCEPT ![n] = n] /\ Persist(n)
        /\ ballots' = ballots \cup {<<n, currentTerm'[n], n>>}
    BY <1>9 DEF ElectionTimeout, BecomeLeader
  <2>2. currentTerm'[n] = currentTerm[n] + 1
    BY <1>1, <2>1
  <2>3. disk'[n].term = currentTerm[n] + 1 /\ disk'[n].votedFor = n
    BY <1>3, <2>1
  <2> QED
    BY <1>6, <1>7, <2>1, <2>2, <2>3
<1>10. ASSUME NEW m \in voteReqs, HandleRequestVote(n, m) PROVE VoteStep(n)
  <2>1. m.term \in Nat /\ m.from \in Node
    BY DEF TypeOK, RequestVoteArgs
  <2>2. TermAfter(n, m.term) = IF m.term > currentTerm[n] THEN m.term ELSE currentTerm[n]
    BY <2>1, AfterTypes
  <2> DEFINE t == TermAfter(n, m.term)
             granted == m.term = t /\ CanVote(n, m)
             v == IF granted THEN m.from ELSE VoteAfter(n, m.term)
  <2>3. /\ up[n]
        /\ currentTerm' = [currentTerm EXCEPT ![n] = t]
        /\ votedFor' = [votedFor EXCEPT ![n] = v]
        /\ IF granted \/ m.term > currentTerm[n] THEN Persist(n) ELSE disk' = disk
        /\ ballots' = IF granted THEN ballots \cup {<<n, t, m.from>>} ELSE ballots
    BY <1>10 DEF HandleRequestVote
  <2>4. granted => VoteAfter(n, m.term) \in {Nobody, m.from}
    BY DEF CanVote
  <2>5. VoteAfter(n, m.term) = IF m.term > currentTerm[n] THEN Nobody ELSE votedFor[n]
    BY DEF VoteAfter
  <2>6. Persist(n) => disk'[n].term = t /\ disk'[n].votedFor = v
    BY <1>3, <2>3
  <2>7. /\ t \in Nat
        /\ (m.term > currentTerm[n] /\ t > currentTerm[n])
             \/ (t = currentTerm[n] /\ ~ m.term > currentTerm[n])
    BY <1>1, <2>1, <2>2
  <2> HIDE DEF t
  <2>8. CASE granted
    <3>1. Persist(n) /\ v = m.from
      BY <2>3, <2>8
    <3>2. t > currentTerm[n] \/ (t = currentTerm[n] /\ votedFor[n] \in {Nobody, m.from})
      BY <2>4, <2>5, <2>7, <2>8
    <3> QED
      BY <1>6, <2>1, <2>3, <2>6, <2>7, <2>8, <3>1, <3>2
  <2>9. CASE ~ granted /\ m.term > currentTerm[n]
    BY <1>5, <2>3, <2>6, <2>7, <2>9
  <2>10. CASE ~ granted /\ ~ m.term > currentTerm[n]
    BY <1>8, <2>3, <2>10
  <2> QED
    BY <2>8, <2>9, <2>10
<1>11. ASSUME NEW r \in voteReps, RequestVoteReplied(n, r) PROVE VoteStep(n)
  <2>1. /\ up[n] /\ ballots' = ballots
        /\ currentTerm' = currentTerm /\ votedFor' = votedFor
        /\ Persist(n) \/ disk' = disk
    BY <1>11 DEF RequestVoteReplied, BecomeLeader
  <2>2. ASSUME Persist(n)
        PROVE  disk'[n].term = currentTerm[n] /\ disk'[n].votedFor = votedFor[n]
    <3>1. currentTerm'[n] = currentTerm[n] /\ votedFor'[n] = votedFor[n]
      BY <2>1
    <3> QED
      BY <1>1, <2>2, <3>1 DEF Persist
  <2> QED
    BY <1>4, <1>8, <2>1, <2>2
<1>12. ASSUME NEW r \in voteReps \cup appendReps, ReplyWithNewerTerm(n, r)
       PROVE  VoteStep(n)
  <2>1. /\ up[n] /\ r.term > currentTerm[n] /\ ballots' = ballots
        /\ currentTerm' = [currentTerm EXCEPT ![n] = r.term]
        /\ votedFor' = [votedFor EXCEPT ![n] = Nobody] /\ Persist(n)
    BY <1>12 DEF ReplyWithNewerTerm, history
  <2>2. disk'[n].term = r.term /\ r.term \in Nat
    BY <1>3, <2>1 DEF TypeOK, RequestVoteReply, AppendEntriesReply
  <2> QED
    BY <1>5, <2>1, <2>2
<1>13. ASSUME NEW c \in Command, Propose(n, c) PROVE VoteStep(n)
  <2>1. /\ up[n] /\ ballots' = ballots
        /\ currentTerm' = currentTerm /\ votedFor' = votedFor /\ Persist(n)
    BY <1>13 DEF Propose
  <2>2. disk'[n].term = currentTerm[n] /\ disk'[n].votedFor = votedFor[n]
    BY <1>1, <2>1 DEF Persist
  <2> QED
    BY <1>4, <2>1, <2>2
<1>14. ASSUME NEW m \in appendReqs, HandleAppendEntries(n, m) PROVE VoteStep(n)
  <2>1. m.term \in Nat
    BY DEF TypeOK, AppendEntriesArgs
  <2>2. TermAfter(n, m.term) = IF m.term > currentTerm[n] THEN m.term ELSE currentTerm[n]
    BY <2>1, AfterTypes
  <2>3. /\ up[n] /\ ballots' = ballots
        /\ currentTerm' = [currentTerm EXCEPT ![n] = TermAfter(n, m.term)]
        /\ votedFor' = [votedFor EXCEPT ![n] = VoteAfter(n, m.term)]
        /\ Persist(n) \/ (disk' = disk /\ ~ m.term > currentTerm[n])
    BY <1>14 DEF HandleAppendEntries, history
  <2>4. Persist(n) => /\ disk'[n].term = TermAfter(n, m.term)
                      /\ disk'[n].votedFor = VoteAfter(n, m.term)
    BY <1>3, <2>3
  <2>5. CASE Persist(n) /\ m.term > currentTerm[n]
    BY <1>5, <2>1, <2>2, <2>3, <2>4, <2>5
  <2>6. CASE Persist(n) /\ ~ m.term > currentTerm[n]
    <3>1. VoteAfter(n, m.term) = votedFor[n]
      BY <2>6 DEF VoteAfter
    <3> QED
      BY <1>4, <2>2, <2>3, <2>4, <2>6, <3>1
  <2> QED
    BY <1>8, <2>3, <2>5, <2>6
<1>15. ASSUME NEW r \in appendReps, AppendSucceeded(n, r) \/ AppendRefused(n, r)
       PROVE  VoteStep(n)
  BY <1>8, <1>15 DEF AppendSucceeded, AppendRefused, saved, history
<1>16. ASSUME NEW q \in Peers(n), ReplicateTo(n, q) PROVE VoteStep(n)
  BY <1>8, <1>16 DEF ReplicateTo, saved, history
<1>17. CASE Crash(n) \/ Restart(n)
  BY <1>8, <1>17 DEF Crash, Restart, saved, history
<1>18. CASE CrashBetweenSaves(n)
  <2>1. up[n]
    BY <1>18 DEF CrashBetweenSaves, LoseMemory
  <2>2. ASSUME NEW t, NEW v, disk' = [disk EXCEPT ![n] = [term |-> t, votedFor |-> v,
                                                          entries |-> log[n]]]
        PROVE  disk'[n].term = t /\ disk'[n].votedFor = v
    BY <1>1, <2>2
  <2>3. ASSUME NEW m \in voteReqs \cup appendReqs, m.term > currentTerm[n],
               disk' = [disk EXCEPT ![n] = [term |-> m.term, votedFor |-> Nobody,
                                            entries |-> log[n]]],
               ballots' = ballots
        PROVE  VoteStep(n)
    <3>1. m.term \in Nat
      BY DEF TypeOK, RequestVoteArgs, AppendEntriesArgs
    <3> QED
      BY <1>5, <2>1, <2>2, <2>3, <3>1
  <2>4. ASSUME disk' = [disk EXCEPT ![n] = [term |-> currentTerm[n] + 1,
                                            votedFor |-> n, entries |-> log[n]]],
               ballots' = ballots \cup {<<n, currentTerm[n] + 1, n>>}
        PROVE  VoteStep(n)
    BY <1>6, <1>7, <2>1, <2>2, <2>4
  <2> QED
    BY <1>18, <2>3, <2>4 DEF CrashBetweenSaves
<1> QED
  BY <1>9, <1>10, <1>11, <1>12, <1>13, <1>14, <1>15, <1>16, <1>17, <1>18
     DEF NodeStep

(* A node's ballots stay what its disk remembers. *)
LEMMA VoteKeepsBallots ==
  ASSUME TypeOK, TypeOK', BallotsKept, NEW n \in Node, VoteStep(n),
         \A p \in Node : p # n => disk'[p] = disk[p]
  PROVE  BallotsKept' /\ ballots \subseteq ballots'
<1>1. \A b \in ballots : b[1] \in Node /\ b[2] \in Nat /\ b[3] \in Node
  BY DEF TypeOK
<1>2. disk[n].term \in Nat /\ disk'[n].term \in Nat
  <2>1. disk' \in [Node -> PersistentState]
    BY DEF TypeOK
  <2> QED
    BY <2>1, NodeTypes DEF PersistentState
<1>3. ASSUME NEW b \in ballots
      PROVE  /\ b[2] <= disk'[b[1]].term
             /\ b[2] = disk'[b[1]].term => disk'[b[1]].votedFor = b[3]
  <2>1. /\ b[2] <= disk[b[1]].term
        /\ b[2] = disk[b[1]].term => disk[b[1]].votedFor = b[3]
    BY DEF BallotsKept
  <2>2. CASE b[1] # n
    BY <1>1, <2>1, <2>2
  <2>3. CASE b[1] = n
    <3>1. b[3] # Nobody
      BY <1>1, ConstantsAssumption
    <3> QED
      BY <1>1, <1>2, <2>1, <2>3, <3>1 DEF VoteStep, NoVote, Vote
  <2> QED
    BY <2>2, <2>3
<1>4. CASE ballots' = ballots
  BY <1>3, <1>4 DEF BallotsKept
<1>5. ASSUME NEW c \in Node, Vote(n, c) PROVE BallotsKept' /\ ballots \subseteq ballots'
  <2> DEFINE new == <<n, disk'[n].term, c>>
  <2>1. ballots' = ballots \cup {new} /\ disk'[n].votedFor = c
    BY <1>5 DEF Vote
  <2>2. new[1] = n /\ new[2] = disk'[n].term /\ new[3] = c
    OBVIOUS
  <2> HIDE DEF new
  <2>3. \A b \in ballots' : /\ b[2] <= disk'[b[1]].term
                            /\ b[2] = disk'[b[1]].term => disk'[b[1]].votedFor = b[3]
    BY <1>2, <1>3, <2>1, <2>2
  <2>4. \A b \in ballots : b[1] = n /\ b[2] = new[2] => b[3] = c
    BY <1>3, <2>1, <2>2
  <2>5. \A b, d \in ballots' : b[1] = d[1] /\ b[2] = d[2] => b[3] = d[3]
    BY <2>1, <2>2, <2>4 DEF BallotsKept
  <2> QED
    BY <2>1, <2>3, <2>5 DEF BallotsKept
<1> QED
  BY <1>4, <1>5 DEF VoteStep, NoVote

(* And so they do in a step of any node. *)
LEMMA BallotsKeptStep ==
  ASSUME TypeOK, TypeOK', Saved, BallotsKept, NEW n \in Node, NodeStep(n)
  PROVE  BallotsKept' /\ ballots \subseteq ballots'
BY SelfVote, VoteKeepsBallots, OthersUntouched DEF Untouched

-----------------------------------------------------------------------------
(* What a step of n can do to the RequestVote messages: take some out,     *)
(* answer one, or ask every peer in a new term.                            *)
TookVoteReps == voteReqs' = voteReqs /\ voteReps' \subseteq voteReps
Answered(n) ==
  \E m \in voteReqs, r \in RequestVoteReply :
    /\ r.req = m /\ m.to = n
    /\ voteReqs' = voteReqs \ {m} /\ voteReps' \subseteq voteReps \cup {r}
    /\ r.voteGranted => <<n, m.term, m.from>> \in ballots'
Asked(n) ==
  /\ ElectionTimeout(n)
  /\ up[n] /\ up'[n] /\ currentTerm'[n] = currentTerm[n] + 1
  /\ disk'[n].term = currentTerm'[n]
  /\ voteReps' = voteReps
  /\ \A m \in voteReqs' :
       \/ m \in voteReqs
       \/ /\ m = [from |-> n, boot |-> boot[n], to |-> m.to,
                  term |-> currentTerm[n] + 1, lastLogIndex |-> Len(log[n]),
                  lastLogTerm |-> LastTerm(log[n])]
          /\ m.to # n

(* Every step of n is one of these. *)
LEMMA SelfVoteNet ==
  ASSUME TypeOK, NEW n \in Node, NodeStep(n)
  PROVE  TookVoteReps \/ Answered(n) \/ Asked(n)
<1> DEFINE Goal == TookVoteReps \/ Answered(n) \/ Asked(n)
<1> USE DEF voteNet
<1>1. CASE ElectionTimeout(n)
  <2>1. CASE voteReqs' = voteReqs
    BY <1>1, <2>1 DEF ElectionTimeout, TookVoteReps
  <2>2. ASSUME voteReqs' = voteReqs \cup
             {[from |-> n, boot |-> boot[n], to |-> p, term |-> currentTerm'[n],
               lastLogIndex |-> Len(log[n]),
               lastLogTerm |-> LastTerm(log[n])] : p \in Peers(n)}
        PROVE  Asked(n)
    <3>1. /\ up[n] /\ up' = up /\ currentTerm'[n] = currentTerm[n] + 1
          /\ voteReps' = voteReps /\ Persist(n)
      BY <1>1 DEF ElectionTimeout, BecomeLeader, TypeOK
    <3>2. disk'[n].term = currentTerm'[n]
      BY <3>1 DEF Persist, TypeOK
    <3> QED
      BY SMTT(30), <1>1, <2>2, <3>1, <3>2 DEF Asked, Peers
  <2> QED
    BY <1>1, <2>1, <2>2 DEF ElectionTimeout
<1>2. ASSUME NEW m \in voteReqs, HandleRequestVote(n, m) PROVE Answered(n)
  <2> DEFINE term == TermAfter(n, m.term)
             granted == m.term = term /\ CanVote(n, m)
             r == [req |-> m, term |-> term, voteGranted |-> granted]
  <2>1. m.term \in Nat /\ m \in RequestVoteArgs
    BY DEF TypeOK, RequestVoteArgs
  <2>2. term \in Nat
    BY <2>1, AfterTypes
  <2>3. /\ m.to = n /\ voteReqs' = voteReqs \ {m}
        /\ voteReps' = voteReps \cup ToCaller(m, r)
        /\ granted => ballots' = ballots \cup {<<n, term, m.from>>}
    BY <1>2 DEF HandleRequestVote
  <2>4. granted \in BOOLEAN /\ (granted => term = m.term)
    BY DEF CanVote
  <2> HIDE DEF term, granted
  <2>5. r \in RequestVoteReply /\ r.req = m /\ r.voteGranted = granted
    BY <2>1, <2>2, <2>4 DEF RequestVoteReply
  <2> HIDE DEF r
  <2> QED
    BY <2>3, <2>4, <2>5 DEF Answered, ToCaller
<1>3. ASSUME NEW r \in voteReps, RequestVoteReplied(n, r) PROVE Goal
  BY <1>3 DEF RequestVoteReplied, TookVoteReps
<1>4. ASSUME NEW r \in voteReps \cup appendReps, ReplyWithNewerTerm(n, r) PROVE Goal
  BY <1>4 DEF ReplyWithNewerTerm, TookVoteReps
<1>5. ASSUME NEW c \in Command, Propose(n, c) PROVE Goal
  BY <1>5 DEF Propose, TookVoteReps
<1>6. ASSUME NEW q \in Peers(n), ReplicateTo(n, q) PROVE Goal
  BY <1>6 DEF ReplicateTo, TookVoteReps
<1>7. ASSUME NEW m \in appendReqs, HandleAppendEntries(n, m) PROVE Goal
  BY <1>7 DEF HandleAppendEntries, TookVoteReps
<1>8. ASSUME NEW r \in appendReps, AppendSucceeded(n, r) \/ AppendRefused(n, r)
      PROVE  Goal
  BY <1>8 DEF AppendSucceeded, AppendRefused, TookVoteReps
<1>9. CASE Crash(n) \/ CrashBetweenSaves(n) \/ Restart(n)
  BY <1>9 DEF Crash, CrashBetweenSaves, LoseMemory, Restart, TookVoteReps
<1> HIDE DEF Goal
<1> QED
  BY <1>1, <1>2, <1>3, <1>4, <1>5, <1>6, <1>7, <1>8, <1>9 DEF NodeStep, Goal

(* A vote is saved before the reply that grants it is sent. *)
LEMMA GrantsSavedStep ==
  ASSUME TypeOK, GrantsSaved, NEW n \in Node, NodeStep(n), ballots \subseteq ballots'
  PROVE  GrantsSaved'
<1>1. TookVoteReps \/ Answered(n) \/ Asked(n)
  BY SelfVoteNet
<1>2. CASE TookVoteReps \/ Asked(n)
  BY <1>2 DEF TookVoteReps, Asked, GrantsSaved
<1>3. CASE Answered(n)
  BY <1>3 DEF Answered, GrantsSaved
<1> QED
  BY <1>1, <1>2, <1>3

(* No RequestVote call is ever in the network twice. *)
LEMMA CallsOnceStep ==
  ASSUME TypeOK, TypeOK', Saved, CallsOnce, NEW n \in Node, NodeStep(n)
  PROVE  CallsOnce'
<1>1. TookVoteReps \/ Answered(n) \/ Asked(n)
  BY SelfVoteNet
<1>2. \A p \in Node : disk'[p].term >= disk[p].term
  BY SavedStep
<1>3. \A p \in Node : disk[p].term \in Nat /\ disk'[p].term \in Nat
  <2>1. disk' \in [Node -> PersistentState]
    BY DEF TypeOK
  <2> QED
    BY <2>1, NodeTypes DEF PersistentState
<1>4. ASSUME NEW m \in voteReqs
      PROVE  m.from \in Node /\ m.term \in Nat /\ m.to # m.from
               /\ m.term <= disk[m.from].term /\ m.term <= disk'[m.from].term
  <2>1. m.from \in Node /\ m.term \in Nat
    BY DEF TypeOK, RequestVoteArgs
  <2> QED
    BY <1>2, <1>3, <2>1 DEF CallsOnce
<1>5. ASSUME NEW r \in voteReps
      PROVE  r.req.from \in Node /\ r.req.term \in Nat /\ r.req.to # r.req.from
               /\ r.req.term <= disk[r.req.from].term
               /\ r.req.term <= disk'[r.req.from].term
  <2>1. r.req.from \in Node /\ r.req.term \in Nat
    BY DEF TypeOK, RequestVoteArgs, RequestVoteReply
  <2> QED
    BY <1>2, <1>3, <2>1 DEF CallsOnce
<1>6. CASE TookVoteReps
  BY <1>4, <1>5, <1>6 DEF TookVoteReps, CallsOnce
<1>7. CASE Answered(n)
  <2>1. PICK m \in voteReqs, r \in RequestVoteReply :
          /\ r.req = m
          /\ voteReqs' = voteReqs \ {m} /\ voteReps' \subseteq voteReps \cup {r}
    BY <1>7 DEF Answered
  <2>2. \A q \in voteReqs' : q \in voteReqs /\ ~ SameCall(q, r.req)
    BY <2>1 DEF CallsOnce, SameCall
  <2>3. \A s \in voteReps' : s = r \/ (s \in voteReps /\ ~ SameCall(r.req, s.req))
    BY <2>1 DEF CallsOnce, SameCall
  <2>4. \A s \in voteReps : ~ SameCall(s.req, r.req)
    BY <2>1 DEF CallsOnce, SameCall
  <2>5. \A q \in voteReqs' : q.term <= disk'[q.from].term /\ q.to # q.from
    BY <1>4, <2>2
  <2>6. \A s \in voteReps' : s.req.term <= disk'[s.req.from].term /\ s.req.to # s.req.from
    BY <1>4, <1>5, <2>1
  <2>7. \A q, u \in voteReqs' : SameCall(q, u) => q = u
    BY <2>1 DEF CallsOnce
  <2>8. \A q, u \in voteReps' : SameCall(q.req, u.req) => q = u
    BY <2>3, <2>4 DEF CallsOnce
  <2>9. \A q \in voteReqs', s \in voteReps' : ~ SameCall(q, s.req)
    BY <2>2, <2>3 DEF CallsOnce
  <2> QED
    BY <2>5, <2>6, <2>7, <2>8, <2>9 DEF CallsOnce
<1>8. CASE Asked(n)
  <2> DEFINE T == currentTerm[n] + 1
  <2>1. T \in Nat /\ T > disk[n].term /\ T <= disk'[n].term
    BY SMTT(30), <1>3, <1>8, NodeTypes DEF Asked, Saved, SavedAt
  <2> HIDE DEF T
  <2>2. ASSUME NEW m \in voteReqs' \ voteReqs
        PROVE  /\ m.from = n /\ m.term = T /\ m.to # n
               /\ m = [from |-> n, boot |-> boot[n], to |-> m.to, term |-> T,
                       lastLogIndex |-> Len(log[n]), lastLogTerm |-> LastTerm(log[n])]
    BY <1>8 DEF Asked, T
  <2>3. \A m \in voteReqs : ~ (m.from = n /\ m.term = T)
    BY <1>3, <1>4, <2>1
  <2>4. \A r \in voteReps : ~ (r.req.from = n /\ r.req.term = T)
    BY <1>3, <1>5, <2>1
  <2>5. voteReps' = voteReps
    BY <1>8 DEF Asked
  <2>6. \A m \in voteReqs' : m.term <= disk'[m.from].term /\ m.to # m.from
    BY <1>4, <2>1, <2>2
  <2>7. \A m, q \in voteReqs' : SameCall(m, q) => m = q
    <3> SUFFICES ASSUME NEW m \in voteReqs', NEW q \in voteReqs', SameCall(m, q)
                 PROVE  m = q
      OBVIOUS
    <3>1. CASE m \in voteReqs /\ q \in voteReqs
      BY <3>1 DEF CallsOnce
    <3>2. CASE m \notin voteReqs /\ q \notin voteReqs
      BY <2>2, <3>2 DEF SameCall
    <3> QED
      BY <2>2, <2>3, <3>1, <3>2 DEF SameCall
  <2>8. \A m \in voteReqs', r \in voteReps' : ~ SameCall(m, r.req)
    BY <2>2, <2>4, <2>5 DEF SameCall, CallsOnce
  <2> QED
    BY <1>5, <2>5, <2>6, <2>7, <2>8 DEF CallsOnce
<1> QED
  BY <1>1, <1>6, <1>7, <1>8

-----------------------------------------------------------------------------
(* A step of n that neither starts an election nor counts a vote elects    *)
(* nobody, and leaves what n counted as a candidate alone.                 *)
LEMMA NoCount ==
  ASSUME TypeOK, NEW n \in Node, NodeStep(n), ~ ElectionTimeout(n),
         \A r \in voteReps : ~ RequestVoteReplied(n, r)
  PROVE  /\ leaders' = leaders
         /\ role'[n] = Candidate =>
              /\ role[n] = Candidate /\ currentTerm'[n] = currentTerm[n]
              /\ votes'[n] = votes[n]
<1> DEFINE Goal == /\ leaders' = leaders
                   /\ role'[n] = Candidate =>
                        /\ role[n] = Candidate /\ currentTerm'[n] = currentTerm[n]
                        /\ votes'[n] = votes[n]
<1>1. /\ currentTerm[n] \in Nat /\ DOMAIN role = Node /\ DOMAIN currentTerm = Node
  BY NodeTypes DEF TypeOK
<1> USE DEF saved, volatile, history, Follower, Leader, Candidate
<1>2. ASSUME NEW m \in voteReqs, HandleRequestVote(n, m) PROVE Goal
  <2>1. m.term \in Nat
    BY DEF TypeOK, RequestVoteArgs
  <2>2. TermAfter(n, m.term) = IF m.term > currentTerm[n] THEN m.term ELSE currentTerm[n]
    BY <2>1, AfterTypes
  <2> QED
    BY <1>1, <1>2, <2>1, <2>2 DEF HandleRequestVote, RoleAfter
<1>3. ASSUME NEW r \in voteReps \cup appendReps, ReplyWithNewerTerm(n, r) PROVE Goal
  BY <1>1, <1>3 DEF ReplyWithNewerTerm
<1>4. ASSUME NEW c \in Command, Propose(n, c) PROVE Goal
  BY <1>4 DEF Propose
<1>5. ASSUME NEW q \in Peers(n), ReplicateTo(n, q) PROVE Goal
  BY <1>5 DEF ReplicateTo
<1>6. ASSUME NEW m \in appendReqs, HandleAppendEntries(n, m) PROVE Goal
  <2>1. m.term \in Nat
    BY DEF TypeOK, AppendEntriesArgs
  <2>2. TermAfter(n, m.term) = IF m.term > currentTerm[n] THEN m.term ELSE currentTerm[n]
    BY <2>1, AfterTypes
  <2> QED
    BY <1>1, <1>6, <2>1, <2>2 DEF HandleAppendEntries
<1>7. ASSUME NEW r \in appendReps, AppendSucceeded(n, r) \/ AppendRefused(n, r)
      PROVE  Goal
  BY <1>7 DEF AppendSucceeded, AppendRefused
<1>8. ASSUME Crash(n) \/ CrashBetweenSaves(n) PROVE Goal
  BY <1>1, <1>8 DEF Crash, CrashBetweenSaves, LoseMemory
<1>9. ASSUME Restart(n) PROVE Goal
  BY <1>9 DEF Restart, TypeOK
<1> HIDE DEF Goal
<1>10. Goal
  BY <1>2, <1>3, <1>4, <1>5, <1>6, <1>7, <1>8, <1>9 DEF NodeStep
<1> QED
  BY <1>10 DEF Goal

(* Nodes of which a candidate has nothing more to expect remain such       *)
(* nodes, unless the candidate asks again.                                 *)
LEMMA HeardKept ==
  ASSUME TypeOK, NEW n \in Node, NodeStep(n),
         NEW p \in Node, NEW t \in Nat, NEW S \in SUBSET Node,
         p # n \/ ~ ElectionTimeout(n), Heard(S, p, t)
  PROVE  Heard(S, p, t)'
<1>1. CASE TookVoteReps
  BY <1>1 DEF TookVoteReps, Heard
<1>2. CASE Answered(n)
  BY <1>2 DEF Answered, Heard
<1>3. CASE Asked(n)
  BY SMTT(30), <1>3 DEF Asked, Heard
<1> QED
  BY <1>1, <1>2, <1>3, SelfVoteNet

(* So what a candidate has counted stays counted, and who expects nothing  *)
(* goes on expecting nothing.                                              *)
LEMMA CountKept ==
  ASSUME TypeOK, NEW n \in Node, NodeStep(n), ballots \subseteq ballots',
         NEW p \in Node, role'[p] = Candidate,
         p = n => /\ ~ ElectionTimeout(n)
                  /\ \A r \in voteReps : ~ RequestVoteReplied(n, r)
  PROVE  /\ role[p] = Candidate
         /\ VotesCounted(p) => VotesCounted(p)'
         /\ Heard(Node, p, currentTerm[p]) => Heard(Node, p, currentTerm[p])'
<1>1. /\ role[p] = Candidate /\ votes'[p] = votes[p]
      /\ currentTerm'[p] = currentTerm[p]
  <2>1. CASE p = n
    BY <2>1, NoCount
  <2>2. CASE p # n
    BY <2>2, OthersUntouched DEF Untouched
  <2> QED
    BY <2>1, <2>2
<1>2. PICK t \in Nat : t = currentTerm[p]
  BY NodeTypes
<1>3. \A S \in SUBSET Node : Heard(S, p, t) => Heard(S, p, t)'
  BY HeardKept
<1>4. ASSUME NEW S \in SUBSET Node, Heard(S, p, currentTerm[p])
      PROVE  Heard(S, p, currentTerm[p])'
  <2>1. Heard(S, p, t)
    BY <1>2, <1>4
  <2>2. Heard(S, p, t)'
    BY <1>3, <2>1
  <2> QED
    BY <1>1, <1>2, <2>2 DEF Heard
<1>5. ASSUME VotesCounted(p) PROVE VotesCounted(p)'
  <2>1. PICK S \in SUBSET Node :
          /\ Cardinality(S) = votes[p]
          /\ VotedFor(S, p, currentTerm[p]) /\ Heard(S, p, currentTerm[p])
    BY <1>5 DEF VotesCounted
  <2>2. VotedFor(S, p, currentTerm[p])'
    BY <1>1, <2>1 DEF VotedFor
  <2>3. Heard(S, p, currentTerm[p])'
    BY <1>4, <2>1
  <2> QED
    BY <1>1, <2>1, <2>2, <2>3 DEF VotesCounted
<1>6. Node \in SUBSET Node
  OBVIOUS
<1> QED
  BY <1>1, <1>4, <1>5, <1>6

(* The votes n has are those of S and, once it takes reply r, one more. *)
LEMMA CountOneMore ==
  ASSUME TypeOK, GrantsSaved, CallsOnce, NEW n \in Node, NEW r \in voteReps,
         RequestVoteReplied(n, r), ballots \subseteq ballots',
         NEW S \in SUBSET Node, Cardinality(S) = votes[n],
         VotedFor(S, n, currentTerm[n]), Heard(S, n, currentTerm[n])
  PROVE  \E T \in SUBSET Node :
           /\ Cardinality(T) = votes[n] + 1
           /\ VotedFor(T, n, currentTerm[n])' /\ Heard(T, n, currentTerm[n])'
<1> DEFINE v == r.req.to
           T == S \cup {v}
<1>1. /\ r.req.from = n /\ r.req.term = currentTerm[n] /\ r.voteGranted
      /\ voteReps' = voteReps \ {r} /\ voteReqs' = voteReqs
      /\ currentTerm' = currentTerm
  BY DEF RequestVoteReplied, StillRunning
<1>2. v \in Node /\ v \notin S
  BY <1>1 DEF TypeOK, RequestVoteReply, RequestVoteArgs, Heard
<1>3. <<v, currentTerm[n], n>> \in ballots
  BY <1>1 DEF GrantsSaved
<1>4. \A m \in voteReqs : m.from = n /\ m.term = currentTerm[n] => m.to # v
  BY <1>1 DEF CallsOnce, SameCall
<1>5. \A s \in voteReps : s # r =>
        ~ (s.req.from = n /\ s.req.term = currentTerm[n] /\ s.req.to = v)
  BY <1>1 DEF CallsOnce, SameCall
<1> HIDE DEF v
<1>6. IsFiniteSet(S)
  BY FS_Subset, ConstantsAssumption
<1>7. T \in SUBSET Node /\ Cardinality(T) = votes[n] + 1
  BY <1>2, <1>6, FS_AddElement
<1>8. VotedFor(T, n, currentTerm[n])'
  BY <1>1, <1>3 DEF VotedFor
<1>9. Heard(T, n, currentTerm[n])'
  BY <1>1, <1>4, <1>5 DEF Heard
<1> HIDE DEF T
<1> QED
  BY <1>7, <1>8, <1>9

(* The candidate's own vote is the first one it counts. *)
LEMMA CountOne ==
  ASSUME TypeOK, CallsOnce', NEW n \in Node, ElectionTimeout(n)
  PROVE  /\ votes'[n] = 1 /\ Cardinality({n}) = 1
         /\ VotedFor({n}, n, currentTerm[n])' /\ Heard({n}, n, currentTerm[n])'
<1>1. votes'[n] = 1 /\ <<n, currentTerm'[n], n>> \in ballots'
  BY DEF ElectionTimeout, TypeOK
<1>2. Cardinality({n}) = 1
  BY FS_Singleton
<1>3. Heard({n}, n, currentTerm[n])'
  BY DEF CallsOnce, Heard
<1> QED
  BY <1>1, <1>2, <1>3 DEF VotedFor

(* A new leader counted a quorum; everybody else's count goes on. *)
LEMMA CountsSoundStep ==
  ASSUME TypeOK, GrantsSaved, CallsOnce, CallsOnce', CountsSound,
         NEW n \in Node, NodeStep(n), ballots \subseteq ballots'
  PROVE  CountsSound' /\ (CountsTrue => CountsTrue')
<1> DEFINE Idle(p) == Heard(Node, p, currentTerm[p])
           Tells(p) == VotesCounted(p)' \/ (role[p] = Candidate /\ ~ VotesCounted(p) /\ Idle(p)')
<1>1. ASSUME NEW x \in leaders PROVE HasQuorum(x)'
  BY DEF CountsSound, HasQuorum, VotedFor
<1>2. ASSUME NEW p \in Node, role'[p] = Candidate,
             p = n => /\ ~ ElectionTimeout(n)
                      /\ \A r \in voteReps : ~ RequestVoteReplied(n, r)
      PROVE  Tells(p)
  <2>1. /\ role[p] = Candidate /\ (VotesCounted(p) => VotesCounted(p)')
        /\ (Idle(p) => Idle(p)')
    BY <1>2, CountKept
  <2>2. VotesCounted(p) \/ Idle(p)
    BY <2>1 DEF CountsSound
  <2> QED
    BY <2>1, <2>2
<1> HIDE DEF Tells
<1>3. ASSUME \A p \in Node : role'[p] = Candidate => Tells(p),
             \A x \in leaders' : HasQuorum(x)'
      PROVE  CountsSound' /\ (CountsTrue => CountsTrue')
  BY <1>3 DEF CountsSound, CountsTrue, Tells
<1>4. CASE ElectionTimeout(n)
  <2>1. /\ votes'[n] = 1 /\ Cardinality({n}) = 1
        /\ VotedFor({n}, n, currentTerm[n])' /\ Heard({n}, n, currentTerm[n])'
    BY <1>4, CountOne
  <2>2. Tells(n)
    BY <2>1 DEF VotesCounted, Tells
  <2>3. leaders' = leaders \/ (leaders' = leaders \cup {<<n, currentTerm'[n]>>} /\ Quorum <= 1)
    BY <1>4 DEF ElectionTimeout, BecomeLeader
  <2>4. ASSUME NEW x, x = <<n, currentTerm'[n]>>, Quorum <= 1 PROVE HasQuorum(x)'
    <3>1. Cardinality({n}) >= Quorum
      BY <2>1, <2>4
    <3>2. VotedFor({n}, x[1], x[2])'
      BY <2>1, <2>4 DEF VotedFor
    <3> QED
      BY <3>1, <3>2 DEF HasQuorum
  <2>5. \A p \in Node : role'[p] = Candidate => Tells(p)
    BY <1>2, <2>2
  <2>6. \A x \in leaders' : HasQuorum(x)'
    BY <1>1, <2>3, <2>4
  <2> QED
    BY <1>3, <2>5, <2>6
<1>5. ASSUME NEW r \in voteReps, RequestVoteReplied(n, r)
      PROVE  CountsSound' /\ (CountsTrue => CountsTrue')
  <2>1. /\ role[n] = Candidate /\ currentTerm' = currentTerm
        /\ votes'[n] = votes[n] + 1
        /\ r.req.from = n /\ r.req.term = currentTerm[n] /\ r.req.to \in Node
    BY <1>5 DEF RequestVoteReplied, StillRunning, TypeOK, RequestVoteReply, RequestVoteArgs
  <2>2. VotesCounted(n)
    BY <2>1 DEF CountsSound, Heard
  <2>3. PICK S \in SUBSET Node :
          /\ Cardinality(S) = votes[n]
          /\ VotedFor(S, n, currentTerm[n]) /\ Heard(S, n, currentTerm[n])
    BY <2>2 DEF VotesCounted
  <2>4. VotesCounted(n)'
    BY <1>5, <2>1, <2>3, CountOneMore DEF VotesCounted
  <2>5. \/ leaders' = leaders
        \/ leaders' = leaders \cup {<<n, currentTerm'[n]>>} /\ votes'[n] >= Quorum
    BY <1>5, <2>1 DEF RequestVoteReplied, BecomeLeader
  <2>6. ASSUME NEW x, x = <<n, currentTerm'[n]>>, votes'[n] >= Quorum PROVE HasQuorum(x)'
    BY <2>4, <2>6 DEF VotesCounted, HasQuorum, VotedFor
  <2>7. Tells(n)
    BY <2>4 DEF Tells
  <2>8. \A p \in Node : role'[p] = Candidate => Tells(p)
    BY <1>2, <2>7
  <2>9. \A x \in leaders' : HasQuorum(x)'
    BY <1>1, <2>5, <2>6
  <2> QED
    BY <1>3, <2>8, <2>9
<1>6. ASSUME ~ ElectionTimeout(n), \A r \in voteReps : ~ RequestVoteReplied(n, r)
      PROVE  CountsSound' /\ (CountsTrue => CountsTrue')
  <2>1. leaders' = leaders
    BY <1>6, NoCount
  <2>2. \A p \in Node : role'[p] = Candidate => Tells(p)
    BY <1>2, <1>6
  <2> QED
    BY <1>1, <1>3, <2>1, <2>2
<1> QED
  BY <1>4, <1>5, <1>6

-----------------------------------------------------------------------------
(* The initial state satisfies the structural invariant. *)
LEMMA StructureInit == Init => StructureInv
<1> SUFFICES ASSUME Init PROVE StructureInv
  OBVIOUS
<1>1. TypeOK
  <2>1. <<>> \in Seq(Entry)
    OBVIOUS
  <2>2. disk \in [Node -> PersistentState]
    BY <2>1 DEF Init, PersistentState
  <2>3. crashes \in 0 .. MaxCrashes
    BY ConstantsAssumption DEF Init
  <2> QED
    BY <2>1, <2>2, <2>3 DEF Init, TypeOK
<1>2. Synced
  BY DEF Init, Synced, SyncedAt
<1>3. LeadersKnown /\ NextIndexInLog /\ LeaderIDElected
  BY DEF Init, LeadersKnown, LeadersSaved, NextIndexInLog, LeaderIDElected, Follower, Leader, Candidate
<1>4. AppendsFromLeaders
  BY DEF Init, AppendsFromLeaders
<1> QED
  BY <1>1, <1>2, <1>3, <1>4 DEF StructureInv

(* A failed RPC only takes a message out of the network. *)
LEMMA AppendLostStructure ==
  ASSUME StructureInv, AppendLost
  PROVE  StructureInv'
<1> USE DEF StructureInv
<1>1. TypeOK'
  BY AppendLostType
<1>2. Synced'
  BY DEF AppendLost, Synced, SyncedAt, saved
<1>3. LeadersKnown' /\ NextIndexInLog' /\ LeaderIDElected'
  BY DEF AppendLost, LeadersKnown, LeadersSaved, NextIndexInLog, LeaderIDElected,
         saved, volatile, progress, history
<1>4. \A m : AppendFrom(m) => AppendFrom(m)'
  BY DEF AppendLost, AppendFrom, saved, volatile, history
<1>5. appendReqs' \subseteq appendReqs /\ appendReps' \subseteq appendReps
  BY DEF AppendLost
<1>6. AppendsFromLeaders'
  BY <1>4, <1>5 DEF AppendsFromLeaders
<1> QED
  BY <1>1, <1>2, <1>3, <1>6

(* After a step of a node, nextIndex still points into the leaders' logs   *)
(* and the named leaders are still those elected.                          *)
LEMMA NodeStepNames ==
  ASSUME TypeOK, TypeOK', AppendsFromLeaders, NextIndexInLog, LeaderIDElected,
         NEW n \in Node, NodeStep(n), leaders \subseteq leaders'
  PROVE  NextIndexInLog' /\ LeaderIDElected'
<1>1. NextIndexInLog'
  <2> SUFFICES ASSUME NEW p \in Node, role'[p] = Leader, NEW q \in Peers(p)
               PROVE  nextIndex'[p][q] \in 1 .. Len(log'[p]) + 1
    BY DEF NextIndexInLog
  <2>1. CASE p = n
    BY <2>1, SelfNextIndex
  <2>2. CASE p # n
    BY <2>2, OthersUntouched DEF Untouched, NextIndexInLog
  <2> QED
    BY <2>1, <2>2
<1>2. LeaderIDElected'
  <2> SUFFICES ASSUME NEW p \in Node, leaderID'[p] # Nobody
               PROVE  <<leaderID'[p], currentTerm'[p]>> \in leaders'
    BY DEF LeaderIDElected
  <2>1. CASE p = n
    BY <2>1, SelfLeaderID
  <2>2. CASE p # n
    BY <2>2, OthersUntouched DEF Untouched, LeaderIDElected
  <2> QED
    BY <2>1, <2>2
<1> QED
  BY <1>1, <1>2

(* A step of a node keeps the structural invariant. *)
LEMMA NodeStepStructure ==
  ASSUME StructureInv, NEW n \in Node, NodeStep(n)
  PROVE  StructureInv'
<1> USE DEF StructureInv
<1>1. TypeOK'
  BY TypeStep DEF Next
<1>2. Synced'
  BY SyncedStep
<1>3. LeadersKnown' /\ leaders \subseteq leaders'
  BY <1>1, LeadersKnownStep
<1>4. AppendsFromLeaders'
  <2>1. Saved /\ LeadersSaved /\ LoopsKeepToTheirTerm
    BY SyncedIsSaved, LeadersSendForTheirTerm DEF LeadersKnown
  <2> QED
    BY <1>1, <2>1, AppendsFromLeadersStep
<1>5. NextIndexInLog' /\ LeaderIDElected'
  BY <1>1, <1>3, NodeStepNames
<1> QED
  BY <1>1, <1>2, <1>3, <1>4, <1>5

(* A step that changes nothing keeps the structural invariant. *)
LEMMA StutterStructure ==
  ASSUME StructureInv, UNCHANGED vars
  PROVE  StructureInv'
<1> USE DEF StructureInv, vars, saved, volatile, progress, voteNet, appendNet, history
<1>1. TypeOK'
  BY DEF TypeOK
<1>2. Synced' /\ LeadersKnown'
  BY DEF Synced, SyncedAt, LeadersKnown, LeadersSaved
<1>3. AppendsFromLeaders'
  BY DEF AppendsFromLeaders, AppendFrom
<1>4. NextIndexInLog' /\ LeaderIDElected'
  BY DEF NextIndexInLog, LeaderIDElected
<1> QED
  BY <1>1, <1>2, <1>3, <1>4

(* The structural invariant is inductive. *)
LEMMA StructureStep == StructureInv /\ [Next]_vars => StructureInv'
BY AppendLostStructure, NodeStepStructure, StutterStructure DEF Next

(* Nothing a cluster of any size can do breaks the types: in particular no *)
(* handler leaves a negative index, a vote for a node that does not exist  *)
(* or a stopped process that remembers more than its disk.                 *)
THEOREM TypeCorrect == Spec => []TypeOK
<1>1. StructureInv => TypeOK
  BY DEF StructureInv
<1> QED
  BY <1>1, StructureInit, StructureStep, PTL DEF Spec

(* A leader's nextIndex points into its log or just after it in every      *)
(* state, so replicateTo never reads past either end of the log.           *)
THEOREM NextIndexStaysInLog == Spec => []NextIndexInLog
<1>1. StructureInv => NextIndexInLog
  BY DEF StructureInv
<1> QED
  BY <1>1, StructureInit, StructureStep, PTL DEF Spec

(* Whoever a node names as the leader was elected in the node's term.      *)
THEOREM NamedLeaderElected == Spec => []LeaderIDElected
<1>1. StructureInv => LeaderIDElected
  BY DEF StructureInv
<1> QED
  BY <1>1, StructureInit, StructureStep, PTL DEF Spec

-----------------------------------------------------------------------------
(* The initial state satisfies the election invariant. *)
LEMMA ElectionInit == Init => ElectionInv
<1> SUFFICES ASSUME Init PROVE ElectionInv
  OBVIOUS
<1>1. BallotsKept /\ GrantsSaved /\ CallsOnce
  BY DEF Init, BallotsKept, GrantsSaved, CallsOnce
<1>2. CountsTrue
  BY DEF Init, CountsTrue, Follower, Candidate
<1> QED
  BY <1>1, <1>2 DEF ElectionInv

(* A step that touches no vote, no RequestVote message and no role keeps   *)
(* the election invariant.                                                 *)
LEMMA ElectionUnchanged ==
  ASSUME ElectionInv,
         UNCHANGED <<saved, volatile, votes, voteNet, history>>
  PROVE  ElectionInv'
<1> USE DEF ElectionInv, saved, volatile, voteNet, history
<1>1. BallotsKept' /\ GrantsSaved' /\ CallsOnce'
  BY DEF BallotsKept, GrantsSaved, CallsOnce
<1>2. CountsTrue'
  BY DEF CountsTrue, VotesCounted, HasQuorum, VotedFor, Heard
<1> QED
  BY <1>1, <1>2

(* A step of a node keeps the election invariant. *)
LEMMA NodeStepElection ==
  ASSUME Inv, NEW n \in Node, NodeStep(n)
  PROVE  ElectionInv'
<1> USE DEF Inv, StructureInv, ElectionInv
<1>1. TypeOK'
  BY TypeStep DEF Next
<1>2. Saved
  BY SyncedIsSaved
<1>3. BallotsKept' /\ ballots \subseteq ballots'
  BY <1>1, <1>2, BallotsKeptStep
<1>4. GrantsSaved'
  BY <1>3, GrantsSavedStep
<1>5. CallsOnce'
  BY <1>1, <1>2, CallsOnceStep
<1>6. CountsTrue'
  <2>1. CountsSound
    BY DEF CountsTrue, CountsSound
  <2> QED
    BY <1>3, <1>5, <2>1, CountsSoundStep
<1> QED
  BY <1>3, <1>4, <1>5, <1>6

(* The invariant is inductive. *)
LEMMA InvStep == Inv /\ [Next]_vars => Inv'
<1> SUFFICES ASSUME Inv, [Next]_vars PROVE Inv'
  OBVIOUS
<1>1. StructureInv'
  BY StructureStep DEF Inv
<1>2. CASE AppendLost
  BY <1>1, <1>2, ElectionUnchanged DEF AppendLost, Inv
<1>3. CASE UNCHANGED vars
  BY <1>1, <1>3, ElectionUnchanged DEF vars, Inv
<1>4. ASSUME NEW n \in Node, NodeStep(n) PROVE Inv'
  BY <1>1, <1>4, NodeStepElection DEF Inv
<1> QED
  BY <1>2, <1>3, <1>4 DEF Next

(* Two quorums of one cluster share a node. *)
LEMMA QuorumsMeet ==
  ASSUME NEW S \in SUBSET Node, NEW T \in SUBSET Node,
         Cardinality(S) >= Quorum, Cardinality(T) >= Quorum
  PROVE  S \cap T # {}
<1>1. /\ Cardinality(Node) \in Nat /\ Cardinality(S) \in Nat /\ Cardinality(T) \in Nat
  <2>1. IsFiniteSet(S) /\ IsFiniteSet(T) /\ IsFiniteSet(Node)
    BY FS_Subset, ConstantsAssumption
  <2> QED
    BY <2>1, FS_CardinalityType
<1>2. Cardinality(S) + Cardinality(T) > Cardinality(Node)
  BY <1>1 DEF Quorum
<1> QED
  BY <1>2, FS_MajoritiesIntersect, ConstantsAssumption

(* The invariant holds initially. *)
LEMMA InvInit == Init => Inv
BY StructureInit, ElectionInit DEF Inv

(* Two leaders of a term had quorums that share a voter, and that voter's  *)
(* disk remembers one vote in the term.                                    *)
LEMMA QuorumsElectOne ==
  ASSUME BallotsKept, \A x \in leaders : HasQuorum(x)
  PROVE  ElectionSafety
<1> SUFFICES ASSUME NEW x \in leaders, NEW y \in leaders, x[2] = y[2]
             PROVE  x[1] = y[1]
  BY DEF ElectionSafety
<1>1. PICK S \in SUBSET Node : Cardinality(S) >= Quorum /\ VotedFor(S, x[1], x[2])
  BY DEF HasQuorum
<1>2. PICK T \in SUBSET Node : Cardinality(T) >= Quorum /\ VotedFor(T, y[1], y[2])
  BY DEF HasQuorum
<1>3. PICK v : v \in S /\ v \in T
  BY <1>1, <1>2, QuorumsMeet
<1>4. <<v, x[2], x[1]>> \in ballots /\ <<v, x[2], y[1]>> \in ballots
  BY <1>1, <1>2, <1>3 DEF VotedFor
<1> QED
  BY <1>4 DEF BallotsKept

(* So the invariant allows one leader in a term. *)
LEMMA InvOneLeader == Inv => ElectionSafety
BY QuorumsElectOne DEF Inv, ElectionInv, CountsTrue

(* The same of the state a step ends in. *)
LEMMA InvOneLeaderNext == Inv' => ElectionSafety'
BY InvOneLeader, PTL

(* At most one leader is elected in a term: in a cluster of any size, with *)
(* any number of elections, crashes and lost or late messages.             *)
THEOREM OneLeaderPerTerm == Spec => []ElectionSafety
BY InvInit, InvStep, InvOneLeader, PTL DEF Spec

(* No step of any node, crash or restart takes back what a disk promised:  *)
(* terms do not decrease and a vote stays with its candidate.              *)
THEOREM VotesAreKept == Spec => VoteIsKept
<1>1. StructureInv /\ [Next]_vars => [\A n \in Node : VoteKept(n)]_vars
  <2> SUFFICES ASSUME StructureInv, Next, NEW p \in Node PROVE VoteKept(p)
    OBVIOUS
  <2>1. disk[p].term \in Nat
    BY NodeTypes DEF StructureInv
  <2>2. CASE disk'[p] = disk[p]
    BY <2>1, <2>2 DEF VoteKept
  <2>3. ASSUME NEW n \in Node, NodeStep(n) PROVE VoteKept(p)
    <3>1. CASE p # n
      BY <2>2, <2>3, <3>1, OthersUntouched DEF StructureInv, Untouched
    <3>2. CASE p = n
      <4>1. VoteStep(n) /\ disk'[n].term >= disk[n].term
        BY <2>3, SyncedIsSaved, SelfVote, SelfSaved DEF StructureInv
      <4>2. NodeStep(n) => disk'[n].term \in Nat
        BY TypeStep DEF StructureInv, TypeOK, PersistentState, Next
      <4> QED
        BY SMTT(30), <2>1, <2>3, <3>2, <4>1, <4>2 DEF VoteStep, NoVote, Vote, VoteKept
    <3> QED
      BY <3>1, <3>2
  <2>4. CASE AppendLost
    BY <2>2, <2>4 DEF AppendLost, saved
  <2> QED
    BY <2>3, <2>4 DEF Next
<1> QED
  BY <1>1, StructureInit, StructureStep, PTL DEF Spec, VoteIsKept

(* The votes a candidate counts are votes that were saved for it, and      *)
(* every leader ever elected had a quorum of them.                         *)
THEOREM CountsAreTrue == Spec => []CountsTrue
<1>1. Inv => CountsTrue
  BY DEF Inv, ElectionInv
<1> QED
  BY <1>1, InvInit, InvStep, PTL DEF Spec

-----------------------------------------------------------------------------
(* Failing saves, RaftPanic. *)

(* What a handler of n that panics leaves behind: its term does not        *)
(* decrease, it stays in its role with its log or follows, no other vote   *)
(* of its term is forgotten, the disk holds one of the states it could     *)
(* hold after each of the handler's saves, and nothing was sent.           *)
Panicked(n) ==
  /\ up[n] /\ UNCHANGED <<up, progress, votes, boot, voteReps, appendReps, history>>
  /\ \A p \in Node : p # n => Untouched(p)
  /\ voteReqs' \subseteq voteReqs /\ appendReqs' \subseteq appendReqs
  /\ currentTerm'[n] >= currentTerm[n]
  /\ role'[n] = Follower \/ (role'[n] = role[n] /\ log'[n] = log[n])
  /\ currentTerm'[n] = currentTerm[n] => votedFor[n] \in {Nobody, votedFor'[n]}
  /\ \/ disk'[n] = disk[n]
     \/ disk'[n].term = currentTerm'[n] /\ disk'[n].votedFor = votedFor'[n]
     \/ disk'[n].term = currentTerm'[n] /\ disk'[n].term > currentTerm[n]
          /\ disk'[n].votedFor = Nobody
  /\ \/ leaderID'[n] = Nobody
     \/ leaderID'[n] = leaderID[n] /\ currentTerm'[n] = currentTerm[n]
     \/ <<leaderID'[n], currentTerm'[n]>> \in leaders

(* A failed save leaves the disk of n as d, or as persist would. *)
LEMMA SaveFailedDisk ==
  ASSUME TypeOK, NEW n \in Node, NEW d \in [Node -> PersistentState],
         SaveFailed(n, d), \A p \in Node : p # n => d[p] = disk[p],
         currentTerm' \in [Node -> Nat],
         votedFor' \in [Node -> Node \cup {Nobody}],
         log' \in [Node -> Seq(Entry)]
  PROVE  /\ disk' \in [Node -> PersistentState]
         /\ \A p \in Node : p # n => disk'[p] = disk[p]
         /\ \/ disk'[n] = d[n]
            \/ disk'[n].term = currentTerm'[n] /\ disk'[n].votedFor = votedFor'[n]
<1>1. CASE disk' = d
  BY <1>1
<1>2. CASE Persist(n)
  <2>1. /\ disk' \in [Node -> PersistentState]
        /\ disk'[n] = [term |-> currentTerm'[n], votedFor |-> votedFor'[n],
                       entries |-> log'[n]]
        /\ \A p \in Node : p # n => disk'[p] = disk[p]
    BY Zenon, <1>2, PersistType
  <2>2. disk'[n].term = currentTerm'[n] /\ disk'[n].votedFor = votedFor'[n]
    BY <2>1
  <2> QED
    BY <2>1, <2>2
<1> QED
  BY <1>1, <1>2 DEF SaveFailed

(* What observeTerm leaves on disk. *)
LEMMA ObservedDisk ==
  ASSUME TypeOK, NEW n \in Node, NEW t \in Nat, t >= currentTerm[n]
  PROVE  /\ Observed(n, t) \in [Node -> PersistentState]
         /\ \A p \in Node : p # n => Observed(n, t)[p] = disk[p]
         /\ \/ Observed(n, t)[n] = disk[n]
            \/ /\ t > currentTerm[n]
               /\ Observed(n, t)[n].term = t /\ Observed(n, t)[n].votedFor = Nobody
<1>1. disk \in [Node -> PersistentState] /\ log[n] \in Seq(Entry)
  BY DEF TypeOK
<1>2. CASE t > currentTerm[n]
  <2> DEFINE e == [term |-> t, votedFor |-> Nobody, entries |-> log[n]]
  <2>1. e \in PersistentState /\ e.term = t /\ e.votedFor = Nobody
    BY <1>1 DEF PersistentState
  <2>2. Observed(n, t) = [disk EXCEPT ![n] = e]
    BY <1>2 DEF Observed
  <2> HIDE DEF e
  <2>3. Observed(n, t)[n] = e
    BY <1>1, <2>2
  <2> QED
    BY <1>1, <1>2, <2>1, <2>2, <2>3
<1>3. CASE ~ t > currentTerm[n]
  BY <1>1, <1>3 DEF Observed
<1> QED
  BY <1>2, <1>3

(* observeTerm panics in either handler. *)
LEMMA ObserveTermPanicsStep ==
  ASSUME TypeOK, NEW n \in Node, NEW m \in voteReqs \cup appendReqs,
         ObserveTermPanics(n, m)
  PROVE  TypeOK' /\ Panicked(n)
<1>1. m.term \in Nat /\ currentTerm[n] \in Nat
  BY NodeTypes DEF TypeOK, RequestVoteArgs, AppendEntriesArgs
<1>2. /\ up[n] /\ m.term > currentTerm[n]
      /\ currentTerm' = [currentTerm EXCEPT ![n] = m.term]
      /\ votedFor' = [votedFor EXCEPT ![n] = Nobody]
      /\ leaderID' = [leaderID EXCEPT ![n] = Nobody]
      /\ log' = log /\ SaveFailed(n, disk)
      /\ voteReqs' \subseteq voteReqs /\ appendReqs' \subseteq appendReqs
      /\ UNCHANGED <<up, role, commitIndex, progress, votes, boot, voteReps,
                     appendReps, crashes, history>>
  BY DEF ObserveTermPanics
<1>3. /\ currentTerm' \in [Node -> Nat] /\ votedFor' \in [Node -> Node \cup {Nobody}]
      /\ log' \in [Node -> Seq(Entry)] /\ disk \in [Node -> PersistentState]
      /\ leaderID' \in [Node -> Node \cup {Nobody}]
  BY <1>1, <1>2 DEF TypeOK
<1>4. /\ disk' \in [Node -> PersistentState]
      /\ \A p \in Node : p # n => disk'[p] = disk[p]
      /\ \/ disk'[n] = disk[n]
         \/ disk'[n].term = currentTerm'[n] /\ disk'[n].votedFor = votedFor'[n]
  BY <1>2, <1>3, SaveFailedDisk
<1>5. TypeOK'
  BY <1>2, <1>3, <1>4 DEF TypeOK, progress, history
<1>6. currentTerm'[n] = m.term /\ leaderID'[n] = Nobody
  BY <1>2 DEF TypeOK
<1>7. currentTerm'[n] >= currentTerm[n] /\ currentTerm'[n] # currentTerm[n]
  BY <1>1, <1>2, <1>6
<1>8. \A p \in Node : p # n => Untouched(p)
  BY <1>2, <1>4 DEF TypeOK, Untouched, progress
<1>9. role'[n] = role[n] /\ log'[n] = log[n]
  BY <1>2
<1> QED
  BY <1>2, <1>4, <1>5, <1>6, <1>7, <1>8, <1>9 DEF Panicked

(* The save of a granted vote panics. *)
LEMMA HandleRequestVotePanicsStep ==
  ASSUME TypeOK, NEW n \in Node, NEW m \in voteReqs, HandleRequestVotePanics(n, m)
  PROVE  TypeOK' /\ Panicked(n)
<1>1. m.term \in Nat /\ m.from \in Node /\ currentTerm[n] \in Nat
  BY NodeTypes DEF TypeOK, RequestVoteArgs
<1>2. /\ up[n] /\ m.term >= currentTerm[n]
      /\ currentTerm' = [currentTerm EXCEPT ![n] = m.term]
      /\ votedFor' = [votedFor EXCEPT ![n] = m.from]
      /\ role' = [role EXCEPT ![n] = RoleAfter(n, m.term)]
      /\ leaderID' = [leaderID EXCEPT ![n] = LeaderAfter(n, m.term)]
      /\ log' = log /\ SaveFailed(n, Observed(n, m.term))
      /\ voteReqs' \subseteq voteReqs /\ voteReps' = voteReps
      /\ UNCHANGED <<up, commitIndex, progress, votes, boot, appendNet, crashes, history>>
  BY DEF HandleRequestVotePanics, VoteReply
<1>3. /\ RoleAfter(n, m.term) \in {Follower, Candidate, Leader}
      /\ LeaderAfter(n, m.term) \in Node \cup {Nobody}
  BY <1>1, AfterTypes
<1>4. /\ currentTerm' \in [Node -> Nat] /\ votedFor' \in [Node -> Node \cup {Nobody}]
      /\ log' \in [Node -> Seq(Entry)]
      /\ role' \in [Node -> {Follower, Candidate, Leader}]
      /\ leaderID' \in [Node -> Node \cup {Nobody}]
  BY <1>1, <1>2, <1>3 DEF TypeOK
<1>5. PICK d \in [Node -> PersistentState] :
        /\ d = Observed(n, m.term) /\ \A p \in Node : p # n => d[p] = disk[p]
        /\ \/ d[n] = disk[n]
           \/ m.term > currentTerm[n] /\ d[n].term = m.term /\ d[n].votedFor = Nobody
  BY <1>1, <1>2, ObservedDisk
<1>6. /\ disk' \in [Node -> PersistentState]
      /\ \A p \in Node : p # n => disk'[p] = disk[p]
      /\ \/ disk'[n] = d[n]
         \/ disk'[n].term = currentTerm'[n] /\ disk'[n].votedFor = votedFor'[n]
  <2>1. SaveFailed(n, d) /\ \A p \in Node : p # n => d[p] = disk[p]
    BY Zenon, <1>2, <1>5
  <2> QED
    BY Zenon, <1>4, <2>1, SaveFailedDisk
<1>7. TypeOK'
  <2>1. \A p \in Node : ~ up'[p] =>
          role'[p] = Follower /\ leaderID'[p] = Nobody /\ commitIndex'[p] = 0
    BY <1>2 DEF TypeOK
  <2> QED
    BY <1>2, <1>4, <1>6, <2>1 DEF TypeOK, progress, appendNet, history
<1>8. /\ currentTerm'[n] = m.term /\ votedFor'[n] = m.from
      /\ role'[n] = RoleAfter(n, m.term) /\ leaderID'[n] = LeaderAfter(n, m.term)
      /\ log'[n] = log[n]
  BY <1>2 DEF TypeOK
<1>9. \A p \in Node : p # n => Untouched(p)
  BY <1>2, <1>6 DEF TypeOK, Untouched, progress
<1>10. role'[n] = Follower \/ (role'[n] = role[n] /\ log'[n] = log[n])
  BY <1>8 DEF RoleAfter
<1>11. leaderID'[n] = Nobody \/ (leaderID'[n] = leaderID[n] /\ currentTerm'[n] = currentTerm[n])
  <2>1. ~ m.term > currentTerm[n] => m.term = currentTerm[n]
    BY <1>1, <1>2
  <2> QED
    BY <1>8, <2>1 DEF LeaderAfter
<1>12. currentTerm'[n] = currentTerm[n] => votedFor[n] \in {Nobody, votedFor'[n]}
  <2>1. VoteAfter(n, m.term) \in {Nobody, m.from}
    BY DEF HandleRequestVotePanics, CanVote
  <2>2. m.term = currentTerm[n] => ~ m.term > currentTerm[n]
    BY <1>1
  <2> QED
    BY <1>8, <2>1, <2>2 DEF VoteAfter
<1>13. currentTerm'[n] >= currentTerm[n]
  BY <1>2, <1>8
<1>14. \/ disk'[n] = disk[n]
       \/ disk'[n].term = currentTerm'[n] /\ disk'[n].votedFor = votedFor'[n]
       \/ disk'[n].term = currentTerm'[n] /\ disk'[n].term > currentTerm[n]
            /\ disk'[n].votedFor = Nobody
  BY <1>5, <1>6, <1>8
<1>15. /\ up[n] /\ UNCHANGED <<up, progress, votes, boot, voteReps, appendReps, history>>
       /\ voteReqs' \subseteq voteReqs /\ appendReqs' \subseteq appendReqs
  BY <1>2 DEF appendNet
<1> QED
  BY <1>7, <1>9, <1>10, <1>11, <1>12, <1>13, <1>14, <1>15 DEF Panicked

(* The save of new entries panics. *)
LEMMA HandleAppendEntriesPanicsStep ==
  ASSUME TypeOK, AppendsFromLeaders, NEW n \in Node, NEW m \in appendReqs,
         HandleAppendEntriesPanics(n, m)
  PROVE  TypeOK' /\ Panicked(n)
<1> DEFINE l == AppendNew(log[n], m.prevLogIndex, m.entries)
<1>1. /\ m.term \in Nat /\ m.from \in Node /\ currentTerm[n] \in Nat
      /\ m.prevLogIndex \in Nat /\ m.entries \in Seq(Entry)
  BY NodeTypes DEF TypeOK, AppendEntriesArgs
<1>2. l \in Seq(Entry)
  <2>1. m.prevLogIndex \in 0 .. Len(log[n])
    BY DEF HandleAppendEntriesPanics, Matches
  <2> QED
    BY <1>1, <2>1, AppendNewType, NodeTypes
<1>3. /\ up[n] /\ m.term >= currentTerm[n]
      /\ currentTerm' = [currentTerm EXCEPT ![n] = m.term]
      /\ votedFor' = [votedFor EXCEPT ![n] = VoteAfter(n, m.term)]
      /\ role' = [role EXCEPT ![n] = Follower]
      /\ leaderID' = [leaderID EXCEPT ![n] = m.from]
      /\ log' = [log EXCEPT ![n] = l] /\ SaveFailed(n, Observed(n, m.term))
      /\ appendReqs' \subseteq appendReqs
      /\ UNCHANGED <<up, commitIndex, progress, votes, boot, voteNet, appendReps,
                     crashes, history>>
  BY DEF HandleAppendEntriesPanics
<1> HIDE DEF l
<1>4. /\ currentTerm' \in [Node -> Nat] /\ votedFor' \in [Node -> Node \cup {Nobody}]
      /\ log' \in [Node -> Seq(Entry)]
      /\ role' \in [Node -> {Follower, Candidate, Leader}]
      /\ leaderID' \in [Node -> Node \cup {Nobody}]
  <2>1. VoteAfter(n, m.term) \in Node \cup {Nobody}
    BY <1>1, AfterTypes
  <2> QED
    BY <1>1, <1>2, <1>3, <2>1 DEF TypeOK
<1>5. PICK d \in [Node -> PersistentState] :
        /\ d = Observed(n, m.term) /\ \A p \in Node : p # n => d[p] = disk[p]
        /\ \/ d[n] = disk[n]
           \/ m.term > currentTerm[n] /\ d[n].term = m.term /\ d[n].votedFor = Nobody
  BY <1>1, <1>3, ObservedDisk
<1>6. /\ disk' \in [Node -> PersistentState]
      /\ \A p \in Node : p # n => disk'[p] = disk[p]
      /\ \/ disk'[n] = d[n]
         \/ disk'[n].term = currentTerm'[n] /\ disk'[n].votedFor = votedFor'[n]
  <2>1. SaveFailed(n, d) /\ \A p \in Node : p # n => d[p] = disk[p]
    BY Zenon, <1>3, <1>5
  <2> QED
    BY Zenon, <1>4, <2>1, SaveFailedDisk
<1>7. TypeOK'
  <2>1. \A p \in Node : ~ up'[p] =>
          role'[p] = Follower /\ leaderID'[p] = Nobody /\ commitIndex'[p] = 0
    BY <1>3 DEF TypeOK
  <2> QED
    BY <1>3, <1>4, <1>6, <2>1 DEF TypeOK, progress, voteNet, history
<1>8. /\ currentTerm'[n] = m.term /\ votedFor'[n] = VoteAfter(n, m.term)
      /\ role'[n] = Follower /\ leaderID'[n] = m.from
  BY <1>3 DEF TypeOK
<1>9. \A p \in Node : p # n => Untouched(p)
  BY <1>3, <1>6 DEF TypeOK, Untouched, progress
<1>10. <<leaderID'[n], currentTerm'[n]>> \in leaders
  BY <1>8 DEF AppendsFromLeaders, AppendFrom
<1>11. currentTerm'[n] = currentTerm[n] => votedFor[n] \in {Nobody, votedFor'[n]}
  <2>1. m.term = currentTerm[n] => ~ m.term > currentTerm[n]
    BY <1>1
  <2> QED
    BY <1>8, <2>1 DEF VoteAfter
<1>12. currentTerm'[n] >= currentTerm[n]
  BY <1>3, <1>8
<1>13. \/ disk'[n] = disk[n]
       \/ disk'[n].term = currentTerm'[n] /\ disk'[n].votedFor = votedFor'[n]
       \/ disk'[n].term = currentTerm'[n] /\ disk'[n].term > currentTerm[n]
            /\ disk'[n].votedFor = Nobody
  BY <1>5, <1>6, <1>8
<1>14. /\ up[n] /\ UNCHANGED <<up, progress, votes, boot, voteReps, appendReps, history>>
       /\ voteReqs' \subseteq voteReqs /\ appendReqs' \subseteq appendReqs
  BY <1>3 DEF voteNet
<1> QED
  BY <1>7, <1>8, <1>9, <1>10, <1>11, <1>12, <1>13, <1>14 DEF Panicked

(* A panic takes nothing back from the disk. *)
LEMMA PanickedSaved ==
  ASSUME TypeOK, TypeOK', Saved, NEW n \in Node, Panicked(n)
  PROVE  /\ Saved' /\ NoVote(n)
         /\ \A p \in Node : disk'[p].term \in Nat /\ disk'[p].term >= disk[p].term
         /\ disk[n].term <= currentTerm[n]
<1>1. /\ currentTerm[n] \in Nat /\ currentTerm'[n] \in Nat
      /\ disk[n].term \in Nat /\ disk'[n].term \in Nat
  <2>1. disk' \in [Node -> PersistentState] /\ currentTerm' \in [Node -> Nat]
    BY DEF TypeOK
  <2> QED
    BY <2>1, NodeTypes DEF PersistentState
<1>2. /\ up[n] /\ disk[n].term <= currentTerm[n]
      /\ disk[n].term = currentTerm[n] => disk[n].votedFor \in {Nobody, votedFor[n]}
  BY DEF Panicked, Saved, SavedAt
<1>3. /\ currentTerm'[n] >= currentTerm[n] /\ ballots' = ballots
      /\ currentTerm'[n] = currentTerm[n] => votedFor[n] \in {Nobody, votedFor'[n]}
      /\ \/ disk'[n] = disk[n]
         \/ disk'[n].term = currentTerm'[n] /\ disk'[n].votedFor = votedFor'[n]
         \/ disk'[n].term = currentTerm'[n] /\ disk'[n].term > currentTerm[n]
              /\ disk'[n].votedFor = Nobody
  BY DEF Panicked, history
<1>4. SavedAt(n)'
  <2>1. disk'[n].term <= currentTerm'[n]
    BY <1>1, <1>2, <1>3
  <2>2. ASSUME disk'[n].term = currentTerm'[n]
        PROVE  disk'[n].votedFor \in {Nobody, votedFor'[n]}
    <3>1. CASE disk'[n] = disk[n]
      <4>1. currentTerm'[n] = currentTerm[n] /\ disk[n].term = currentTerm[n]
        BY <1>1, <1>2, <1>3, <2>2, <3>1
      <4> QED
        BY Zenon, <1>2, <1>3, <3>1, <4>1
    <3> QED
      BY <1>3, <3>1
  <2> QED
    BY <2>1, <2>2 DEF SavedAt
<1>5. NoVote(n)
  <2>1. CASE disk'[n] = disk[n]
    BY <1>3, <2>1 DEF NoVote
  <2>2. CASE disk'[n].term > disk[n].term
    BY <1>3, <2>2 DEF NoVote
  <2>3. CASE disk'[n].term = currentTerm'[n] /\ ~ disk'[n].term > disk[n].term
    <3>1. /\ disk'[n].term = disk[n].term /\ currentTerm'[n] = currentTerm[n]
          /\ disk[n].term = currentTerm[n] /\ ~ disk'[n].term > currentTerm[n]
      BY <1>1, <1>2, <1>3, <2>3
    <3>2. disk[n].votedFor \in {Nobody, disk'[n].votedFor}
      BY Zenon, <1>2, <1>3, <3>1
    <3> QED
      BY <1>3, <3>1, <3>2 DEF NoVote
  <2> QED
    BY <1>3, <2>1, <2>2, <2>3
<1>6. disk'[n].term >= disk[n].term
  BY <1>1, <1>5 DEF NoVote
<1>7. ASSUME NEW p \in Node, p # n
      PROVE  SavedAt(p)' /\ disk'[p].term \in Nat /\ disk'[p].term >= disk[p].term
  <2>1. /\ disk'[p] = disk[p] /\ up'[p] = up[p]
        /\ currentTerm'[p] = currentTerm[p] /\ votedFor'[p] = votedFor[p]
    BY <1>7 DEF Panicked, Untouched
  <2>2. disk[p].term \in Nat /\ SavedAt(p)
    BY NodeTypes DEF Saved
  <2> QED
    BY <2>1, <2>2 DEF SavedAt
<1> QED
  BY <1>1, <1>2, <1>4, <1>5, <1>6, <1>7 DEF Saved

(* Nobody starts or stops to have been elected, and what leaders sent and  *)
(* who they are stays true.                                                *)
LEMMA PanickedLeaders ==
  ASSUME TypeOK, TypeOK', Saved, LeadersSaved, AppendsFromLeaders, NextIndexInLog,
         LeaderIDElected, NEW n \in Node, Panicked(n)
  PROVE  LeadersSaved' /\ AppendsFromLeaders' /\ NextIndexInLog' /\ LeaderIDElected'
<1>1. /\ \A p \in Node : /\ disk[p].term \in Nat /\ disk'[p].term \in Nat
                         /\ disk'[p].term >= disk[p].term
      /\ disk[n].term <= currentTerm[n]
      /\ currentTerm[n] \in Nat /\ currentTerm'[n] \in Nat
  <2>1. currentTerm' \in [Node -> Nat]
    BY DEF TypeOK
  <2> QED
    BY <2>1, PanickedSaved, NodeTypes
<1>2. /\ leaders' = leaders /\ nextIndex' = nextIndex /\ currentTerm'[n] >= currentTerm[n]
      /\ role'[n] = Follower \/ (role'[n] = role[n] /\ log'[n] = log[n])
      /\ appendReqs' \subseteq appendReqs /\ appendReps' = appendReps
  BY DEF Panicked, history, progress
<1>3. \A p \in Node : p # n =>
        /\ role'[p] = role[p] /\ currentTerm'[p] = currentTerm[p]
        /\ log'[p] = log[p] /\ leaderID'[p] = leaderID[p]
  BY DEF Panicked, Untouched
<1>4. \A x \in leaders : x[1] \in Node /\ x[2] \in Nat /\ x[2] <= disk[x[1]].term
  BY DEF TypeOK, LeadersSaved
<1>5. ASSUME NEW t \in Nat, <<n, t>> \in leaders, currentTerm'[n] = t
      PROVE  currentTerm'[n] = currentTerm[n]
  <2>1. t <= disk[n].term
    BY <1>5 DEF LeadersSaved
  <2> QED
    BY <1>1, <1>2, <1>5, <2>1
<1>6. LeadersSaved'
  <2>1. \A x \in leaders' : x[2] <= disk'[x[1]].term
    BY <1>1, <1>2, <1>4
  <2>2. ASSUME NEW p \in Node, role'[p] = Candidate
        PROVE  <<p, currentTerm'[p]>> \notin leaders'
    <3>1. CASE p # n
      BY <1>2, <1>3, <2>2, <3>1 DEF LeadersSaved
    <3>2. CASE p = n
      <4>1. role[n] = Candidate
        BY <1>2, <2>2, <3>2 DEF Follower, Candidate
      <4>2. <<n, currentTerm[n]>> \notin leaders
        BY <4>1 DEF LeadersSaved
      <4> QED
        BY <1>1, <1>2, <1>5, <3>2, <4>2
    <3> QED
      BY <3>1, <3>2
  <2> QED
    BY <2>1, <2>2 DEF LeadersSaved
<1>7. ASSUME NEW m \in AppendEntriesArgs, AppendFrom(m) PROVE AppendFrom(m)'
  <2>1. m.from \in Node /\ m.term \in Nat /\ m.to # m.from /\ <<m.from, m.term>> \in leaders
    BY <1>7 DEF AppendFrom, AppendEntriesArgs
  <2>2. ASSUME role'[m.from] = Leader, currentTerm'[m.from] = m.term
        PROVE  /\ role[m.from] = Leader /\ currentTerm[m.from] = m.term
               /\ log'[m.from] = log[m.from]
    <3>1. CASE m.from # n
      BY <1>3, <2>1, <2>2, <3>1
    <3>2. CASE m.from = n
      <4>1. currentTerm'[n] = currentTerm[n]
        BY <1>5, <2>1, <2>2, <3>2
      <4> QED
        BY <1>2, <2>2, <3>2, <4>1 DEF Follower, Leader
    <3> QED
      BY <3>1, <3>2
  <2> QED
    BY <1>2, <1>7, <2>1, <2>2 DEF AppendFrom
<1>8. AppendsFromLeaders'
  <2>1. ASSUME NEW m \in appendReqs' PROVE AppendFrom(m)'
    BY <1>2, <1>7 DEF TypeOK, AppendsFromLeaders
  <2>2. ASSUME NEW r \in appendReps' PROVE AppendFrom(r.req)'
    <3>1. r.req \in AppendEntriesArgs /\ AppendFrom(r.req)
      BY <1>2 DEF TypeOK, AppendEntriesReply, AppendsFromLeaders
    <3> QED
      BY <1>7, <3>1
  <2> QED
    BY <2>1, <2>2 DEF AppendsFromLeaders
<1>9. NextIndexInLog'
  <2> SUFFICES ASSUME NEW p \in Node, role'[p] = Leader, NEW q \in Peers(p)
               PROVE  nextIndex'[p][q] \in 1 .. Len(log'[p]) + 1
    BY DEF NextIndexInLog
  <2>1. role[p] = Leader /\ log'[p] = log[p]
    BY <1>2, <1>3 DEF Follower, Leader
  <2> QED
    BY <1>2, <2>1 DEF NextIndexInLog
<1>10. LeaderIDElected'
  <2> SUFFICES ASSUME NEW p \in Node, leaderID'[p] # Nobody
               PROVE  <<leaderID'[p], currentTerm'[p]>> \in leaders'
    BY DEF LeaderIDElected
  <2>1. CASE p # n
    BY <1>2, <1>3, <2>1 DEF LeaderIDElected
  <2>2. CASE p = n
    BY <1>2, <2>2 DEF Panicked, LeaderIDElected
  <2> QED
    BY <2>1, <2>2
<1> QED
  BY <1>6, <1>8, <1>9, <1>10

(* No vote is granted, asked for or counted. *)
LEMMA PanickedVotes ==
  ASSUME TypeOK, TypeOK', Saved, BallotsKept, GrantsSaved, CallsOnce, CountsSound,
         NEW n \in Node, Panicked(n)
  PROVE  BallotsKept' /\ GrantsSaved' /\ CallsOnce' /\ CountsSound'
<1>1. /\ \A p \in Node : /\ disk[p].term \in Nat /\ disk'[p].term \in Nat
                         /\ disk'[p].term >= disk[p].term
      /\ disk[n].term <= currentTerm[n] /\ NoVote(n)
      /\ currentTerm[n] \in Nat /\ currentTerm'[n] \in Nat
  <2>1. currentTerm' \in [Node -> Nat]
    BY DEF TypeOK
  <2> QED
    BY <2>1, PanickedSaved, NodeTypes
<1>2. /\ ballots' = ballots /\ leaders' = leaders /\ votes' = votes
      /\ voteReqs' \subseteq voteReqs /\ voteReps' = voteReps
      /\ currentTerm'[n] >= currentTerm[n]
      /\ role'[n] = Follower \/ role'[n] = role[n]
  BY DEF Panicked, history
<1>3. BallotsKept'
  <2>1. \A p \in Node : p # n => disk'[p] = disk[p]
    BY DEF Panicked, Untouched
  <2> QED
    BY <1>1, <2>1, VoteKeepsBallots DEF VoteStep
<1>4. GrantsSaved'
  BY <1>2 DEF GrantsSaved
<1>5. ASSUME NEW m, m \in voteReqs \/ \E r \in voteReps : r.req = m
      PROVE  /\ m.from \in Node /\ m.term \in Nat /\ m.to \in Node /\ m.to # m.from
             /\ m.term <= disk[m.from].term
  <2>1. m \in RequestVoteArgs
    BY <1>5 DEF TypeOK, RequestVoteReply
  <2> QED
    BY <1>5, <2>1 DEF RequestVoteArgs, CallsOnce
<1>6. CallsOnce'
  <2>1. \A m \in voteReqs' : m.term <= disk'[m.from].term /\ m.to # m.from
    BY <1>1, <1>2, <1>5
  <2>2. \A r \in voteReps' : r.req.term <= disk'[r.req.from].term /\ r.req.to # r.req.from
    BY <1>1, <1>2, <1>5
  <2> QED
    BY <1>2, <2>1, <2>2 DEF CallsOnce
<1>7. \A x \in leaders' : HasQuorum(x)'
  BY <1>2 DEF CountsSound, HasQuorum, VotedFor
<1>8. ASSUME NEW p \in Node, role'[p] = Candidate
      PROVE  VotesCounted(p)' \/ Heard(Node, p, currentTerm[p])'
  <2>1. CASE currentTerm'[p] = currentTerm[p]
    <3>1. role[p] = Candidate
      <4>1. p # n => role'[p] = role[p]
        BY DEF Panicked, Untouched
      <4> QED
        BY <1>2, <1>8, <4>1 DEF Follower, Candidate
    <3>2. \A S \in SUBSET Node :
            /\ VotedFor(S, p, currentTerm[p]) => VotedFor(S, p, currentTerm[p])'
            /\ Heard(S, p, currentTerm[p]) => Heard(S, p, currentTerm[p])'
      BY <1>2, <2>1 DEF VotedFor, Heard
    <3>3. Node \in SUBSET Node
      OBVIOUS
    <3>4. VotesCounted(p) \/ Heard(Node, p, currentTerm[p])
      BY <3>1 DEF CountsSound
    <3>5. VotesCounted(p) => VotesCounted(p)'
      BY <1>2, <3>2 DEF VotesCounted
    <3> QED
      BY <3>2, <3>3, <3>4, <3>5
  <2>2. CASE currentTerm'[p] # currentTerm[p]
    <3>1. p = n /\ currentTerm'[n] > disk[n].term
      <4>1. p = n
        BY <2>2 DEF Panicked, Untouched
      <4> QED
        BY <1>1, <1>2, <2>2, <4>1
    <3>2. ASSUME NEW m, m \in voteReqs \/ \E r \in voteReps : r.req = m,
                 m.from = n, m.term = currentTerm'[n]
          PROVE  FALSE
      <4>1. m.term <= disk[n].term
        BY <1>5, <3>2
      <4> QED
        BY <1>1, <3>1, <3>2, <4>1
    <3>3. /\ \A m \in voteReqs : ~ (m.from = n /\ m.term = currentTerm'[n])
          /\ \A r \in voteReps : ~ (r.req.from = n /\ r.req.term = currentTerm'[n])
      BY <3>2
    <3>4. Heard(Node, n, currentTerm[n])'
      BY <1>2, <3>3 DEF Heard
    <3> QED
      BY <3>1, <3>4
  <2> QED
    BY <2>1, <2>2
<1> QED
  BY <1>3, <1>4, <1>6, <1>7, <1>8 DEF CountsSound

(* A handler that panics keeps the invariant. *)
LEMMA HandlerPanicsStep ==
  ASSUME PanicInv, NEW n \in Node, HandlerPanics(n)
  PROVE  PanicInv' /\ Panicked(n) /\ NoVote(n)
<1>1. /\ TypeOK /\ Saved /\ LeadersSaved /\ AppendsFromLeaders /\ NextIndexInLog
      /\ LeaderIDElected /\ BallotsKept /\ GrantsSaved /\ CallsOnce /\ CountsSound
  BY DEF PanicInv
<1>2. TypeOK' /\ Panicked(n)
  BY <1>1, ObserveTermPanicsStep, HandleRequestVotePanicsStep,
     HandleAppendEntriesPanicsStep DEF HandlerPanics
<1>3. Saved' /\ NoVote(n)
  BY <1>1, <1>2, PanickedSaved
<1>4. LeadersSaved' /\ AppendsFromLeaders' /\ NextIndexInLog' /\ LeaderIDElected'
  BY <1>1, <1>2, PanickedLeaders
<1>5. BallotsKept' /\ GrantsSaved' /\ CallsOnce' /\ CountsSound'
  BY <1>1, <1>2, PanickedVotes
<1> QED
  BY <1>2, <1>3, <1>4, <1>5 DEF PanicInv

(* So does a step of a node whose loops keep to their terms. *)
LEMMA NodeStepPanic ==
  ASSUME PanicInv, NEW n \in Node, NodeStep(n), LoopsKeepToTheirTerm
  PROVE  PanicInv'
<1>1. /\ TypeOK /\ Saved /\ LeadersSaved /\ AppendsFromLeaders /\ NextIndexInLog
      /\ LeaderIDElected /\ BallotsKept /\ GrantsSaved /\ CallsOnce /\ CountsSound
  BY DEF PanicInv
<1>2. TypeOK'
  BY <1>1, TypeStep DEF Next
<1>3. Saved'
  BY <1>1, SavedStep
<1>4. LeadersSaved' /\ leaders \subseteq leaders'
  BY <1>1, <1>2, LeadersSavedStep
<1>5. AppendsFromLeaders'
  BY <1>1, <1>2, AppendsFromLeadersStep
<1>6. NextIndexInLog' /\ LeaderIDElected'
  BY <1>1, <1>2, <1>4, NodeStepNames
<1>7. BallotsKept' /\ ballots \subseteq ballots'
  BY <1>1, <1>2, BallotsKeptStep
<1>8. GrantsSaved'
  BY <1>1, <1>7, GrantsSavedStep
<1>9. CallsOnce'
  BY <1>1, <1>2, CallsOnceStep
<1>10. CountsSound'
  BY <1>1, <1>7, <1>9, CountsSoundStep
<1> QED
  BY <1>2, <1>3, <1>4, <1>5, <1>6, <1>7, <1>8, <1>9, <1>10 DEF PanicInv

(* And a step that takes at most AppendEntries messages away. *)
LEMMA QuietPanic ==
  ASSUME PanicInv, TypeOK', appendReqs' \subseteq appendReqs,
         appendReps' \subseteq appendReps,
         UNCHANGED <<saved, up, volatile, progress, votes, voteNet, history>>
  PROVE  PanicInv'
<1> USE DEF saved, volatile, progress, voteNet, history
<1>1. Saved' /\ LeadersSaved' /\ NextIndexInLog' /\ LeaderIDElected'
  BY DEF PanicInv, Saved, SavedAt, LeadersSaved, NextIndexInLog, LeaderIDElected
<1>2. \A m : AppendFrom(m) => AppendFrom(m)'
  BY DEF AppendFrom
<1>3. AppendsFromLeaders'
  BY <1>2 DEF PanicInv, AppendsFromLeaders
<1>4. BallotsKept' /\ GrantsSaved' /\ CallsOnce'
  BY DEF PanicInv, BallotsKept, GrantsSaved, CallsOnce
<1>5. CountsSound'
  BY DEF PanicInv, CountsSound, VotesCounted, HasQuorum, VotedFor, Heard
<1> QED
  BY <1>1, <1>3, <1>4, <1>5 DEF PanicInv

(* The invariant for failing saves holds initially. *)
LEMMA PanicInvInit == PanicInit => PanicInv
<1> SUFFICES ASSUME Init PROVE PanicInv
  BY DEF PanicInit
<1>1. StructureInv /\ ElectionInv
  BY StructureInit, ElectionInit
<1>2. TypeOK /\ Synced /\ CountsTrue
  BY <1>1 DEF StructureInv, ElectionInv
<1>3. Saved /\ CountsSound
  BY <1>2, SyncedIsSaved DEF CountsTrue, CountsSound
<1> QED
  BY <1>1, <1>3 DEF StructureInv, ElectionInv, LeadersKnown, PanicInv

(* And is inductive. *)
LEMMA PanicInvStep == PanicInv /\ [PanicNext]_panicVars => PanicInv'
<1> SUFFICES ASSUME PanicInv, [PanicNext]_panicVars PROVE PanicInv'
  OBVIOUS
<1>1. CASE AppendLost
  <2>1. TypeOK'
    BY <1>1, AppendLostType DEF PanicInv
  <2>2. appendReqs' \subseteq appendReqs /\ appendReps' \subseteq appendReps
    BY <1>1 DEF AppendLost
  <2> QED
    BY <1>1, <2>1, <2>2, QuietPanic DEF AppendLost
<1>2. CASE UNCHANGED vars
  <2>1. TypeOK'
    BY <1>2 DEF PanicInv, TypeOK, vars, saved, volatile, progress, voteNet,
                appendNet, history
  <2> QED
    BY <1>2, <2>1, QuietPanic DEF vars, appendNet
<1>3. ASSUME NEW n \in Node, NodeStep(n), LoopsKeepToTheirTerm PROVE PanicInv'
  BY <1>3, NodeStepPanic
<1>4. ASSUME NEW n \in Node, HandlerPanics(n) PROVE PanicInv'
  BY <1>4, HandlerPanicsStep
<1> QED
  BY <1>1, <1>2, <1>3, <1>4 DEF PanicNext, Next, panicVars

(* Two leaders in one term stay impossible when saves fail in handlers:    *)
(* persist panics before the reply, so a vote that did not reach the disk  *)
(* is one that nobody counts.                                              *)
THEOREM OneLeaderWhenSavesFail == PanicSpec => []ElectionSafety
<1>1. PanicInv => ElectionSafety
  BY QuorumsElectOne DEF PanicInv, CountsSound
<1> QED
  BY <1>1, PanicInvInit, PanicInvStep, PTL DEF PanicSpec

(* Nor does a failing save, or a restart after one, take back a vote or a  *)
(* term that a disk holds, although memory may run ahead of it.            *)
THEOREM VotesKeptWhenSavesFail == PanicSpec => VoteIsKept
<1>1. PanicInv /\ [PanicNext]_panicVars => [\A n \in Node : VoteKept(n)]_vars
  <2> SUFFICES ASSUME PanicInv, PanicNext, NEW p \in Node PROVE VoteKept(p)
    BY DEF panicVars
  <2>1. TypeOK /\ Saved /\ NextIndexInLog /\ disk[p].term \in Nat
    BY NodeTypes DEF PanicInv
  <2>2. CASE disk'[p] = disk[p]
    BY <2>1, <2>2 DEF VoteKept
  <2>3. PanicInv'
    BY PanicInvStep
  <2>4. disk'[p].term \in Nat
    BY <2>3 DEF PanicInv, TypeOK, PersistentState
  <2>5. ASSUME NEW n \in Node, VoteStep(n), p # n => disk'[p] = disk[p],
               disk'[n].term >= disk[n].term
        PROVE  VoteKept(p)
    <3>1. CASE p = n
      BY SMTT(30), <2>1, <2>4, <2>5, <3>1 DEF VoteStep, NoVote, Vote, VoteKept
    <3> QED
      BY <2>2, <2>5, <3>1
  <2>6. ASSUME NEW n \in Node, NodeStep(n) PROVE VoteKept(p)
    BY <2>1, <2>5, <2>6, SelfVote, SelfSaved, OthersUntouched DEF Untouched
  <2>7. ASSUME NEW n \in Node, HandlerPanics(n) PROVE VoteKept(p)
    <3>1. Panicked(n) /\ NoVote(n)
      BY <2>7, HandlerPanicsStep
    <3>2. disk'[n].term >= disk[n].term
      BY <2>1, <2>3, <3>1, PanickedSaved DEF PanicInv
    <3> QED
      BY <2>5, <3>1, <3>2 DEF Panicked, Untouched, VoteStep
  <2>8. CASE AppendLost
    BY <2>2, <2>8 DEF AppendLost, saved
  <2> QED
    BY <2>6, <2>7, <2>8 DEF PanicNext, Next
<1> QED
  BY <1>1, PanicInvInit, PanicInvStep, PTL DEF PanicSpec, VoteIsKept

(* The leader a node names was elected in the node's term, and a leader's  *)
(* nextIndex stays in its log, whichever saves fail and at whichever       *)
(* statement of a handler.                                                 *)
THEOREM StatusTrueWhenSavesFail == PanicSpec => [](TypeOK /\ LeaderIDElected /\ NextIndexInLog)
<1>1. PanicInv => TypeOK /\ LeaderIDElected /\ NextIndexInLog
  BY DEF PanicInv
<1> QED
  BY <1>1, PanicInvInit, PanicInvStep, PTL DEF PanicSpec

=============================================================================
