---------------------------- MODULE RaftLogSteps ----------------------------
(***************************************************************************)
(* What a step of one node does to its log, votes and progress, how the    *)
(* histories of RaftLogInv move with it, and that it keeps what LogInv     *)
(* says of the logs, their owners, the requests and the acknowledgements.  *)
(***************************************************************************)
EXTENDS RaftProofs

USE ZenonT(30), SMTT(30)

(* What a step of n can do to its log: leave it, add an entry of its term  *)
(* as a leader, or merge the entries of a request of its term into it.     *)
Kept(n) == log'[n] = log[n]
Grew(n) ==
  /\ up[n] /\ role'[n] = Leader
  /\ OneMore(log'[n], log[n], currentTerm'[n])
  /\ Won(n) \/ (role[n] = Leader /\ currentTerm'[n] = currentTerm[n] /\ leaders' = leaders)
Merged(n, m) ==
  /\ up[n] /\ m \in appendReqs /\ m.to = n /\ role'[n] = Follower
  /\ m.term = currentTerm'[n]
  /\ Matches(log[n], m.prevLogIndex, m.prevLogTerm)
  /\ log'[n] = AppendNew(log[n], m.prevLogIndex, m.entries)
  /\ commitIndex'[n] = CommitFrom(n, m) /\ committed' = committed /\ ballots' = ballots
  /\ \A r \in appendReps' : r.success => r \in appendReps \/ r.req = m
LogStep(n) == Kept(n) \/ Grew(n) \/ \E m \in appendReqs : Merged(n, m)

(* becomeLeader adds the no-op. *)
LEMMA BecomeLeaderGrows ==
  ASSUME TypeOK, TypeOK', NEW n \in Node, NodeStep(n), BecomeLeader(n), up[n],
         role[n] # Leader
  PROVE  Grew(n)
<1>1. role'[n] = Leader
  BY DEF BecomeLeader, TypeOK
<1>2. Won(n)
  BY <1>1, SelfRole DEF RoleStep, WentOn, FellBack, Ran, Leader, Follower, Candidate
<1>3. log'[n] = Append(log[n], [term |-> currentTerm'[n], cmd |-> NoOp])
  BY DEF BecomeLeader, TypeOK
<1>4. currentTerm'[n] \in Nat
  BY DEF TypeOK
<1>5. PICK e \in Entry : e = [term |-> currentTerm'[n], cmd |-> NoOp]
  BY <1>4 DEF Entry
<1>6. log[n] \in Logs
  BY NodeTypes DEF Logs
<1>7. e.term = currentTerm'[n]
  BY <1>5
<1>8. OneMore(log'[n], log[n], currentTerm'[n])
  BY <1>3, <1>5, <1>6, <1>7, AppendOneMore
<1> QED
  BY <1>1, <1>2, <1>8 DEF Grew

(* Propose adds a command. *)
LEMMA ProposeGrows ==
  ASSUME TypeOK, NEW n \in Node, NEW c \in Command, Propose(n, c)
  PROVE  Grew(n)
<1>1. currentTerm[n] \in Nat /\ log[n] \in Logs
  BY NodeTypes DEF Logs
<1>2. log'[n] = Append(log[n], [term |-> currentTerm[n], cmd |-> c])
  BY DEF Propose, TypeOK
<1>3. PICK e \in Entry : e = [term |-> currentTerm[n], cmd |-> c]
  BY <1>1 DEF Entry
<1>4. e.term = currentTerm[n]
  BY <1>3
<1>5. OneMore(log'[n], log[n], currentTerm[n])
  BY <1>1, <1>2, <1>3, <1>4, AppendOneMore
<1> QED
  BY <1>5 DEF Propose, Grew

(* A request of the node's term that fits its log is merged. *)
LEMMA HandleMerges ==
  ASSUME TypeOK, NEW n \in Node, NEW m \in appendReqs, HandleAppendEntries(n, m),
         m.term = TermAfter(n, m.term), Matches(log[n], m.prevLogIndex, m.prevLogTerm)
  PROVE  Merged(n, m)
<1>1. DOMAIN log = Node /\ DOMAIN role = Node /\ DOMAIN currentTerm = Node
      /\ DOMAIN commitIndex = Node
  BY DEF TypeOK
<1>2. /\ up[n] /\ m.to = n /\ role'[n] = Follower /\ m.term = currentTerm'[n]
      /\ log'[n] = AppendNew(log[n], m.prevLogIndex, m.entries)
      /\ commitIndex'[n] = CommitFrom(n, m) /\ committed' = committed /\ ballots' = ballots
  BY <1>1 DEF HandleAppendEntries, history
<1>3. PICK ok :
        appendReps' = appendReps \cup
          ToCaller(m, [req |-> m, term |-> TermAfter(n, m.term), success |-> ok])
  BY DEF HandleAppendEntries
<1> DEFINE reply == [req |-> m, term |-> TermAfter(n, m.term), success |-> ok]
<1>4. reply.req = m
  OBVIOUS
<1>5. appendReps' = appendReps \cup ToCaller(m, reply)
  BY <1>3
<1> HIDE DEF reply
<1>6. \A r \in appendReps' : r \in appendReps \/ r = reply
  BY <1>5 DEF ToCaller
<1> QED
  BY <1>2, <1>4, <1>6 DEF Merged

(* Every step of n is one of these. *)
LEMMA SelfLog ==
  ASSUME TypeOK, TypeOK', Synced, NEW n \in Node, NodeStep(n)
  PROVE  LogStep(n)
<1>1. DOMAIN log = Node /\ DOMAIN role = Node /\ DOMAIN currentTerm = Node
      /\ DOMAIN commitIndex = Node
  BY DEF TypeOK
<1> USE DEF saved, volatile, history
<1>2. CASE ElectionTimeout(n)
  <2>1. BecomeLeader(n) \/ log' = log
    BY <1>2 DEF ElectionTimeout
  <2> QED
    BY <1>2, <2>1, BecomeLeaderGrows DEF ElectionTimeout, LogStep, Kept
<1>3. ASSUME NEW m \in voteReqs, HandleRequestVote(n, m) PROVE Kept(n)
  BY <1>3 DEF HandleRequestVote, Kept
<1>4. ASSUME NEW r \in voteReps, RequestVoteReplied(n, r) PROVE LogStep(n)
  <2>1. BecomeLeader(n) \/ log' = log
    BY <1>4 DEF RequestVoteReplied
  <2>2. up[n] /\ role[n] # Leader
    BY <1>4 DEF RequestVoteReplied, StillRunning, Candidate, Leader
  <2> QED
    BY <2>1, <2>2, BecomeLeaderGrows DEF LogStep, Kept
<1>5. ASSUME NEW r \in voteReps \cup appendReps, ReplyWithNewerTerm(n, r) PROVE Kept(n)
  BY <1>5 DEF ReplyWithNewerTerm, Kept
<1>6. ASSUME NEW c \in Command, Propose(n, c) PROVE Grew(n)
  BY <1>6, ProposeGrows
<1>7. ASSUME NEW q \in Peers(n), ReplicateTo(n, q) PROVE Kept(n)
  BY <1>7 DEF ReplicateTo, Kept
<1>8. ASSUME NEW m \in appendReqs, HandleAppendEntries(n, m) PROVE Kept(n) \/ Merged(n, m)
  <2>1. CASE m.term = TermAfter(n, m.term) /\ Matches(log[n], m.prevLogIndex, m.prevLogTerm)
    BY <1>8, <2>1, HandleMerges
  <2>2. CASE ~ (m.term = TermAfter(n, m.term) /\ Matches(log[n], m.prevLogIndex, m.prevLogTerm))
    BY <1>1, <1>8, <2>2 DEF HandleAppendEntries, Kept
  <2> QED
    BY <2>1, <2>2
<1>9. ASSUME NEW r \in appendReps, AppendSucceeded(n, r) \/ AppendRefused(n, r)
      PROVE  Kept(n)
  BY <1>9 DEF AppendSucceeded, AppendRefused, Kept
<1>10. CASE Crash(n) \/ CrashBetweenSaves(n)
  BY <1>10 DEF Crash, CrashBetweenSaves, LoseMemory, LogStep, Kept
<1>11. CASE Restart(n)
  <2>1. log'[n] = disk[n].entries
    BY <1>1, <1>11 DEF Restart
  <2> QED
    BY <2>1 DEF Synced, SyncedAt, LogStep, Kept
<1> HIDE DEF saved, volatile, history
<1> QED
  BY <1>2, <1>3, <1>4, <1>5, <1>6, <1>7, <1>8, <1>9, <1>10, <1>11 DEF NodeStep, LogStep

(* What a step of n can do to the votes saved: leave them, add its own in  *)
(* a new term, or add the one it grants to a candidate up to date.         *)
SelfVoted(n) ==
  /\ disk'[n].term > disk[n].term
  /\ ballots' = ballots \cup {<<n, disk'[n].term, n>>}
Granted(n, m) ==
  /\ up[n] /\ m \in voteReqs /\ m.from \in Node /\ log'[n] = log[n]
  /\ m.term = disk'[n].term /\ m.term >= currentTerm[n]
  /\ IsUpToDate(log[n], m.lastLogTerm, m.lastLogIndex)
  /\ ballots' = ballots \cup {<<n, m.term, m.from>>}
BallotStep(n) ==
  /\ ballots' = ballots \/ SelfVoted(n) \/ \E m \in voteReqs : Granted(n, m)
  /\ currentTerm'[n] >= currentTerm[n]
  /\ role'[n] = Follower \/ currentTerm'[n] = currentTerm[n] \/ SelfVoted(n)

(* An election that starts is one vote in a new term. *)
LEMMA ElectionVotes ==
  ASSUME TypeOK, Synced, NEW n \in Node, ElectionTimeout(n)
  PROVE  SelfVoted(n) /\ disk'[n].term = currentTerm'[n]
                      /\ currentTerm'[n] = currentTerm[n] + 1
<1>1. currentTerm[n] = disk[n].term /\ currentTerm[n] \in Nat
  BY NodeTypes DEF ElectionTimeout, Synced, SyncedAt
<1>2. /\ currentTerm'[n] = currentTerm[n] + 1
      /\ ballots' = ballots \cup {<<n, currentTerm'[n], n>>}
  BY DEF ElectionTimeout, TypeOK
<1>3. Persist(n)
  BY DEF ElectionTimeout, BecomeLeader
<1>4. disk'[n].term = currentTerm'[n]
  BY <1>3 DEF Persist, TypeOK
<1> QED
  BY <1>1, <1>2, <1>4 DEF SelfVoted

(* Every step of n is one of these. *)
LEMMA SelfBallot ==
  ASSUME TypeOK, Synced, NEW n \in Node, NodeStep(n)
  PROVE  BallotStep(n)
<1>1. /\ currentTerm[n] \in Nat /\ disk[n].term \in Nat /\ disk[n].term >= currentTerm[n]
      /\ up[n] => disk[n].term = currentTerm[n]
      /\ DOMAIN role = Node /\ DOMAIN currentTerm = Node /\ DOMAIN disk = Node
  BY NodeTypes DEF TypeOK, Synced, SyncedAt
<1> USE DEF saved, volatile, history
<1>2. CASE ElectionTimeout(n)
  <2>1. SelfVoted(n) /\ currentTerm'[n] = currentTerm[n] + 1
    BY <1>2, ElectionVotes
  <2>2. currentTerm'[n] >= currentTerm[n]
    BY <1>1, <2>1
  <2> QED
    BY <2>1, <2>2 DEF BallotStep
<1>3. ASSUME NEW m \in voteReqs, HandleRequestVote(n, m) PROVE BallotStep(n)
  <2>1. m.term \in Nat /\ m.from \in Node
    BY DEF TypeOK, RequestVoteArgs
  <2>2. TermAfter(n, m.term) = IF m.term > currentTerm[n] THEN m.term ELSE currentTerm[n]
    BY <2>1, AfterTypes
  <2>3. currentTerm'[n] = TermAfter(n, m.term) /\ role'[n] = RoleAfter(n, m.term)
    BY <1>1, <1>3 DEF HandleRequestVote
  <2>4. /\ currentTerm'[n] >= currentTerm[n]
        /\ role'[n] = Follower \/ currentTerm'[n] = currentTerm[n]
    BY <1>1, <2>1, <2>2, <2>3 DEF RoleAfter
  <2>5. CASE m.term = TermAfter(n, m.term) /\ CanVote(n, m)
    <3>1. /\ Persist(n) /\ ballots' = ballots \cup {<<n, m.term, m.from>>} /\ up[n]
          /\ log' = log
      BY <1>3, <2>5 DEF HandleRequestVote
    <3>2. disk'[n].term = m.term /\ m.term >= currentTerm[n]
      BY SMTT(30), <1>1, <2>1, <2>2, <2>3, <2>5, <3>1 DEF Persist
    <3>3. Granted(n, m)
      BY <2>1, <2>5, <3>1, <3>2 DEF Granted, CanVote
    <3> QED
      BY <2>4, <3>3 DEF BallotStep
  <2>6. CASE ~ (m.term = TermAfter(n, m.term) /\ CanVote(n, m))
    <3>1. ballots' = ballots
      BY <1>3, <2>6 DEF HandleRequestVote
    <3> QED
      BY <2>4, <3>1 DEF BallotStep
  <2> QED
    BY <2>5, <2>6
<1>4. currentTerm' = currentTerm /\ ballots' = ballots => BallotStep(n)
  <2>1. currentTerm' = currentTerm => currentTerm'[n] >= currentTerm[n]
    BY <1>1
  <2> QED
    BY <2>1 DEF BallotStep
<1>5. ASSUME NEW r \in voteReps, RequestVoteReplied(n, r) PROVE BallotStep(n)
  BY <1>4, <1>5 DEF RequestVoteReplied
<1>6. ASSUME NEW r \in voteReps \cup appendReps, ReplyWithNewerTerm(n, r) PROVE BallotStep(n)
  <2>1. r.term \in Nat
    BY DEF TypeOK, RequestVoteReply, AppendEntriesReply
  <2>2. /\ currentTerm'[n] = r.term /\ r.term > currentTerm[n] /\ role'[n] = Follower
        /\ ballots' = ballots
    BY <1>1, <1>6 DEF ReplyWithNewerTerm
  <2>3. currentTerm'[n] >= currentTerm[n]
    BY <1>1, <2>1, <2>2
  <2> QED
    BY <2>2, <2>3 DEF BallotStep
<1>7. ASSUME NEW c \in Command, Propose(n, c) PROVE BallotStep(n)
  BY <1>4, <1>7 DEF Propose
<1>8. ASSUME NEW q \in Peers(n), ReplicateTo(n, q) PROVE BallotStep(n)
  BY <1>4, <1>8 DEF ReplicateTo
<1>9. ASSUME NEW m \in appendReqs, HandleAppendEntries(n, m) PROVE BallotStep(n)
  <2>1. m.term \in Nat
    BY DEF TypeOK, AppendEntriesArgs
  <2>2. TermAfter(n, m.term) = IF m.term > currentTerm[n] THEN m.term ELSE currentTerm[n]
    BY <2>1, AfterTypes
  <2>3. /\ currentTerm'[n] = TermAfter(n, m.term) /\ ballots' = ballots
        /\ m.term = TermAfter(n, m.term) => role'[n] = Follower
    BY <1>1, <1>9 DEF HandleAppendEntries
  <2>4. /\ currentTerm'[n] >= currentTerm[n]
        /\ role'[n] = Follower \/ currentTerm'[n] = currentTerm[n]
    BY <1>1, <2>1, <2>2, <2>3
  <2> QED
    BY <2>3, <2>4 DEF BallotStep
<1>10. ASSUME NEW r \in appendReps, AppendSucceeded(n, r) \/ AppendRefused(n, r)
      PROVE  BallotStep(n)
  BY <1>4, <1>10 DEF AppendSucceeded, AppendRefused
<1>11. CASE Crash(n)
  BY <1>4, <1>11 DEF Crash, LoseMemory
<1>12. CASE CrashBetweenSaves(n)
  <2>1. up[n] /\ currentTerm' = currentTerm
    BY <1>12 DEF CrashBetweenSaves, LoseMemory
  <2>2. ASSUME ballots' # ballots PROVE SelfVoted(n)
    <3>1. /\ disk' = [disk EXCEPT ![n] = [term |-> currentTerm[n] + 1,
                                          votedFor |-> n, entries |-> log[n]]]
          /\ ballots' = ballots \cup {<<n, currentTerm[n] + 1, n>>}
      BY <1>12, <2>2 DEF CrashBetweenSaves
    <3>2. disk'[n].term = currentTerm[n] + 1
      BY <1>1, <3>1
    <3>3. disk'[n].term > disk[n].term
      BY <1>1, <2>1, <3>2
    <3> QED
      BY <3>1, <3>2, <3>3 DEF SelfVoted
  <2>3. currentTerm'[n] >= currentTerm[n]
    BY <1>1, <2>1
  <2> QED
    BY <2>1, <2>2, <2>3 DEF BallotStep
<1>13. CASE Restart(n)
  <2>1. currentTerm'[n] = disk[n].term /\ ballots' = ballots /\ role' = role /\ ~ up[n]
    BY <1>1, <1>13 DEF Restart
  <2>2. role[n] = Follower
    BY <2>1 DEF TypeOK
  <2> QED
    BY <1>1, <2>1, <2>2 DEF BallotStep
<1> HIDE DEF saved, volatile, history
<1> QED
  BY <1>2, <1>3, <1>5, <1>6, <1>7, <1>8, <1>9, <1>10, <1>11, <1>12, <1>13
     DEF NodeStep

(* What a step of n can do to the replies in the network, to what it       *)
(* counts for its peers, and to what it knows to be committed.             *)
ReplyStep(n) == \A r \in appendReps' : r.success => r \in appendReps \/ Merged(n, r.req)
Counted(n, p) ==
  /\ role[n] = Leader /\ currentTerm'[n] = currentTerm[n]
  /\ \/ matchIndex'[n][p] = matchIndex[n][p]
     \/ \E r \in appendReps :
          /\ r.success /\ r.req.to = p /\ r.req.term = currentTerm[n]
          /\ matchIndex'[n][p] = r.req.prevLogIndex + Len(r.req.entries)
MatchStep(n) ==
  role'[n] = Leader => \A p \in Peers(n) : matchIndex'[n][p] = 0 \/ Counted(n, p)
CommitStep(n) ==
  \/ committed' = committed /\ commitIndex'[n] \in {0, commitIndex[n]}
  \/ role'[n] = Leader /\ AdvanceCommitIndex(n)
  \/ \E m \in appendReqs : Merged(n, m)

(* A reply says success only if the request was merged. *)
LEMMA SelfReply ==
  ASSUME TypeOK, NEW n \in Node, NodeStep(n)
  PROVE  ReplyStep(n)
<1>1. appendReps' \subseteq appendReps => ReplyStep(n)
  BY DEF ReplyStep
<1> USE DEF appendNet
<1>2. CASE ElectionTimeout(n)
  BY <1>1, <1>2 DEF ElectionTimeout
<1>3. ASSUME NEW m \in voteReqs, HandleRequestVote(n, m) PROVE ReplyStep(n)
  BY <1>1, <1>3 DEF HandleRequestVote
<1>4. ASSUME NEW r \in voteReps, RequestVoteReplied(n, r) PROVE ReplyStep(n)
  BY <1>1, <1>4 DEF RequestVoteReplied
<1>5. ASSUME NEW r \in voteReps \cup appendReps, ReplyWithNewerTerm(n, r) PROVE ReplyStep(n)
  BY <1>1, <1>5 DEF ReplyWithNewerTerm
<1>6. ASSUME NEW c \in Command, Propose(n, c) PROVE ReplyStep(n)
  BY <1>1, <1>6 DEF Propose
<1>7. ASSUME NEW q \in Peers(n), ReplicateTo(n, q) PROVE ReplyStep(n)
  BY <1>1, <1>7 DEF ReplicateTo
<1>8. ASSUME NEW m \in appendReqs, HandleAppendEntries(n, m) PROVE ReplyStep(n)
  <2> DEFINE ok == m.term = TermAfter(n, m.term)
                     /\ Matches(log[n], m.prevLogIndex, m.prevLogTerm)
             reply == [req |-> m, term |-> TermAfter(n, m.term), success |-> ok]
  <2>1. appendReps' = appendReps \cup ToCaller(m, reply)
    BY <1>8 DEF HandleAppendEntries
  <2>2. ok => Merged(n, m)
    BY <1>8, HandleMerges
  <2>3. reply.req = m /\ reply.success = ok
    <3> HIDE DEF ok
    <3> QED
      OBVIOUS
  <2> HIDE DEF ok, reply
  <2>4. ToCaller(m, reply) \subseteq {reply}
    BY DEF ToCaller
  <2>5. \A r \in appendReps' : r \in appendReps \/ r = reply
    BY <2>1, <2>4
  <2> QED
    BY <2>2, <2>3, <2>5 DEF ReplyStep
<1>9. ASSUME NEW r \in appendReps, AppendSucceeded(n, r) \/ AppendRefused(n, r)
      PROVE  ReplyStep(n)
  BY <1>1, <1>9 DEF AppendSucceeded, AppendRefused, TakeAppendReply
<1>10. CASE Crash(n) \/ CrashBetweenSaves(n)
  BY <1>1, <1>10 DEF Crash, CrashBetweenSaves, LoseMemory
<1>11. CASE Restart(n)
  BY <1>1, <1>11 DEF Restart
<1> HIDE DEF appendNet
<1> QED
  BY <1>2, <1>3, <1>4, <1>5, <1>6, <1>7, <1>8, <1>9, <1>10, <1>11 DEF NodeStep

(* A leader counts for a peer what a successful reply says. *)
LEMMA SelfMatch ==
  ASSUME TypeOK, NEW n \in Node, NodeStep(n)
  PROVE  MatchStep(n)
<1>1. SUFFICES ASSUME role'[n] = Leader, NEW p \in Peers(n)
               PROVE  matchIndex'[n][p] = 0 \/ Counted(n, p)
  BY DEF MatchStep
<1> DEFINE Goal == matchIndex'[n][p] = 0 \/ Counted(n, p)
<1>2. /\ DOMAIN role = Node /\ DOMAIN matchIndex = Node /\ p \in Node
      /\ matchIndex \in [Node -> [Node -> Nat]]
      /\ Follower # Leader /\ Candidate # Leader
  BY DEF TypeOK, Peers, Follower, Leader, Candidate
<1>3. ASSUME matchIndex'[n] = matchIndex[n], role'[n] \in {role[n], Follower, Candidate}
      PROVE  Goal
  <2>1. role[n] = Leader
    BY <1>1, <1>2, <1>3
  <2>2. WentOn(n)
    BY <1>1, <1>2, <2>1, SelfRole DEF RoleStep, Won, FellBack, Ran
  <2> QED
    BY <1>3, <2>1, <2>2 DEF WentOn, Counted
<1>4. ASSUME BecomeLeader(n) PROVE Goal
  <2>1. matchIndex'[n] = [q \in Node |-> 0]
    BY <1>2, <1>4 DEF BecomeLeader
  <2> QED
    BY <1>2, <2>1
<1> HIDE DEF Goal
<1> USE DEF saved, volatile, progress
<1>5. ASSUME ElectionTimeout(n) PROVE Goal
  <2>1. BecomeLeader(n) \/ (matchIndex' = matchIndex /\ role' = [role EXCEPT ![n] = Candidate])
    BY <1>5 DEF ElectionTimeout
  <2> QED
    BY <1>2, <1>3, <1>4, <2>1
<1>6. ASSUME NEW m \in voteReqs, HandleRequestVote(n, m) PROVE Goal
  BY <1>2, <1>3, <1>6 DEF HandleRequestVote, RoleAfter
<1>7. ASSUME NEW r \in voteReps, RequestVoteReplied(n, r) PROVE Goal
  <2>1. BecomeLeader(n) \/ (matchIndex' = matchIndex /\ role' = role)
    BY <1>7 DEF RequestVoteReplied
  <2> QED
    BY <1>2, <1>3, <1>4, <2>1
<1>8. ASSUME NEW r \in voteReps \cup appendReps, ReplyWithNewerTerm(n, r) PROVE Goal
  BY <1>2, <1>3, <1>8 DEF ReplyWithNewerTerm
<1>9. ASSUME NEW c \in Command, Propose(n, c) PROVE Goal
  BY <1>2, <1>3, <1>9 DEF Propose
<1>10. ASSUME NEW q \in Peers(n), ReplicateTo(n, q) PROVE Goal
  BY <1>2, <1>3, <1>10 DEF ReplicateTo
<1>11. ASSUME NEW m \in appendReqs, HandleAppendEntries(n, m) PROVE Goal
  BY <1>2, <1>3, <1>11 DEF HandleAppendEntries
<1>12. ASSUME NEW r \in appendReps, AppendSucceeded(n, r) PROVE Goal
  <2>1. r.req \in AppendEntriesArgs
    BY DEF TypeOK, AppendEntriesReply
  <2>2. PICK k \in Nat : k = r.req.prevLogIndex + Len(r.req.entries)
    <3>1. r.req.prevLogIndex \in Nat /\ Len(r.req.entries) \in Nat
      BY <2>1, LenProperties DEF AppendEntriesArgs
    <3> QED
      BY <3>1
  <2>3. /\ role' = role /\ currentTerm' = currentTerm
        /\ matchIndex' = [matchIndex EXCEPT ![n][r.req.to] = MatchAfter(n, r.req.to, r.req)]
        /\ role[n] = Leader /\ r.success /\ r.req.term = currentTerm[n]
    BY <1>12 DEF AppendSucceeded, TakeAppendReply
  <2>4. CASE p # r.req.to
    <3>1. matchIndex'[n][p] = matchIndex[n][p]
      BY <1>2, <2>3, <2>4
    <3> QED
      BY <2>3, <3>1 DEF Goal, Counted
  <2>5. CASE p = r.req.to
    <3>1. matchIndex'[n][p] = Max({matchIndex[n][p], k})
      BY <1>2, <2>2, <2>3, <2>5 DEF MatchAfter
    <3>2. Max({matchIndex[n][p], k}) \in {matchIndex[n][p], k}
      <4>1. matchIndex[n][p] \in Nat
        BY <1>2
      <4> QED
        BY <4>1, PairExtrema
    <3> QED
      BY <2>2, <2>3, <2>5, <3>1, <3>2 DEF Goal, Counted
  <2> QED
    BY <2>4, <2>5
<1>13. ASSUME NEW r \in appendReps, AppendRefused(n, r) PROVE Goal
  BY <1>2, <1>3, <1>13 DEF AppendRefused
<1>14. ASSUME Crash(n) \/ CrashBetweenSaves(n) PROVE Goal
  BY <1>1, <1>2, <1>14 DEF Crash, CrashBetweenSaves, LoseMemory
<1>15. ASSUME Restart(n) PROVE Goal
  BY <1>2, <1>3, <1>15 DEF Restart
<1> HIDE DEF saved, volatile, progress
<1>16. Goal
  BY <1>5, <1>6, <1>7, <1>8, <1>9, <1>10, <1>11, <1>12, <1>13, <1>14, <1>15
     DEF NodeStep
<1> QED
  BY <1>16 DEF Goal

(* The commit index moves when a leader counts, when a follower merges and *)
(* when a process dies; that of every other node stays.                    *)
LEMMA SelfCommit ==
  ASSUME TypeOK, NEW n \in Node, NodeStep(n)
  PROVE  CommitStep(n) /\ \A p \in Node : p # n => commitIndex'[p] = commitIndex[p]
<1> DEFINE Goal == CommitStep(n) /\ \A p \in Node : p # n => commitIndex'[p] = commitIndex[p]
<1>1. DOMAIN commitIndex = Node /\ DOMAIN role = Node
  BY DEF TypeOK
<1>2. ASSUME committed' = committed, commitIndex' = commitIndex PROVE Goal
  BY <1>2 DEF CommitStep
<1>3. ASSUME role'[n] = Leader, AdvanceCommitIndex(n) PROVE Goal
  BY <1>1, <1>3 DEF CommitStep, AdvanceCommitIndex
<1>4. ASSUME BecomeLeader(n) PROVE Goal
  <2>1. role'[n] = Leader
    BY <1>1, <1>4 DEF BecomeLeader
  <2> QED
    BY <1>3, <1>4, <2>1 DEF BecomeLeader
<1> HIDE DEF Goal
<1> USE DEF volatile, history
<1>5. ASSUME ElectionTimeout(n) PROVE Goal
  <2>1. BecomeLeader(n) \/ (committed' = committed /\ commitIndex' = commitIndex)
    BY <1>5 DEF ElectionTimeout
  <2> QED
    BY <1>2, <1>4, <2>1
<1>6. ASSUME NEW m \in voteReqs, HandleRequestVote(n, m) PROVE Goal
  BY <1>2, <1>6 DEF HandleRequestVote
<1>7. ASSUME NEW r \in voteReps, RequestVoteReplied(n, r) PROVE Goal
  <2>1. BecomeLeader(n) \/ (committed' = committed /\ commitIndex' = commitIndex)
    BY <1>7 DEF RequestVoteReplied
  <2> QED
    BY <1>2, <1>4, <2>1
<1>8. ASSUME NEW r \in voteReps \cup appendReps, ReplyWithNewerTerm(n, r) PROVE Goal
  BY <1>2, <1>8 DEF ReplyWithNewerTerm
<1>9. ASSUME NEW c \in Command, Propose(n, c) PROVE Goal
  BY <1>3, <1>9 DEF Propose
<1>10. ASSUME NEW q \in Peers(n), ReplicateTo(n, q) PROVE Goal
  BY <1>2, <1>10 DEF ReplicateTo
<1>11. ASSUME NEW m \in appendReqs, HandleAppendEntries(n, m) PROVE Goal
  <2>1. \A p \in Node : p # n => commitIndex'[p] = commitIndex[p]
    BY <1>1, <1>11 DEF HandleAppendEntries
  <2>2. CASE m.term = TermAfter(n, m.term) /\ Matches(log[n], m.prevLogIndex, m.prevLogTerm)
    <3>1. Merged(n, m)
      BY <1>11, <2>2, HandleMerges
    <3> QED
      BY <2>1, <3>1 DEF CommitStep, Goal
  <2>3. CASE ~ (m.term = TermAfter(n, m.term) /\ Matches(log[n], m.prevLogIndex, m.prevLogTerm))
    <3>1. commitIndex'[n] = commitIndex[n] /\ committed' = committed
      BY <1>1, <1>11, <2>3 DEF HandleAppendEntries
    <3> QED
      BY <2>1, <3>1 DEF CommitStep, Goal
  <2> QED
    BY <2>2, <2>3
<1>12. ASSUME NEW r \in appendReps, AppendSucceeded(n, r) PROVE Goal
  BY <1>3, <1>12 DEF AppendSucceeded, TakeAppendReply
<1>13. ASSUME NEW r \in appendReps, AppendRefused(n, r) PROVE Goal
  BY <1>2, <1>13 DEF AppendRefused
<1>14. ASSUME Crash(n) \/ CrashBetweenSaves(n) PROVE Goal
  BY <1>1, <1>14 DEF Crash, CrashBetweenSaves, LoseMemory, CommitStep, Goal
<1>15. ASSUME Restart(n) PROVE Goal
  BY <1>2, <1>15 DEF Restart
<1> HIDE DEF volatile, history
<1>16. Goal
  BY <1>5, <1>6, <1>7, <1>8, <1>9, <1>10, <1>11, <1>12, <1>13, <1>14, <1>15
     DEF NodeStep
<1> QED
  BY <1>16 DEF Goal

-----------------------------------------------------------------------------
(* How the histories move with a step of n: the log of the leader of its   *)
(* term is the one it has when it grew; it campaigns with its log in the   *)
(* term of a vote for itself; x is what it has acknowledged in its term.   *)
AckedTo(n, A, x) ==
  \/ Grew(n) /\ x = Len(log'[n])
  \/ \E m \in appendReqs :
       /\ Merged(n, m)
       /\ x = Max({A[n][currentTerm'[n]], m.prevLogIndex + Len(m.entries)})
  \/ /\ ~ Grew(n) /\ Kept(n) /\ \A m \in appendReqs : ~ Merged(n, m)
     /\ x = A[n][currentTerm'[n]]
Successors(n, H, C, A, G, D, B) ==
  /\ G = IF Grew(n) THEN [H EXCEPT ![currentTerm'[n]] = log'[n]] ELSE H
  /\ D = IF SelfVoted(n) THEN [C EXCEPT ![n] = [C[n] EXCEPT ![disk'[n].term] = log[n]]]
                         ELSE C
  /\ \E x \in Nat : /\ AckedTo(n, A, x)
                    /\ B = [A EXCEPT ![n] = [A[n] EXCEPT ![currentTerm'[n]] = x]]
Moves(n, H, C, A, G, D, B) ==
  /\ NodeStep(n) /\ Inv /\ Inv' /\ Explained(H, C, A)
  /\ Histories(G, D, B) /\ Successors(n, H, C, A, G, D, B)

(* The types of what a step starts from and ends in; no term decreases.    *)
Typed(p) ==
  /\ log[p] \in Logs /\ log'[p] \in Logs /\ Len(log[p]) \in Nat /\ Len(log'[p]) \in Nat
  /\ currentTerm[p] \in Nat /\ currentTerm'[p] \in Nat
  /\ disk[p].term \in Nat /\ disk'[p].term \in Nat
  /\ currentTerm[p] <= currentTerm'[p] /\ disk[p].term <= disk'[p].term
  /\ currentTerm[p] <= disk[p].term /\ currentTerm'[p] <= disk'[p].term
  /\ up[p] => currentTerm[p] = disk[p].term
  /\ role'[p] # Follower => currentTerm'[p] = disk'[p].term

(* They hold of every node. *)
LEMMA StepTyped ==
  ASSUME Inv, Inv', NEW n \in Node, NodeStep(n), NEW p \in Node
  PROVE  Typed(p)
<1>1. TypeOK /\ TypeOK' /\ Synced /\ Synced'
  BY DEF Inv, StructureInv
<1>2. /\ log[p] \in Logs /\ Len(log[p]) \in Nat
      /\ currentTerm[p] \in Nat /\ disk[p].term \in Nat
  BY <1>1, NodeTypes DEF Logs
<1>3. /\ log' \in [Node -> Seq(Entry)] /\ disk' \in [Node -> PersistentState]
      /\ currentTerm' \in [Node -> Nat]
      /\ ~ up'[p] => role'[p] = Follower
  BY <1>1 DEF TypeOK
<1>4. /\ log'[p] \in Logs /\ Len(log'[p]) \in Nat
      /\ currentTerm'[p] \in Nat /\ disk'[p].term \in Nat
  <2>1. log'[p] \in Logs /\ currentTerm'[p] \in Nat /\ disk'[p].term \in Nat
    BY <1>3 DEF Logs, PersistentState
  <2> QED
    BY <2>1, LogFacts
<1>5. disk[p].term <= disk'[p].term
  <2>1. disk'[p].term >= disk[p].term
    BY <1>1, SyncedStep
  <2> QED
    BY <1>2, <1>4, <2>1
<1>6. currentTerm[p] <= currentTerm'[p]
  <2>1. CASE p = n
    <3>1. currentTerm'[n] >= currentTerm[n]
      BY <1>1, SelfBallot DEF BallotStep
    <3> QED
      BY <1>2, <1>4, <2>1, <3>1
  <2>2. CASE p # n
    <3>1. currentTerm'[p] = currentTerm[p]
      BY <1>1, <2>2, OthersUntouched DEF Untouched
    <3> QED
      BY <1>2, <3>1
  <2> QED
    BY <2>1, <2>2
<1>7. /\ disk[p].term >= currentTerm[p] /\ disk'[p].term >= currentTerm'[p]
      /\ up[p] => disk[p].term = currentTerm[p]
      /\ up'[p] => disk'[p].term = currentTerm'[p]
  BY <1>1 DEF Synced, SyncedAt
<1>8. currentTerm[p] <= disk[p].term /\ currentTerm'[p] <= disk'[p].term
  BY <1>2, <1>4, <1>7
<1> QED
  BY <1>2, <1>3, <1>4, <1>5, <1>6, <1>7, <1>8 DEF Typed

(* Node p and its histories are where they were. *)
Stayed(p, C, A, D, B) ==
  /\ log'[p] = log[p] /\ currentTerm'[p] = currentTerm[p] /\ role'[p] = role[p]
  /\ disk'[p] = disk[p] /\ matchIndex'[p] = matchIndex[p]
  /\ commitIndex'[p] = commitIndex[p]
  /\ D[p] = C[p] /\ B[p] = A[p]

(* A step of n moves no other node, and no history of one. *)
LEMMA MoveOthers ==
  ASSUME NEW n \in Node, NEW H, NEW C, NEW A, NEW G, NEW D, NEW B,
         Moves(n, H, C, A, G, D, B), NEW p \in Node, p # n
  PROVE  Stayed(p, C, A, D, B)
<1>1. TypeOK /\ NodeStep(n)
  BY DEF Moves, Inv, StructureInv
<1>2. C \in [Node -> [Nat -> Logs]] /\ A \in [Node -> [Nat -> Nat]]
  BY DEF Moves, Explained, Histories
<1>3. D[p] = C[p]
  BY <1>2 DEF Moves, Successors
<1>4. B[p] = A[p]
  BY <1>2 DEF Moves, Successors
<1> QED
  BY <1>1, <1>3, <1>4, OthersUntouched, SelfCommit DEF Untouched, Stayed

(* The terms at which the histories of n may move. *)
Moved(n, H, C, A, G, D, B) ==
  /\ H \in [Nat -> Logs] /\ G \in [Nat -> Logs]
  /\ C \in [Node -> [Nat -> Logs]] /\ D \in [Node -> [Nat -> Logs]]
  /\ A \in [Node -> [Nat -> Nat]] /\ B \in [Node -> [Nat -> Nat]]
  /\ \A p \in Node : Typed(p)
  /\ \A t \in Nat : t # currentTerm'[n] => G[t] = H[t] /\ B[n][t] = A[n][t]
  /\ ~ Grew(n) => G = H
  /\ Grew(n) => G[currentTerm'[n]] = log'[n]
  /\ ~ SelfVoted(n) => D = C
  /\ SelfVoted(n) => D[n][disk'[n].term] = log[n]
  /\ \A t \in Nat : t # disk'[n].term => D[n][t] = C[n][t]
  /\ AckedTo(n, A, B[n][currentTerm'[n]])

(* They move there and nowhere else. *)
LEMMA MoveSelf ==
  ASSUME NEW n \in Node, NEW H, NEW C, NEW A, NEW G, NEW D, NEW B,
         Moves(n, H, C, A, G, D, B)
  PROVE  Moved(n, H, C, A, G, D, B)
<1>1. /\ H \in [Nat -> Logs] /\ G \in [Nat -> Logs]
      /\ C \in [Node -> [Nat -> Logs]] /\ D \in [Node -> [Nat -> Logs]]
      /\ A \in [Node -> [Nat -> Nat]] /\ B \in [Node -> [Nat -> Nat]]
  BY DEF Moves, Explained, Histories
<1>2. \A p \in Node : Typed(p)
  BY StepTyped DEF Moves
<1>3. currentTerm'[n] \in Nat /\ disk'[n].term \in Nat
  BY <1>2 DEF Typed
<1>4. /\ ~ Grew(n) => G = H
      /\ Grew(n) => G = [H EXCEPT ![currentTerm'[n]] = log'[n]]
      /\ ~ SelfVoted(n) => D = C
      /\ SelfVoted(n) => D = [C EXCEPT ![n] = [C[n] EXCEPT ![disk'[n].term] = log[n]]]
  BY DEF Moves, Successors
<1>5. PICK x \in Nat : /\ AckedTo(n, A, x)
                       /\ B = [A EXCEPT ![n] = [A[n] EXCEPT ![currentTerm'[n]] = x]]
  BY DEF Moves, Successors
<1>6. C[n] \in [Nat -> Logs] /\ A[n] \in [Nat -> Nat]
  BY <1>1
<1>7. /\ \A t \in Nat : t # currentTerm'[n] => G[t] = H[t]
      /\ Grew(n) => G[currentTerm'[n]] = log'[n]
  BY <1>1, <1>3, <1>4
<1>8. B[n] = [A[n] EXCEPT ![currentTerm'[n]] = x]
  BY <1>1, <1>5
<1>9. B[n][currentTerm'[n]] = x /\ \A t \in Nat : t # currentTerm'[n] => B[n][t] = A[n][t]
  BY <1>3, <1>6, <1>8
<1>10. SelfVoted(n) => D[n] = [C[n] EXCEPT ![disk'[n].term] = log[n]]
  BY <1>1, <1>4
<1>11. /\ SelfVoted(n) => D[n][disk'[n].term] = log[n]
       /\ \A t \in Nat : t # disk'[n].term => D[n][t] = C[n][t]
  BY <1>3, <1>4, <1>6, <1>10
<1> QED
  BY <1>1, <1>2, <1>4, <1>5, <1>7, <1>9, <1>11 DEF Moved

(* A leader adds to the log of its term, of which there was nothing before *)
(* it was elected.                                                         *)
LEMMA GrewFrom ==
  ASSUME NEW n \in Node, NEW H, NEW C, NEW A, NEW G, NEW D, NEW B,
         Moves(n, H, C, A, G, D, B), Grew(n)
  PROVE  Len(H[currentTerm'[n]]) = 0 \/ H[currentTerm'[n]] = log[n]
<1>1. Inv /\ Inv' /\ NodeStep(n) /\ Owners(H, C) /\ Typed(n) /\ LeadersKnown
      /\ TypeOK /\ TypeOK' /\ Synced
  BY MoveSelf DEF Moved, Moves, Explained, Inv, StructureInv
<1>2. CASE role[n] = Leader /\ currentTerm'[n] = currentTerm[n]
  BY <1>1, <1>2 DEF Owners
<1>3. CASE Won(n)
  <2>1. SUFFICES ASSUME H[currentTerm'[n]] # <<>> PROVE FALSE
    OBVIOUS
  <2>2. PICK p \in Node : <<p, currentTerm'[n]>> \in leaders
    BY <1>1, <2>1 DEF Owners, Typed
  <2>3. leaders \subseteq leaders' /\ <<n, currentTerm'[n]>> \in leaders'
    BY <1>3 DEF Won
  <2>4. ElectionSafety'
    BY <1>1, InvOneLeaderNext
  <2>5. p = n
    BY <2>2, <2>3, <2>4 DEF ElectionSafety
  <2>6. currentTerm'[n] <= disk[n].term /\ disk[n].term = currentTerm[n]
        /\ currentTerm[n] \in Nat
    <3>1. <<n, currentTerm'[n]>> \in leaders
      BY <2>2, <2>5
    <3>2. <<n, currentTerm'[n]>>[1] = n /\ <<n, currentTerm'[n]>>[2] = currentTerm'[n]
      OBVIOUS
    <3>3. currentTerm'[n] <= disk[n].term
      BY <1>1, <3>1, <3>2 DEF LeadersKnown, LeadersSaved
    <3> QED
      BY <1>1, <1>3, <3>3 DEF Won, Typed
  <2>7. role[n] = Candidate /\ currentTerm'[n] = currentTerm[n]
    <3>1. currentTerm'[n] # currentTerm[n] + 1
      BY <1>1, <2>6 DEF Typed
    <3> QED
      BY <1>3, <3>1 DEF Won
  <2> QED
    BY <1>1, <2>2, <2>5, <2>7 DEF LeadersKnown, LeadersSaved
<1> QED
  BY <1>2, <1>3 DEF Grew

(* The logs of the leaders only grow, stay grounded, and the one entry     *)
(* they may get is the last of the log that grew.                          *)
LEMMA HistoryGrows ==
  ASSUME NEW n \in Node, NEW H, NEW C, NEW A, NEW G, NEW D, NEW B,
         Moves(n, H, C, A, G, D, B)
  PROVE  /\ Extends(G, H)
         /\ \A t \in Nat : Grounded(G[t], G, t)
         /\ \A t, a \in Nat : Created(t, a, G) =>
              \/ Created(t, a, H)
              \/ Grew(n) /\ t = currentTerm'[n] /\ a = Len(log'[n]) /\ a > Len(H[t])
<1>1. /\ H \in [Nat -> Logs] /\ G \in [Nat -> Logs] /\ Typed(n)
      /\ \A t \in Nat : t # currentTerm'[n] => G[t] = H[t]
      /\ ~ Grew(n) => G = H
      /\ Grew(n) => G[currentTerm'[n]] = log'[n]
  BY SMTT(30), MoveSelf DEF Moved
<1>2. /\ \A t \in Nat : Grounded(H[t], H, t)
      /\ Grounded(log[n], H, currentTerm[n])
  BY DEF Moves, Explained, LogsGrounded
<1>3. CASE ~ Grew(n)
  <2>1. G = H
    BY <1>1, <1>3
  <2>2. Extends(H, H)
    <3> SUFFICES ASSUME NEW t \in Nat PROVE SameUpTo(Len(H[t]), H[t], H[t])
      BY DEF Extends
    <3>1. Len(H[t]) \in Nat
      BY <1>1, LogFacts
    <3> QED
      BY <3>1 DEF SameUpTo
  <2> QED
    BY <1>2, <2>1, <2>2
<1>4. CASE Grew(n)
  <2>1. PICK u \in Nat : u = currentTerm'[n]
    BY <1>1 DEF Typed
  <2>2. PICK s \in Nat : s = currentTerm[n]
    BY <1>1 DEF Typed
  <2>3. PICK l \in Logs : l = log[n]
    BY <1>1 DEF Typed
  <2>4. s <= u /\ Grounded(l, H, s)
    BY <1>1, <1>2, <2>1, <2>2, <2>3 DEF Typed
  <2>5. Len(H[u]) = 0 \/ H[u] = l
    BY <1>4, <2>1, <2>3, GrewFrom
  <2>6. OneMore(G[u], l, u) /\ G[u] = log'[n] /\ \A t \in Nat : t # u => G[t] = H[t]
    BY <1>1, <1>4, <2>1, <2>3 DEF Grew
  <2>7. /\ Extends(G, H) /\ Grounded(G[u], G, u)
        /\ \A a \in Nat : Created(u, a, G) =>
             Created(u, a, H) \/ (a = Len(l) + 1 /\ a > Len(H[u]))
    BY <1>1, <2>4, <2>5, <2>6, GroundedOneMore
  <2>8. ASSUME NEW t \in Nat PROVE Grounded(G[t], G, t)
    <3>1. CASE t = u
      BY <2>7, <3>1
    <3>2. CASE t # u
      <4>1. G[t] = H[t] /\ H[t] \in Logs /\ Grounded(H[t], H, t) /\ t <= t
        BY <1>1, <1>2, <2>6, <3>2
      <4>2. Grounded(H[t], G, t)
        BY <1>1, <2>7, <4>1, GroundedMono
      <4> QED
        BY <4>1, <4>2
    <3> QED
      BY <3>1, <3>2
  <2>9. Len(log'[n]) = Len(l) + 1
    BY <2>6 DEF OneMore
  <2>10. \A t, a \in Nat : t # u => (Created(t, a, G) => Created(t, a, H))
    BY <2>6 DEF Created
  <2> QED
    BY <1>4, <2>1, <2>7, <2>8, <2>9, <2>10
<1> QED
  BY <1>3, <1>4

(* What a merge of a request m leaves: all of the section that m carries   *)
(* and all that the log shared with the log of m's leader before.          *)
LEMMA MergeLeaves ==
  ASSUME NEW n \in Node, NEW H, NEW C, NEW A, NEW G, NEW D, NEW B,
         Moves(n, H, C, A, G, D, B), NEW m \in appendReqs, Merged(n, m)
  PROVE  /\ G = H /\ m.term \in Nat /\ H[m.term] \in Logs
         /\ m.prevLogIndex + Len(m.entries) \in Nat
         /\ SameUpTo(m.prevLogIndex + Len(m.entries), log'[n], H[m.term])
         /\ \/ log'[n] = log[n]
            \/ Len(log'[n]) = m.prevLogIndex + Len(m.entries)
         /\ \A a \in Nat : SameUpTo(a, log[n], H[m.term]) =>
                             SameUpTo(a, log'[n], H[m.term])
<1>1. H \in [Nat -> Logs] /\ Typed(n) /\ (~ Grew(n) => G = H)
  BY MoveSelf DEF Moved
<1>2. ~ Grew(n)
  BY DEF Grew, Merged, Leader, Follower
<1>3. TypeOK /\ Section(m, H) /\ LogsGrounded(H, C)
  BY DEF Moves, Explained, Sections, Inv, StructureInv
<1>4. m.term \in Nat /\ m.prevLogIndex \in Nat /\ m.entries \in Logs
  BY <1>3 DEF TypeOK, AppendEntriesArgs, Logs
<1>5. PICK t \in Nat : t = m.term
  BY <1>4
<1>6. PICK prev \in Nat : prev = m.prevLogIndex
  BY <1>4
<1>7. PICK es \in Logs : es = m.entries
  BY <1>4
<1>8. PICK l \in Logs : l = log[n]
  BY <1>1 DEF Typed
<1>9. PICK s \in Nat : s = currentTerm[n]
  BY <1>1 DEF Typed
<1>10. PICK h \in Logs : h = H[t]
  BY <1>1
<1>11. Grounded(l, H, s) /\ Grounded(h, H, t) /\ Follow(es, prev, h)
  BY <1>3, <1>5, <1>6, <1>7, <1>8, <1>9, <1>10 DEF LogsGrounded, Section
<1>12. /\ prev \in 0 .. Len(l) /\ TermAt(l, prev) = TermAt(h, prev)
       /\ log'[n] = AppendNew(l, prev, es)
  BY <1>3, <1>5, <1>6, <1>7, <1>8, <1>10 DEF Merged, Matches, Section
<1>13. prev <= Len(l) /\ prev + Len(es) \in Nat
  BY <1>12, LogFacts
<1>14. /\ SameUpTo(prev + Len(es), log'[n], h)
       /\ log'[n] = l \/ Len(log'[n]) = prev + Len(es)
       /\ \A a \in Nat : SameUpTo(a, l, h) => SameUpTo(a, log'[n], h)
  <2>1. /\ SameUpTo(prev + Len(es), AppendNew(l, prev, es), h)
        /\ \/ AppendNew(l, prev, es) = l
           \/ Len(AppendNew(l, prev, es)) = prev + Len(es)
        /\ \A a \in Nat : SameUpTo(a, l, h) => SameUpTo(a, AppendNew(l, prev, es), h)
    BY <1>1, <1>11, <1>12, <1>13, AppendNewMerges
  <2> QED
    BY <1>12, <2>1
<1> QED
  BY <1>1, <1>2, <1>5, <1>6, <1>7, <1>8, <1>10, <1>13, <1>14

(* Every log stays grounded. *)
LEMMA GroundedStep ==
  ASSUME NEW n \in Node, NEW H, NEW C, NEW A, NEW G, NEW D, NEW B,
         Moves(n, H, C, A, G, D, B)
  PROVE  LogsGrounded(G, D)'
<1>1. /\ H \in [Nat -> Logs] /\ G \in [Nat -> Logs] /\ \A p \in Node : Typed(p)
      /\ C \in [Node -> [Nat -> Logs]]
      /\ Grew(n) => G[currentTerm'[n]] = log'[n]
      /\ ~ SelfVoted(n) => D = C
      /\ SelfVoted(n) => D[n][disk'[n].term] = log[n]
      /\ \A t \in Nat : t # disk'[n].term => D[n][t] = C[n][t]
  BY SMTT(30), MoveSelf DEF Moved
<1>2. Extends(G, H) /\ \A t \in Nat : Grounded(G[t], G, t)
  BY HistoryGrows
<1>3. LogsGrounded(H, C)
  BY DEF Moves, Explained
<1>4. ASSUME NEW l \in Logs, NEW s \in Nat, NEW t \in Nat, s <= t, Grounded(l, H, s)
      PROVE  Grounded(l, G, t)
  BY <1>1, <1>2, <1>4, GroundedMono
<1>5. \A p \in Node : Grounded(log[p], G, currentTerm'[p])
  BY <1>1, <1>3, <1>4 DEF Typed, LogsGrounded
<1>6. ASSUME NEW p \in Node PROVE Grounded(log'[p], G, currentTerm'[p])
  <2>1. CASE log'[p] = log[p]
    BY <1>5, <2>1
  <2>2. CASE p = n /\ Grew(n)
    BY <1>1, <1>2, <2>2 DEF Typed
  <2>3. ASSUME NEW m \in appendReqs, p = n, Merged(n, m)
        PROVE  Grounded(log'[p], G, currentTerm'[p])
    <3>1. /\ G = H /\ m.term \in Nat /\ H[m.term] \in Logs
          /\ SameUpTo(m.prevLogIndex + Len(m.entries), log'[n], H[m.term])
          /\ log'[n] = log[n] \/ Len(log'[n]) = m.prevLogIndex + Len(m.entries)
      BY <2>3, MergeLeaves
    <3>2. ASSUME log'[n] # log[n] PROVE Grounded(log'[n], G, m.term)
      <4>1. SameUpTo(Len(log'[n]), log'[n], G[m.term])
        BY <3>1, <3>2
      <4> QED
        BY <1>1, <1>2, <3>1, <4>1, GroundedPrefix DEF Typed
    <3>3. m.term = currentTerm'[n]
      BY <2>3 DEF Merged
    <3> QED
      BY <2>1, <2>3, <3>2, <3>3
  <2>4. p # n => Stayed(p, C, A, D, B)
    BY MoveOthers
  <2>5. LogStep(n)
    BY SelfLog DEF Moves, Inv, StructureInv
  <2> QED
    BY <2>1, <2>2, <2>3, <2>4, <2>5 DEF LogStep, Kept, Stayed
<1>7. ASSUME NEW p \in Node, NEW t \in Nat PROVE Grounded(D[p][t], G, t)
  <2>1. CASE D[p][t] = C[p][t]
    <3>1. C[p][t] \in Logs /\ t <= t /\ Grounded(C[p][t], H, t)
      BY <1>1, <1>3 DEF LogsGrounded
    <3> QED
      BY <1>4, <2>1, <3>1
  <2>2. CASE p = n /\ SelfVoted(n) /\ t = disk'[n].term
    <3>1. D[p][t] = log[n] /\ Grounded(log[n], G, currentTerm'[n])
      BY <1>1, <1>5, <2>2
    <3>2. Extends(G, G)
      <4> SUFFICES ASSUME NEW u \in Nat PROVE SameUpTo(Len(G[u]), G[u], G[u])
        BY DEF Extends
      <4>1. Len(G[u]) \in Nat
        BY <1>1, LogFacts
      <4> QED
        BY <4>1 DEF SameUpTo
    <3>3. Grounded(log[n], G, t)
      BY <1>1, <2>2, <3>1, <3>2, GroundedMono DEF Typed
    <3> QED
      BY <3>1, <3>3
  <2>3. p # n => Stayed(p, C, A, D, B)
    BY MoveOthers
  <2>4. p = n /\ t # disk'[n].term => D[p][t] = C[p][t]
    BY <1>1
  <2> QED
    BY <1>1, <2>1, <2>2, <2>3, <2>4 DEF Stayed
<1> QED
  BY <1>2, <1>6, <1>7 DEF LogsGrounded

(* What a node campaigned with is not rewritten. *)
LEMMA CampaignsKept ==
  ASSUME NEW n \in Node, NEW H, NEW C, NEW A, NEW G, NEW D, NEW B,
         Moves(n, H, C, A, G, D, B), NEW p \in Node, NEW t \in Nat, t <= disk[p].term
  PROVE  D[p][t] = C[p][t]
<1>1. Moved(n, H, C, A, G, D, B)
  BY MoveSelf
<1>2. p # n => Stayed(p, C, A, D, B)
  BY MoveOthers
<1>3. CASE p # n
  BY <1>2, <1>3 DEF Stayed
<1>4. CASE p = n /\ ~ SelfVoted(n)
  BY <1>1, <1>4 DEF Moved
<1>5. CASE p = n /\ SelfVoted(n)
  <2>1. disk'[n].term > disk[n].term
    BY <1>5 DEF SelfVoted
  <2>2. disk[n].term \in Nat /\ disk'[n].term \in Nat
    BY <1>1 DEF Moved, Typed
  <2>3. t # disk'[n].term
    BY <1>5, <2>1, <2>2
  <2> QED
    BY <1>1, <1>5, <2>3 DEF Moved
<1> QED
  BY <1>3, <1>4, <1>5

(* Who leads has the log of its term. *)
LEMMA LeadersOwn ==
  ASSUME NEW n \in Node, NEW H, NEW C, NEW A, NEW G, NEW D, NEW B,
         Moves(n, H, C, A, G, D, B)
  PROVE  /\ \A t \in Nat : G[t] # <<>> => \E p \in Node : <<p, t>> \in leaders'
         /\ \A p \in Node : role'[p] = Leader => G[currentTerm'[p]] = log'[p]
         /\ role'[n] = Leader /\ ~ Grew(n) =>
              role[n] = Leader /\ currentTerm'[n] = currentTerm[n] /\ log'[n] = log[n]
<1>1. /\ Inv /\ Inv' /\ NodeStep(n) /\ Owners(H, C) /\ LeadersKnown /\ LeadersKnown'
      /\ TypeOK /\ TypeOK' /\ Synced
  BY DEF Moves, Explained, Inv, StructureInv
<1>2. Moved(n, H, C, A, G, D, B)
  BY MoveSelf
<1>3. \A t \in Nat : G[t] = H[t] \/ (Grew(n) /\ t = currentTerm'[n])
  BY <1>2 DEF Moved
<1>4. leaders \subseteq leaders'
  BY <1>1, LeadersKnownStep
<1>5. ElectionSafety'
  BY <1>1, InvOneLeaderNext
<1>6. Grew(n) => <<n, currentTerm'[n]>> \in leaders'
  BY <1>1 DEF LeadersKnown, Grew
<1>7. ASSUME NEW t \in Nat, G[t] # <<>> PROVE \E p \in Node : <<p, t>> \in leaders'
  <2>1. CASE G[t] = H[t]
    BY <1>1, <1>4, <1>7, <2>1 DEF Owners
  <2>2. CASE Grew(n) /\ t = currentTerm'[n]
    BY <1>6, <2>2
  <2> QED
    BY <1>3, <2>1, <2>2
<1>8. ASSUME role'[n] = Leader, ~ Grew(n)
      PROVE  role[n] = Leader /\ currentTerm'[n] = currentTerm[n] /\ log'[n] = log[n]
  <2>1. \A m \in appendReqs : ~ Merged(n, m)
    BY <1>8 DEF Merged, Leader, Follower
  <2>2. Kept(n)
    BY <1>1, <1>8, <2>1, SelfLog DEF LogStep
  <2>3. ~ Won(n)
    <3>1. Len(log[n]) \in Nat
      BY <1>2 DEF Moved, Typed
    <3> QED
      BY SMTT(30), <2>2, <3>1 DEF Won, Kept
  <2>4. WentOn(n)
    BY <1>1, <1>8, <2>3, SelfRole DEF RoleStep, FellBack, Ran, Leader, Follower, Candidate
  <2> QED
    BY <1>8, <2>2, <2>4 DEF WentOn, Kept
<1>9. ASSUME NEW p \in Node, role'[p] = Leader PROVE G[currentTerm'[p]] = log'[p]
  <2>1. CASE p = n /\ Grew(n)
    BY <1>2, <2>1 DEF Moved
  <2>2. CASE p = n /\ ~ Grew(n)
    <3>1. role[n] = Leader /\ currentTerm'[n] = currentTerm[n] /\ log'[n] = log[n]
      BY <1>8, <1>9, <2>2
    <3>2. H[currentTerm[n]] = log[n]
      BY <1>1, <3>1 DEF Owners
    <3>3. G = H
      BY <1>2, <2>2 DEF Moved
    <3> QED
      BY <2>2, <3>1, <3>2, <3>3
  <2>3. CASE p # n
    <3>1. Stayed(p, C, A, D, B)
      BY <2>3, MoveOthers
    <3>2. H[currentTerm'[p]] = log'[p]
      BY <1>1, <1>9, <3>1 DEF Stayed, Owners
    <3>3. currentTerm'[p] \in Nat
      BY <1>2 DEF Moved, Typed
    <3>4. ~ (Grew(n) /\ currentTerm'[p] = currentTerm'[n])
      <4>1. <<p, currentTerm'[p]>> \in leaders'
        BY <1>1, <1>9 DEF LeadersKnown
      <4> QED
        BY <1>5, <1>6, <2>3, <4>1 DEF ElectionSafety
    <3> QED
      BY <1>3, <3>2, <3>3, <3>4
  <2> QED
    BY <2>1, <2>2, <2>3
<1> QED
  BY <1>7, <1>8, <1>9

(* Who runs for election does so with the log it has. *)
LEMMA CandidatesOwn ==
  ASSUME NEW n \in Node, NEW H, NEW C, NEW A, NEW G, NEW D, NEW B,
         Moves(n, H, C, A, G, D, B), NEW p \in Node, role'[p] = Candidate
  PROVE  D[p][currentTerm'[p]] = log'[p]
<1>1. NodeStep(n) /\ Owners(H, C) /\ TypeOK /\ TypeOK' /\ Synced
  BY DEF Moves, Explained, Inv, StructureInv
<1>2. CASE p # n
  <2>1. Stayed(p, C, A, D, B)
    BY <1>2, MoveOthers
  <2> QED
    BY <1>1, <2>1 DEF Stayed, Owners
<1>3. CASE p = n
  <2>1. Moved(n, H, C, A, G, D, B)
    BY MoveSelf
  <2>2. role'[n] # Follower /\ role'[n] # Leader
    BY <1>3 DEF Follower, Leader, Candidate
  <2>3. log'[n] = log[n]
    BY <1>1, <2>2, SelfLog DEF LogStep, Kept, Grew, Merged
  <2>4. CASE SelfVoted(n)
    <3>1. currentTerm'[n] = disk'[n].term
      BY <2>1, <2>2 DEF Moved, Typed
    <3> QED
      BY <1>3, <2>1, <2>3, <2>4, <3>1 DEF Moved
  <2>5. CASE ~ SelfVoted(n)
    <3>1. currentTerm'[n] = currentTerm[n] /\ currentTerm[n] \in Nat
      BY <1>1, <2>1, <2>2, <2>5, SelfBallot DEF BallotStep, Moved, Typed
    <3>2. currentTerm'[n] # currentTerm[n] + 1
      BY <3>1
    <3>3. role[n] = Candidate
      BY <1>1, <1>3, <2>2, <3>2, SelfRole DEF RoleStep, Won, WentOn, FellBack, Ran
    <3>4. D = C
      BY <2>1, <2>5 DEF Moved
    <3> QED
      BY <1>1, <1>3, <2>3, <3>1, <3>3, <3>4 DEF Owners
  <2> QED
    BY <2>4, <2>5
<1> QED
  BY <1>2, <1>3

(* Votes and RequestVote messages are for campaigns on record. *)
LEMMA OwnersStep ==
  ASSUME NEW n \in Node, NEW H, NEW C, NEW A, NEW G, NEW D, NEW B,
         Moves(n, H, C, A, G, D, B)
  PROVE  Owners(G, D)'
<1>1. NodeStep(n) /\ Owners(H, C) /\ TypeOK /\ TypeOK' /\ Synced /\ CallsOnce
  BY DEF Moves, Explained, Inv, StructureInv, ElectionInv
<1>2. Moved(n, H, C, A, G, D, B)
  BY MoveSelf
<1>3. \A p \in Node : Typed(p)
  BY <1>2 DEF Moved
<1>4. /\ \A m \in voteReqs : m.from \in Node /\ m.term \in Nat /\ m.term <= disk[m.from].term
      /\ \A b \in ballots : b[2] \in Nat /\ b[3] \in Node
  BY <1>1 DEF TypeOK, RequestVoteArgs, CallsOnce
<1>5. ASSUME NEW b \in ballots' PROVE b[2] <= disk'[b[3]].term
  <2>1. CASE b \in ballots
    <3>1. b[2] \in Nat /\ b[3] \in Node /\ b[2] <= disk[b[3]].term
      BY <1>1, <1>4, <2>1 DEF Owners
    <3> QED
      BY SMTT(30), <1>3, <3>1 DEF Typed
  <2>2. CASE b = <<n, disk'[n].term, n>>
    BY SMTT(30), <1>3, <2>2 DEF Typed
  <2>3. ASSUME NEW m \in voteReqs, b = <<n, m.term, m.from>> PROVE b[2] <= disk'[b[3]].term
    <3>1. m.from \in Node /\ m.term \in Nat /\ m.term <= disk[m.from].term
      BY <1>4
    <3>2. m.term <= disk'[m.from].term
      BY SMTT(30), <1>3, <3>1 DEF Typed
    <3> QED
      BY <2>3, <3>2
  <2>4. BallotStep(n)
    BY <1>1, SelfBallot
  <2> QED
    BY <2>1, <2>2, <2>3, <2>4 DEF BallotStep, SelfVoted, Granted
<1>6. ASSUME NEW m \in voteReqs'
      PROVE  /\ m.lastLogIndex = Len(D[m.from][m.term])
             /\ m.lastLogTerm = LastTerm(D[m.from][m.term])
  <2>1. CASE m \in voteReqs
    <3>1. m.from \in Node /\ m.term \in Nat /\ m.term <= disk[m.from].term
      BY <1>4, <2>1
    <3>2. D[m.from][m.term] = C[m.from][m.term]
      BY SMTT(30), <3>1, CampaignsKept
    <3> QED
      BY <1>1, <2>1, <3>2 DEF Owners
  <2>2. CASE m \notin voteReqs
    <3>1. Asked(n)
      BY <1>1, <2>2, SelfVoteNet DEF TookVoteReps, Answered
    <3>2. m = [from |-> n, boot |-> boot[n], to |-> m.to,
               term |-> currentTerm[n] + 1, lastLogIndex |-> Len(log[n]),
               lastLogTerm |-> LastTerm(log[n])]
      BY <2>2, <3>1 DEF Asked
    <3>3. /\ m.from = n /\ m.term = currentTerm[n] + 1
          /\ m.lastLogIndex = Len(log[n]) /\ m.lastLogTerm = LastTerm(log[n])
      BY <3>2
    <3>4. SelfVoted(n) /\ disk'[n].term = currentTerm[n] + 1
      BY <1>1, <3>1, ElectionVotes DEF Asked
    <3>5. D[n][disk'[n].term] = log[n]
      BY <1>2, <3>4 DEF Moved
    <3> QED
      BY <3>3, <3>4, <3>5
  <2> QED
    BY <2>1, <2>2
<1>7. /\ \A t \in Nat : G[t] # <<>> => \E p \in Node : <<p, t>> \in leaders'
      /\ \A p \in Node : role'[p] = Leader => G[currentTerm'[p]] = log'[p]
  BY SMTT(30), LeadersOwn
<1>8. \A p \in Node : role'[p] = Candidate => D[p][currentTerm'[p]] = log'[p]
  BY SMTT(30), CandidatesOwn
<1> QED
  BY <1>5, <1>6, <1>7, <1>8 DEF Owners

(* Every AppendEntries request carries a section of the log of its term. *)
LEMMA SectionsStep ==
  ASSUME NEW n \in Node, NEW H, NEW C, NEW A, NEW G, NEW D, NEW B,
         Moves(n, H, C, A, G, D, B)
  PROVE  Sections(G)'
<1>1. NodeStep(n) /\ Sections(H) /\ TypeOK /\ TypeOK' /\ NextIndexInLog /\ Owners(H, C)
  BY DEF Moves, Explained, Inv, StructureInv
<1>2. H \in [Nat -> Logs] /\ G \in [Nat -> Logs]
  BY DEF Moves, Explained, Histories
<1>3. Extends(G, H)
  BY HistoryGrows
<1>4. ASSUME NEW m \in AppendEntriesArgs, Section(m, H) PROVE Section(m, G)
  BY <1>2, <1>3, <1>4, SectionGrows
<1>5. ASSUME NEW m \in appendReqs PROVE Section(m, G)
  BY <1>1, <1>4 DEF TypeOK, Sections
<1>6. ASSUME NEW m \in appendReqs', m \notin appendReqs PROVE Section(m, G)
  <2>1. PICK q \in Peers(n) : ReplicateTo(n, q)
    BY <1>1, <1>6, AppendNetStep
  <2> DEFINE prev == nextIndex[n][q] - 1
             es == EntriesFrom(log[n], prev + 1, MaxEntriesPerAppend)
  <2>2. /\ m.term = currentTerm[n] /\ m.prevLogIndex = prev /\ m.entries = es
        /\ m.prevLogTerm = TermAt(log[n], prev)
    <3> HIDE DEF es
    <3>1. m = [from |-> n, boot |-> boot[n], to |-> q, term |-> currentTerm[n],
               prevLogIndex |-> prev, prevLogTerm |-> TermAt(log[n], prev),
               entries |-> es, leaderCommit |-> commitIndex[n]]
      BY <1>6, <2>1 DEF ReplicateTo, es
    <3> QED
      BY <3>1
  <2>3. role[n] = Leader
    BY <2>1 DEF ReplicateTo
  <2>4. H[currentTerm[n]] = log[n]
    BY <1>1, <2>3 DEF Owners
  <2>5. nextIndex[n][q] \in 1 .. Len(log[n]) + 1 /\ Len(log[n]) \in Nat
    BY <1>1, <2>3, NodeTypes DEF NextIndexInLog
  <2>6. Follow(es, prev, log[n])
    <3>1. PICK lo \in 1 .. Len(log[n]) + 1 : lo = nextIndex[n][q] /\ lo = prev + 1
                                              /\ prev = lo - 1
      BY <2>5
    <3>2. log[n] \in Seq(Entry) /\ MaxEntriesPerAppend \in Nat \ {0}
      BY <1>1, NodeTypes, ConstantsAssumption
    <3> HIDE DEF prev
    <3>3. Follow(EntriesFrom(log[n], lo, MaxEntriesPerAppend), lo - 1, log[n])
      BY <3>2, EntriesFromFollow
    <3> QED
      BY <3>1, <3>3
  <2> HIDE DEF prev, es
  <2>7. Section(m, H)
    BY <2>2, <2>4, <2>6 DEF Section
  <2>8. m \in AppendEntriesArgs
    BY <1>1 DEF TypeOK
  <2> QED
    BY <1>4, <2>7, <2>8
<1>7. ASSUME NEW r \in appendReps' PROVE Section(r.req, G)
  <2>1. CASE r \in appendReps
    BY <1>1, <1>4, <2>1 DEF TypeOK, Sections, AppendEntriesReply
  <2>2. CASE r.req \in appendReqs
    BY <1>5, <2>2
  <2> QED
    BY <1>1, <2>1, <2>2, AppendNetStep
<1> QED
  BY <1>5, <1>6, <1>7 DEF Sections

(* What the histories hold. *)
LEMMA HistoryTypes ==
  ASSUME NEW n \in Node, NEW H, NEW C, NEW A, NEW G, NEW D, NEW B,
         Moved(n, H, C, A, G, D, B), NEW v \in Node, NEW t \in Nat
  PROVE  /\ H[t] \in Logs /\ G[t] \in Logs /\ Len(H[t]) \in Nat /\ Len(G[t]) \in Nat
         /\ C[v][t] \in Logs /\ D[v][t] \in Logs
         /\ A[v][t] \in Nat /\ B[v][t] \in Nat
<1>1. /\ H \in [Nat -> Logs] /\ G \in [Nat -> Logs]
      /\ C \in [Node -> [Nat -> Logs]] /\ D \in [Node -> [Nat -> Logs]]
      /\ A \in [Node -> [Nat -> Nat]] /\ B \in [Node -> [Nat -> Nat]]
  BY DEF Moved
<1>2. /\ C[v] \in [Nat -> Logs] /\ D[v] \in [Nat -> Logs]
      /\ A[v] \in [Nat -> Nat] /\ B[v] \in [Nat -> Nat]
  BY <1>1
<1>3. H[t] \in Logs /\ G[t] \in Logs
  BY <1>1
<1> QED
  BY <1>2, <1>3, LogFacts

(* What n has acknowledged in its term only grows, and is in its log and   *)
(* in the log of the term; nothing else that was acknowledged changes.     *)
LEMMA AcksGrow ==
  ASSUME NEW n \in Node, NEW H, NEW C, NEW A, NEW G, NEW D, NEW B,
         Moves(n, H, C, A, G, D, B)
  PROVE  /\ \A v \in Node, t \in Nat :
              /\ A[v][t] \in Nat /\ B[v][t] \in Nat /\ A[v][t] <= B[v][t]
              /\ B[v][t] = A[v][t] \/ (v = n /\ t = currentTerm'[n])
         /\ SameUpTo(B[n][currentTerm'[n]], log'[n], G[currentTerm'[n]])
<1>1. Moved(n, H, C, A, G, D, B) /\ Acknowledged(H, A)
  BY MoveSelf DEF Moves, Explained
<1>2. Typed(n)
  BY <1>1 DEF Moved
<1>3. PICK u \in Nat : u = currentTerm'[n]
  BY <1>2 DEF Typed
<1>4. PICK a \in Nat : a = A[n][u]
  BY <1>1, HistoryTypes
<1>5. PICK b \in Nat : b = B[n][u]
  BY <1>1, HistoryTypes
<1>6. PICK l \in Logs : l = log[n]
  BY <1>2 DEF Typed
<1>7. PICK k \in Logs : k = log'[n]
  BY <1>2 DEF Typed
<1>8. PICK h \in Logs : h = H[u]
  BY <1>1 DEF Moved
<1>9. PICK g \in Logs : g = G[u]
  BY <1>1 DEF Moved
<1>10. /\ Len(l) \in Nat /\ Len(k) \in Nat /\ Len(h) \in Nat /\ Len(g) \in Nat
       /\ SameUpTo(Len(h), g, h)
  BY <1>8, <1>9, LogFacts, HistoryGrows DEF Extends
<1>11. a <= Len(h) /\ SameUpTo(a, l, h)
  <2>1. a <= Len(h)
    BY <1>1, <1>4, <1>8 DEF Acknowledged
  <2>2. CASE u = currentTerm[n]
    BY <1>1, <1>4, <1>6, <1>8, <2>1, <2>2 DEF Acknowledged
  <2>3. CASE u # currentTerm[n]
    <3>1. u > currentTerm[n]
      BY <1>2, <1>3, <2>3 DEF Typed
    <3>2. a = 0
      BY <1>1, <1>4, <3>1 DEF Acknowledged
    <3> QED
      BY <1>10, <3>2 DEF SameUpTo
  <2> QED
    BY <2>1, <2>2, <2>3
<1>12. AckedTo(n, A, b)
  BY <1>1, <1>3, <1>5 DEF Moved
<1>13. a <= b /\ SameUpTo(b, k, g)
  <2>1. CASE Grew(n) /\ b = Len(log'[n])
    <3>1. g = k /\ b = Len(k)
      BY <1>1, <1>3, <1>7, <1>9, <2>1 DEF Moved
    <3> QED
      BY SMTT(30), <1>10, <1>11, <3>1 DEF SameUpTo
  <2>2. ASSUME NEW m \in appendReqs, Merged(n, m),
               b = Max({A[n][currentTerm'[n]], m.prevLogIndex + Len(m.entries)})
        PROVE  a <= b /\ SameUpTo(b, k, g)
    <3>1. /\ G = H /\ m.term = u /\ m.prevLogIndex + Len(m.entries) \in Nat
          /\ SameUpTo(m.prevLogIndex + Len(m.entries), log'[n], H[m.term])
          /\ \A i \in Nat : SameUpTo(i, log[n], H[m.term]) =>
                              SameUpTo(i, log'[n], H[m.term])
      BY ZenonT(90), <1>3, <2>2, MergeLeaves DEF Merged
    <3>2. PICK e \in Nat : e = m.prevLogIndex + Len(m.entries)
      BY <3>1
    <3>3. g = h /\ SameUpTo(e, k, h) /\ SameUpTo(a, k, h) /\ b = Max({a, e})
      BY <1>3, <1>4, <1>6, <1>7, <1>8, <1>9, <1>11, <2>2, <3>1, <3>2
    <3>4. b = IF a >= e THEN a ELSE e
      BY <3>3, PairExtrema
    <3>5. a <= b /\ (b = a \/ b = e)
      BY <3>4
    <3> QED
      BY <3>3, <3>5
  <2>3. CASE ~ Grew(n) /\ Kept(n) /\ b = A[n][currentTerm'[n]]
    <3>1. g = h /\ k = l /\ b = a
      BY <1>1, <1>3, <1>4, <1>6, <1>7, <1>8, <1>9, <2>3 DEF Moved, Kept
    <3> QED
      BY <1>11, <3>1
  <2> QED
    BY <1>12, <2>1, <2>2, <2>3 DEF AckedTo
<1>14. ASSUME NEW v \in Node, NEW t \in Nat
      PROVE  /\ A[v][t] \in Nat /\ B[v][t] \in Nat /\ A[v][t] <= B[v][t]
             /\ B[v][t] = A[v][t] \/ (v = n /\ t = currentTerm'[n])
  <2>1. A[v][t] \in Nat /\ B[v][t] \in Nat
    BY <1>1, HistoryTypes
  <2>2. CASE v = n /\ t = u
    BY <1>3, <1>4, <1>5, <1>13, <2>1, <2>2
  <2>3. CASE v = n /\ t # u
    <3>1. B[v][t] = A[v][t]
      BY <1>1, <1>3, <2>3 DEF Moved
    <3> QED
      BY <2>1, <3>1
  <2>4. CASE v # n
    <3>1. Stayed(v, C, A, D, B)
      BY <2>4, MoveOthers
    <3>2. B[v][t] = A[v][t]
      BY <3>1 DEF Stayed
    <3> QED
      BY <2>1, <3>2
  <2> QED
    BY <2>2, <2>3, <2>4
<1> QED
  BY <1>3, <1>5, <1>7, <1>9, <1>13, <1>14

(* Every node has in its log what it acknowledged in its term. *)
LEMMA AcksHeld ==
  ASSUME NEW n \in Node, NEW H, NEW C, NEW A, NEW G, NEW D, NEW B,
         Moves(n, H, C, A, G, D, B), NEW v \in Node
  PROVE  /\ \A t \in Nat : /\ B[v][t] <= Len(G[t])
                           /\ t > currentTerm'[v] => B[v][t] = 0
         /\ SameUpTo(B[v][currentTerm'[v]], log'[v], G[currentTerm'[v]])
<1>1. Moved(n, H, C, A, G, D, B) /\ Acknowledged(H, A)
  BY MoveSelf DEF Moves, Explained
<1>2. Typed(v) /\ Typed(n)
  BY <1>1 DEF Moved
<1>3. ASSUME NEW t \in Nat
      PROVE  B[v][t] <= Len(G[t]) /\ (t > currentTerm'[v] => B[v][t] = 0)
  <2>1. H[t] \in Logs /\ G[t] \in Logs /\ Len(H[t]) \in Nat /\ Len(G[t]) \in Nat
    BY <1>1, HistoryTypes
  <2>2. Len(H[t]) <= Len(G[t])
    <3>1. SameUpTo(Len(H[t]), G[t], H[t])
      BY HistoryGrows DEF Extends
    <3> QED
      BY <3>1 DEF SameUpTo
  <2>3. CASE B[v][t] = A[v][t]
    <3>1. A[v][t] <= Len(H[t]) /\ (t > currentTerm[v] => A[v][t] = 0) /\ A[v][t] \in Nat
      BY <1>1, HistoryTypes DEF Acknowledged
    <3>2. t > currentTerm'[v] => t > currentTerm[v]
      BY <1>2 DEF Typed
    <3> QED
      BY SMTT(30), <2>1, <2>2, <2>3, <3>1, <3>2
  <2>4. CASE v = n /\ t = currentTerm'[n]
    <3>1. B[v][t] <= Len(G[t])
      BY <2>4, AcksGrow DEF SameUpTo
    <3>2. ~ (t > currentTerm'[v])
      BY <1>2, <2>4 DEF Typed
    <3> QED
      BY <3>1, <3>2
  <2>5. B[v][t] = A[v][t] \/ (v = n /\ t = currentTerm'[n])
    BY SMTT(30), AcksGrow
  <2> QED
    BY <2>3, <2>4, <2>5
<1>4. SameUpTo(B[v][currentTerm'[v]], log'[v], G[currentTerm'[v]])
  <2>1. CASE v = n
    BY <2>1, AcksGrow
  <2>2. CASE v # n
    <3>1. Stayed(v, C, A, D, B)
      BY <2>2, MoveOthers
    <3>2. PICK t \in Nat : t = currentTerm[v] /\ t = currentTerm'[v]
      BY <1>2, <3>1 DEF Stayed, Typed
    <3>3. PICK a \in Nat : a = A[v][t] /\ a = B[v][t]
      BY <1>1, <3>1, HistoryTypes DEF Stayed
    <3>4. PICK l \in Logs : l = log[v] /\ l = log'[v]
      BY <1>2, <3>1 DEF Stayed, Typed
    <3>5. PICK h \in Logs : h = H[t]
      BY <1>1 DEF Moved
    <3>6. PICK g \in Logs : g = G[t]
      BY <1>1 DEF Moved
    <3>7. SameUpTo(a, l, h)
      BY <1>1, <3>2, <3>3, <3>4, <3>5 DEF Acknowledged
    <3>8. SameUpTo(Len(h), g, h)
      BY <3>5, <3>6, HistoryGrows DEF Extends
    <3>9. Len(h) \in Nat /\ Len(g) \in Nat /\ Len(l) \in Nat
      BY LogFacts
    <3>10. SameUpTo(a, l, g)
      BY <3>7, <3>8, <3>9 DEF SameUpTo
    <3> QED
      BY <3>2, <3>3, <3>4, <3>6, <3>10
  <2> QED
    BY <2>1, <2>2
<1> QED
  BY <1>3, <1>4

(* Replies and leaders count nothing that was not acknowledged. *)
LEMMA AcknowledgedStep ==
  ASSUME NEW n \in Node, NEW H, NEW C, NEW A, NEW G, NEW D, NEW B,
         Moves(n, H, C, A, G, D, B)
  PROVE  Acknowledged(G, B)'
<1>1. /\ Moved(n, H, C, A, G, D, B) /\ Acknowledged(H, A) /\ NodeStep(n)
      /\ TypeOK /\ TypeOK' /\ Typed(n)
  BY MoveSelf, StepTyped DEF Moves, Explained, Inv, StructureInv
<1>2. ASSUME NEW v \in Node, NEW t \in Nat
      PROVE  A[v][t] \in Nat /\ B[v][t] \in Nat /\ A[v][t] <= B[v][t]
  BY AcksGrow
<1>3. AckedTo(n, A, B[n][currentTerm'[n]])
  BY <1>1 DEF Moved
<1>4. \A r \in appendReps : /\ r.req.to \in Node /\ r.req.term \in Nat
                            /\ r.req.prevLogIndex + Len(r.req.entries) \in Nat
  <2> SUFFICES ASSUME NEW r \in appendReps
               PROVE  /\ r.req.to \in Node /\ r.req.term \in Nat
                      /\ r.req.prevLogIndex + Len(r.req.entries) \in Nat
    OBVIOUS
  <2>1. r.req \in AppendEntriesArgs
    BY <1>1 DEF TypeOK, AppendEntriesReply
  <2>2. /\ r.req.to \in Node /\ r.req.term \in Nat /\ r.req.prevLogIndex \in Nat
        /\ r.req.entries \in Logs
    BY <2>1 DEF AppendEntriesArgs, Logs
  <2>3. Len(r.req.entries) \in Nat
    BY <2>2, LogFacts
  <2> QED
    BY <2>2, <2>3
<1>5. ASSUME NEW r \in appendReps, r.success
      PROVE  r.req.prevLogIndex + Len(r.req.entries) <= B[r.req.to][r.req.term]
  <2>1. PICK v \in Node : v = r.req.to
    BY <1>4
  <2>2. PICK t \in Nat : t = r.req.term
    BY <1>4
  <2>3. PICK e \in Nat : e = r.req.prevLogIndex + Len(r.req.entries)
    BY <1>4
  <2>4. e <= A[v][t]
    BY <1>1, <1>5, <2>1, <2>2, <2>3 DEF Acknowledged
  <2>5. e <= B[v][t]
    <3>1. A[v][t] \in Nat /\ B[v][t] \in Nat /\ A[v][t] <= B[v][t]
      BY <1>2
    <3> QED
      BY <2>4, <3>1
  <2> QED
    BY <2>1, <2>2, <2>3, <2>5
<1>6. ASSUME NEW r \in appendReps', r.success, r \notin appendReps
      PROVE  r.req.prevLogIndex + Len(r.req.entries) <= B[r.req.to][r.req.term]
  <2>1. Merged(n, r.req)
    BY <1>1, <1>6, SelfReply DEF ReplyStep
  <2>2. r.req \in appendReqs /\ r.req.to = n /\ r.req.term = currentTerm'[n]
    BY <2>1 DEF Merged
  <2>3. ~ Grew(n)
    BY <2>1 DEF Grew, Merged, Leader, Follower
  <2>4. PICK m \in appendReqs :
          /\ Merged(n, m)
          /\ B[n][currentTerm'[n]] =
               Max({A[n][currentTerm'[n]], m.prevLogIndex + Len(m.entries)})
    BY <1>3, <2>1, <2>2, <2>3 DEF AckedTo
  <2>5. r.req = m
    BY <1>6, <2>4 DEF Merged
  <2>6. PICK e \in Nat : e = m.prevLogIndex + Len(m.entries)
    BY <2>4, MergeLeaves
  <2>7. PICK a \in Nat : a = A[n][currentTerm'[n]]
    BY <1>1, <1>2 DEF Typed
  <2>8. B[n][currentTerm'[n]] = IF a >= e THEN a ELSE e
    BY <2>4, <2>6, <2>7, PairExtrema
  <2>9. e <= B[n][currentTerm'[n]]
    BY <2>8
  <2> QED
    BY <2>2, <2>5, <2>6, <2>9
<1>7. ASSUME NEW p \in Node, role'[p] = Leader, p # n
      PROVE  /\ B[p][currentTerm'[p]] = Len(log'[p])
             /\ \A q \in Peers(p) : matchIndex'[p][q] <= B[q][currentTerm'[p]]
  <2>1. Stayed(p, C, A, D, B) /\ Typed(p)
    BY <1>1, <1>7, MoveOthers DEF Moved
  <2>2. role[p] = Leader /\ currentTerm'[p] = currentTerm[p] /\ matchIndex'[p] = matchIndex[p]
        /\ log'[p] = log[p] /\ B[p] = A[p] /\ currentTerm[p] \in Nat
    BY <1>7, <2>1 DEF Stayed, Typed
  <2>3. /\ A[p][currentTerm[p]] = Len(log[p])
        /\ \A q \in Peers(p) : matchIndex[p][q] <= A[q][currentTerm[p]]
    BY <1>1, <2>2 DEF Acknowledged
  <2>4. ASSUME NEW q \in Peers(p) PROVE matchIndex'[p][q] <= B[q][currentTerm'[p]]
    <3>1. q \in Node /\ matchIndex[p][q] \in Nat
      BY SMTT(30), <1>1 DEF TypeOK, Peers
    <3>2. /\ A[q][currentTerm[p]] \in Nat /\ B[q][currentTerm[p]] \in Nat
          /\ A[q][currentTerm[p]] <= B[q][currentTerm[p]]
      BY <1>2, <2>2, <3>1
    <3>3. matchIndex[p][q] <= A[q][currentTerm[p]]
      BY <2>3
    <3>4. matchIndex[p][q] <= B[q][currentTerm[p]]
      BY <3>1, <3>2, <3>3
    <3> QED
      BY <2>2, <3>4
  <2> QED
    BY <2>2, <2>3, <2>4
<1>8. ASSUME role'[n] = Leader PROVE B[n][currentTerm'[n]] = Len(log'[n])
  <2>1. \A m \in appendReqs : ~ Merged(n, m)
    BY <1>8 DEF Merged, Leader, Follower
  <2>2. CASE Grew(n)
    BY <1>3, <2>1, <2>2 DEF AckedTo
  <2>3. CASE ~ Grew(n)
    <3>1. role[n] = Leader /\ currentTerm'[n] = currentTerm[n] /\ log'[n] = log[n]
      BY <1>8, <2>3, LeadersOwn
    <3>2. B[n][currentTerm'[n]] = A[n][currentTerm'[n]]
      BY <1>3, <2>1, <2>3 DEF AckedTo
    <3> QED
      BY <1>1, <3>1, <3>2 DEF Acknowledged
  <2> QED
    BY <2>2, <2>3
<1>9. ASSUME role'[n] = Leader, NEW q \in Peers(n)
      PROVE  matchIndex'[n][q] <= B[q][currentTerm'[n]]
  <2>1. q \in Node /\ matchIndex[n][q] \in Nat /\ currentTerm'[n] \in Nat
    BY SMTT(30), <1>1 DEF TypeOK, Peers
  <2>2. /\ A[q][currentTerm'[n]] \in Nat /\ B[q][currentTerm'[n]] \in Nat
        /\ A[q][currentTerm'[n]] <= B[q][currentTerm'[n]]
    BY <1>2, <2>1
  <2>3. CASE matchIndex'[n][q] = 0
    BY <2>2, <2>3
  <2>4. CASE Counted(n, q)
    <3>1. role[n] = Leader /\ currentTerm'[n] = currentTerm[n]
      BY <2>4 DEF Counted
    <3>2. CASE matchIndex'[n][q] = matchIndex[n][q]
      <4>1. matchIndex[n][q] <= A[q][currentTerm'[n]]
        BY <1>1, <3>1 DEF Acknowledged
      <4>2. matchIndex[n][q] <= B[q][currentTerm'[n]]
        BY <2>1, <2>2, <4>1
      <4> QED
        BY <3>2, <4>2
    <3>3. ASSUME NEW r \in appendReps, r.success, r.req.to = q,
                 r.req.term = currentTerm[n],
                 matchIndex'[n][q] = r.req.prevLogIndex + Len(r.req.entries)
          PROVE  matchIndex'[n][q] <= B[q][currentTerm'[n]]
      BY <1>5, <3>1, <3>3
    <3> QED
      BY <2>4, <3>2, <3>3 DEF Counted
  <2>5. matchIndex'[n][q] = 0 \/ Counted(n, q)
    BY <1>1, <1>9, SelfMatch DEF MatchStep
  <2> QED
    BY <2>3, <2>4, <2>5
<1>10. \A v \in Node :
         /\ \A t \in Nat : /\ B[v][t] <= Len(G[t])
                           /\ t > currentTerm'[v] => B[v][t] = 0
         /\ SameUpTo(B[v][currentTerm'[v]], log'[v], G[currentTerm'[v]])
  BY AcksHeld
<1> QED
  BY <1>5, <1>6, <1>7, <1>8, <1>9, <1>10 DEF Acknowledged

=============================================================================
