-------------------------------- MODULE Raft --------------------------------
(***************************************************************************)
(* The Raft cluster of src/raft: elections, log replication, commitment    *)
(* and recovery from persisted state.                                      *)
(*                                                                         *)
(* Every handler of node.go, election.go, role.go and replication.go runs  *)
(* under the node's mutex, so each is one action.  An outgoing RPC is a    *)
(* goroutine that builds its arguments under the mutex, calls the          *)
(* transport without it, and takes it again to use the reply: the two      *)
(* halves are two actions, with anything in between.  The network is a set *)
(* of requests and a set of replies per kind of RPC: a message may wait    *)
(* forever (it is lost) and be overtaken by any other.  RequestVote is     *)
(* sent once to a peer in an election, AppendEntries any number of times.  *)
(*                                                                         *)
(* A definition whose name starts with "Wrong" is a faulty variant of the  *)
(* definition after it; nothing uses it but the mutation runs.             *)
(***************************************************************************)
EXTENDS Naturals, Sequences, FiniteSets, FiniteSetsExt

CONSTANTS
  Node,                 \* the members of the cluster, Config.ID and Config.Peers
  Command,              \* the commands clients propose
  NoOp,                 \* the empty command a new leader appends
  Nobody,               \* the NodeID "" of node.go
  MaxEntriesPerAppend,  \* Config.MaxEntriesPerAppend
  Campaigns,            \* bound: the <<node, term>> elections that may start
  MaxLogLen,            \* bound: nothing is proposed on a log this long
  MaxCrashes,           \* bound: crashes in one behaviour
  MaxInFlight           \* bound: AppendEntries messages in the network

ASSUME ConstantsAssumption ==
  /\ IsFiniteSet(Node) /\ Node # {}
  /\ Nobody \notin Node
  /\ NoOp \notin Command
  /\ MaxEntriesPerAppend \in Nat \ {0}
  /\ Campaigns \subseteq Node \X (Nat \ {0})
  /\ MaxLogLen \in Nat /\ MaxCrashes \in Nat /\ MaxInFlight \in Nat

VARIABLES
  currentTerm, votedFor, log,    \* node -> the state Node.persist saves
  disk,                          \* node -> what the Storage holds
  up,                            \* node -> is the process running?
  role, leaderID, commitIndex,   \* node -> volatile state
  nextIndex, matchIndex,         \* leader -> peer -> replication progress
  votes,                         \* node -> votes counted by its last election
  boot,                          \* node -> which incarnation of its process
  voteReqs, voteReps,            \* RequestVote messages in the network
  appendReqs, appendReps,        \* AppendEntries messages in the network
  crashes,                       \* number of crashes so far
  ballots,                       \* history: the votes ever saved
  leaders,                       \* history: the <<node, term>> ever elected
  committed                      \* history: what leaders committed, and when

saved    == <<currentTerm, votedFor, log, disk>>
volatile == <<role, leaderID, commitIndex>>
progress == <<nextIndex, matchIndex>>
voteNet   == <<voteReqs, voteReps>>
appendNet == <<appendReqs, appendReps>>
history  == <<ballots, leaders, committed>>
vars == <<saved, up, volatile, progress, votes, boot, voteNet, appendNet,
          crashes, history>>

Follower  == "Follower"
Candidate == "Candidate"
Leader    == "Leader"

Entry == [term : Nat, cmd : Command \cup {NoOp}]

PersistentState ==
  [term : Nat, votedFor : Node \cup {Nobody}, entries : Seq(Entry)]

RequestVoteArgs ==
  [from : Node, boot : Nat, to : Node, term : Nat, lastLogIndex : Nat,
   lastLogTerm : Nat]

RequestVoteReply == [req : RequestVoteArgs, term : Nat, voteGranted : BOOLEAN]

AppendEntriesArgs ==
  [from : Node, boot : Nat, to : Node, term : Nat, prevLogIndex : Nat,
   prevLogTerm : Nat, entries : Seq(Entry), leaderCommit : Nat]

AppendEntriesReply == [req : AppendEntriesArgs, term : Nat, success : BOOLEAN]

Peers(n) == Node \ {n}

(* quorum(): half of the cluster size, rounded down, plus one. *)
Quorum == Cardinality(Node) \div 2 + 1

-----------------------------------------------------------------------------
(* The log, log.go.  Position i of the sequence is the entry with Index i; *)
(* the sentinel entry of index 0 and term 0 is implicit.                   *)

TermAt(l, i) == IF i = 0 THEN 0 ELSE l[i].term
LastTerm(l) == TermAt(l, Len(l))

EntriesFrom(l, lo, limit) == SubSeq(l, lo, Min({Len(l), lo + limit - 1}))

WrongMatches(l, i, t) == i \in 0 .. Len(l)
Matches(l, i, t) == i \in 0 .. Len(l) /\ TermAt(l, i) = t

(* isUpToDate: does a log that ends with lastTerm at lastIndex contain at  *)
(* least what l contains?                                                  *)
IsUpToDate(l, lastTerm, lastIndex) ==
  \/ lastTerm > LastTerm(l)
  \/ lastTerm = LastTerm(l) /\ lastIndex >= Len(l)

(* The loop of HandleAppendEntries: entries the log already has are        *)
(* skipped; from the first one that is missing or has another term on, the *)
(* log is cut and the rest of the message appended.                        *)
WrongAppendNew(l, prev, es) == SubSeq(l, 1, prev) \o es
AppendNew(l, prev, es) ==
  LET novel == {k \in 1 .. Len(es) :
                  prev + k > Len(l) \/ l[prev + k].term # es[k].term}
      k == Min(novel)
  IN  IF novel = {}
      THEN l
      ELSE SubSeq(l, 1, prev + k - 1) \o SubSeq(es, k, Len(es))

-----------------------------------------------------------------------------
Init ==
  /\ currentTerm = [n \in Node |-> 0]
  /\ votedFor = [n \in Node |-> Nobody]
  /\ log = [n \in Node |-> <<>>]
  /\ disk = [n \in Node |-> [term |-> 0, votedFor |-> Nobody, entries |-> <<>>]]
  /\ up = [n \in Node |-> TRUE]
  /\ role = [n \in Node |-> Follower]
  /\ leaderID = [n \in Node |-> Nobody]
  /\ commitIndex = [n \in Node |-> 0]
  /\ nextIndex = [n \in Node |-> [p \in Node |-> 0]]
  /\ matchIndex = [n \in Node |-> [p \in Node |-> 0]]
  /\ votes = [n \in Node |-> 0]
  /\ boot = [n \in Node |-> 0]
  /\ voteReqs = {} /\ voteReps = {}
  /\ appendReqs = {} /\ appendReps = {}
  /\ crashes = 0
  /\ ballots = {} /\ leaders = {} /\ committed = {}

(* persist(): what the step leaves in memory is on disk when it ends. *)
WrongPersistNoVote(n) ==
  disk' = [disk EXCEPT ![n].term = currentTerm'[n], ![n].entries = log'[n]]
WrongPersistNoLog(n) ==
  disk' = [disk EXCEPT ![n].term = currentTerm'[n], ![n].votedFor = votedFor'[n]]
Persist(n) ==
  disk' = [disk EXCEPT ![n] = [term     |-> currentTerm'[n],
                               votedFor |-> votedFor'[n],
                               entries  |-> log'[n]]]

(* becomeFollower(term) as observeTerm calls it, for a term that may be    *)
(* newer: a newer term clears the vote and the known leader.               *)
WrongLeaderAfter(n, term) == leaderID[n]
TermAfter(n, term) == Max({term, currentTerm[n]})
VoteAfter(n, term) == IF term > currentTerm[n] THEN Nobody ELSE votedFor[n]
RoleAfter(n, term) == IF term > currentTerm[n] THEN Follower ELSE role[n]
LeaderAfter(n, term) == IF term > currentTerm[n] THEN Nobody ELSE leaderID[n]

(* advanceCommitIndex: the highest index above the commit index that a     *)
(* quorum holds, looking down from the end of the log and only as far as   *)
(* the entries are of the leader's term.                                   *)
WrongCommitPoint(n, l, term, match) ==
  LET held == {i \in commitIndex[n] + 1 .. Len(l) :
                 Cardinality({p \in Peers(n) : match[p] >= i}) + 1 >= Quorum}
  IN  IF held = {} THEN commitIndex[n] ELSE Max(held)
CommitPoint(n, l, term, match) ==
  LET held == {i \in commitIndex[n] + 1 .. Len(l) :
                 /\ \A j \in i .. Len(l) : l[j].term = term
                 /\ Cardinality({p \in Peers(n) : match[p] >= i}) + 1 >= Quorum}
  IN  IF held = {} THEN commitIndex[n] ELSE Max(held)

(* Node n, a leader, runs advanceCommitIndex at the end of the step. *)
AdvanceCommitIndex(n) ==
  /\ commitIndex' = [commitIndex EXCEPT ![n] =
                       CommitPoint(n, log'[n], currentTerm'[n], matchIndex'[n])]
  /\ committed' = committed \cup
       {[index |-> i, entry |-> log'[n][i], term |-> currentTerm'[n]] :
          i \in commitIndex[n] + 1 .. commitIndex'[n]}

(* becomeLeader, as the last part of a step that leaves n in currentTerm'. *)
BecomeLeader(n) ==
  /\ role' = [role EXCEPT ![n] = Leader]
  /\ leaderID' = [leaderID EXCEPT ![n] = n]
  /\ nextIndex' = [nextIndex EXCEPT ![n] = [p \in Node |-> Len(log[n]) + 1]]
  /\ matchIndex' = [matchIndex EXCEPT ![n] = [p \in Node |-> 0]]
  /\ log' = [log EXCEPT ![n] = Append(@, [term |-> currentTerm'[n], cmd |-> NoOp])]
  /\ Persist(n)
  /\ AdvanceCommitIndex(n)
  /\ leaders' = leaders \cup {<<n, currentTerm'[n]>>}

(* A reply goes to the goroutine that waits for it, if the process that    *)
(* asked still runs.                                                       *)
ToCaller(m, reply) == IF m.boot = boot[m.from] THEN {reply} ELSE {}

-----------------------------------------------------------------------------
(* Elections, election.go. *)

(* ticker and startElection: the timer of a node that does not lead fires. *)
(* A cluster of one is led at once; otherwise each peer is asked.          *)
ElectionTimeout(n) ==
  /\ up[n] /\ role[n] # Leader
  /\ <<n, currentTerm[n] + 1>> \in Campaigns
  /\ currentTerm' = [currentTerm EXCEPT ![n] = @ + 1]
  /\ votedFor' = [votedFor EXCEPT ![n] = n]
  /\ votes' = [votes EXCEPT ![n] = 1]
  /\ \/ /\ Quorum <= 1
        /\ BecomeLeader(n)
        /\ UNCHANGED voteReqs
     \/ /\ Quorum > 1
        /\ role' = [role EXCEPT ![n] = Candidate]
        /\ leaderID' = [leaderID EXCEPT ![n] = Nobody]
        /\ log' = log
        /\ Persist(n)
        /\ voteReqs' = voteReqs \cup
             {[from |-> n, boot |-> boot[n], to |-> p, term |-> currentTerm'[n],
               lastLogIndex |-> Len(log[n]),
               lastLogTerm |-> LastTerm(log[n])] : p \in Peers(n)}
        /\ UNCHANGED <<commitIndex, progress, leaders, committed>>
  /\ ballots' = ballots \cup {<<n, currentTerm'[n], n>>}
  /\ UNCHANGED <<up, boot, voteReps, appendNet, crashes>>

WrongCanVoteAgain(n, m) == IsUpToDate(log[n], m.lastLogTerm, m.lastLogIndex)
WrongCanVoteBehind(n, m) == VoteAfter(n, m.term) \in {Nobody, m.from}
CanVote(n, m) ==
  /\ VoteAfter(n, m.term) \in {Nobody, m.from}
  /\ IsUpToDate(log[n], m.lastLogTerm, m.lastLogIndex)

HandleRequestVote(n, m) ==
  /\ up[n] /\ m \in voteReqs /\ m.to = n
  /\ LET term    == TermAfter(n, m.term)
         granted == m.term = term /\ CanVote(n, m)
     IN  /\ currentTerm' = [currentTerm EXCEPT ![n] = term]
         /\ votedFor' = [votedFor EXCEPT ![n] =
                           IF granted THEN m.from ELSE VoteAfter(n, m.term)]
         /\ log' = log
         /\ IF granted \/ m.term > currentTerm[n]
            THEN Persist(n)
            ELSE disk' = disk
         /\ voteReqs' = voteReqs \ {m}
         /\ voteReps' = voteReps \cup ToCaller(m,
              [req |-> m, term |-> term, voteGranted |-> granted])
         /\ ballots' = IF granted THEN ballots \cup {<<n, term, m.from>>}
                                  ELSE ballots
  /\ role' = [role EXCEPT ![n] = RoleAfter(n, m.term)]
  /\ leaderID' = [leaderID EXCEPT ![n] = LeaderAfter(n, m.term)]
  /\ UNCHANGED <<up, commitIndex, progress, votes, boot, appendNet, crashes,
                 leaders, committed>>

WrongStillRunning(n, r) == role[n] = Candidate
StillRunning(n, r) == role[n] = Candidate /\ r.req.term = currentTerm[n]

(* requestVote after the RPC: a vote of the running election is counted,   *)
(* and the one that makes a quorum makes a leader.  A reply to an election *)
(* that is over, or a refusal, changes nothing.                            *)
RequestVoteReplied(n, r) ==
  /\ up[n] /\ r \in voteReps /\ r.req.from = n
  /\ r.term <= currentTerm[n]
  /\ StillRunning(n, r) /\ r.voteGranted
  /\ voteReps' = voteReps \ {r}
  /\ votes' = [votes EXCEPT ![n] = @ + 1]
  /\ UNCHANGED <<currentTerm, votedFor>>
  /\ \/ votes[n] + 1 >= Quorum /\ BecomeLeader(n)
     \/ /\ votes[n] + 1 < Quorum
        /\ UNCHANGED <<log, disk, volatile, progress, leaders, committed>>
  /\ UNCHANGED <<up, boot, voteReqs, appendNet, crashes, ballots>>

(* observeTerm on a reply, in requestVote and replicateTo: a newer term    *)
(* turns the caller into a follower.                                       *)
ReplyWithNewerTerm(n, r) ==
  /\ up[n] /\ r \in voteReps \cup appendReps /\ r.req.from = n
  /\ r.term > currentTerm[n]
  /\ voteReps' = voteReps \ {r}
  /\ appendReps' = appendReps \ {r}
  /\ currentTerm' = [currentTerm EXCEPT ![n] = r.term]
  /\ votedFor' = [votedFor EXCEPT ![n] = Nobody]
  /\ role' = [role EXCEPT ![n] = Follower]
  /\ leaderID' = [leaderID EXCEPT ![n] = Nobody]
  /\ log' = log
  /\ Persist(n)
  /\ UNCHANGED <<up, commitIndex, progress, votes, boot, voteReqs,
                 appendReqs, crashes, history>>

-----------------------------------------------------------------------------
(* Replication, replication.go. *)

(* Propose: the leader appends a client's command. *)
Propose(n, c) ==
  /\ up[n] /\ role[n] = Leader
  /\ Len(log[n]) < MaxLogLen
  /\ log' = [log EXCEPT ![n] = Append(@, [term |-> currentTerm[n], cmd |-> c])]
  /\ UNCHANGED <<currentTerm, votedFor, matchIndex>>
  /\ Persist(n)
  /\ AdvanceCommitIndex(n)
  /\ UNCHANGED <<up, role, leaderID, nextIndex, votes, boot, voteNet, appendNet,
                 crashes, ballots, leaders>>

(* Heartbeats, kicks and retries send a peer the same request again and    *)
(* again, so while there is room in the network another copy of a request  *)
(* that is handled, or of a reply that is used, may still be under way.    *)
Room == Cardinality(appendReqs) + Cardinality(appendReps) < MaxInFlight

(* replicateTo up to the RPC: a heartbeat, a kick or a retry sends peer p  *)
(* the entries from its nextIndex on.                                      *)
ReplicateTo(n, p) ==
  /\ up[n] /\ role[n] = Leader /\ p \in Peers(n)
  /\ Room
  /\ LET prev == nextIndex[n][p] - 1
         m == [from |-> n, boot |-> boot[n], to |-> p, term |-> currentTerm[n],
               prevLogIndex |-> prev, prevLogTerm |-> TermAt(log[n], prev),
               entries |-> EntriesFrom(log[n], prev + 1, MaxEntriesPerAppend),
               leaderCommit |-> commitIndex[n]]
     IN  appendReqs' = appendReqs \cup {m}
  /\ UNCHANGED <<saved, up, volatile, progress, votes, boot, voteNet, appendReps,
                 crashes, history>>

WrongCommitFrom(n, m) == Max({commitIndex[n], m.leaderCommit})
CommitFrom(n, m) ==
  Max({commitIndex[n], Min({m.leaderCommit, m.prevLogIndex + Len(m.entries)})})

HandleAppendEntries(n, m) ==
  /\ up[n] /\ m \in appendReqs /\ m.to = n
  /\ LET term    == TermAfter(n, m.term)
         current == m.term = term
         success == current /\ Matches(log[n], m.prevLogIndex, m.prevLogTerm)
     IN  /\ currentTerm' = [currentTerm EXCEPT ![n] = term]
         /\ votedFor' = [votedFor EXCEPT ![n] = VoteAfter(n, m.term)]
         /\ role' = [role EXCEPT ![n] = IF current THEN Follower ELSE @]
         /\ leaderID' = [leaderID EXCEPT ![n] = IF current THEN m.from ELSE @]
         /\ log' = [log EXCEPT ![n] =
                      IF success
                      THEN AppendNew(@, m.prevLogIndex, m.entries)
                      ELSE @]
         /\ IF m.term > currentTerm[n] \/ log'[n] # log[n]
            THEN Persist(n)
            ELSE disk' = disk
         /\ commitIndex' = [commitIndex EXCEPT ![n] =
                              IF success THEN CommitFrom(n, m) ELSE @]
         /\ appendReqs' = appendReqs \ {m} \/ (Room /\ appendReqs' = appendReqs)
         /\ appendReps' = appendReps \cup ToCaller(m,
              [req |-> m, term |-> term, success |-> success])
  /\ UNCHANGED <<up, progress, votes, boot, voteNet, crashes, history>>

(* replicateTo acts on a reply while the node leads the term of the        *)
(* request.                                                                *)
WrongTakeAppendReply(n, r) ==
  /\ up[n] /\ r \in appendReps /\ r.req.from = n
  /\ r.term <= currentTerm[n]
  /\ role[n] = Leader
  /\ appendReps' = appendReps \ {r} \/ (Room /\ appendReps' = appendReps)
TakeAppendReply(n, r) ==
  /\ up[n] /\ r \in appendReps /\ r.req.from = n
  /\ r.term <= currentTerm[n]
  /\ role[n] = Leader /\ r.req.term = currentTerm[n]
  /\ appendReps' = appendReps \ {r} \/ (Room /\ appendReps' = appendReps)

(* replicateTo after a successful RPC: progress never moves backwards. *)
WrongMatchAfter(n, p, m) == m.prevLogIndex + Len(m.entries)
MatchAfter(n, p, m) ==
  Max({matchIndex[n][p], m.prevLogIndex + Len(m.entries)})

WrongNextAfter(n, p, m) == nextIndex[n][p] + Len(m.entries)
NextAfter(n, p, m) ==
  Max({nextIndex[n][p], m.prevLogIndex + Len(m.entries) + 1})

AppendSucceeded(n, r) ==
  /\ TakeAppendReply(n, r) /\ r.success
  /\ LET p == r.req.to
     IN  /\ matchIndex' = [matchIndex EXCEPT ![n][p] = MatchAfter(n, p, r.req)]
         /\ nextIndex' = [nextIndex EXCEPT ![n][p] = NextAfter(n, p, r.req)]
  /\ UNCHANGED <<currentTerm, log>>
  /\ AdvanceCommitIndex(n)
  /\ UNCHANGED <<votedFor, disk, up, role, leaderID, votes, boot, voteNet,
                 appendReqs, crashes, ballots, leaders>>

(* replicateTo after a refusal: one entry earlier next time, unless the    *)
(* reply is stale.                                                         *)
AppendRefused(n, r) ==
  /\ TakeAppendReply(n, r) /\ ~r.success
  /\ LET p    == r.req.to
         prev == r.req.prevLogIndex
     IN  /\ prev > 0 /\ nextIndex[n][p] = prev + 1
         /\ nextIndex' = [nextIndex EXCEPT ![n][p] = prev]
  /\ UNCHANGED <<saved, up, volatile, matchIndex, votes, boot, voteNet,
                 appendReqs, crashes, history>>

(* The RPC fails, before or after the peer has handled it, or its reply is *)
(* of no use any more: the goroutine ends.                                 *)
AppendLost ==
  /\ \/ /\ \E m \in appendReqs : appendReqs' = appendReqs \ {m}
        /\ appendReps' = appendReps
     \/ /\ \E r \in appendReps : appendReps' = appendReps \ {r}
        /\ appendReqs' = appendReqs
  /\ UNCHANGED <<saved, up, volatile, progress, votes, boot, voteNet, crashes,
                 history>>

-----------------------------------------------------------------------------
(* Crashes and restarts. *)

(* The process of n dies, or Stop returns: all but the disk is forgotten. *)
WrongLoseMemory(n) ==
  /\ crashes < MaxCrashes
  /\ crashes' = crashes + 1
  /\ up[n]
  /\ up' = [up EXCEPT ![n] = FALSE]
  /\ boot' = [boot EXCEPT ![n] = @ + 1]
  /\ UNCHANGED <<currentTerm, votedFor, log, volatile, progress, votes, voteNet,
                 appendNet, leaders, committed>>
LoseMemory(n) ==
  /\ crashes < MaxCrashes
  /\ crashes' = crashes + 1
  /\ up[n]
  /\ up' = [up EXCEPT ![n] = FALSE]
  /\ role' = [role EXCEPT ![n] = Follower]
  /\ leaderID' = [leaderID EXCEPT ![n] = Nobody]
  /\ commitIndex' = [commitIndex EXCEPT ![n] = 0]
  /\ nextIndex' = [nextIndex EXCEPT ![n] = [p \in Node |-> 0]]
  /\ matchIndex' = [matchIndex EXCEPT ![n] = [p \in Node |-> 0]]
  /\ votes' = [votes EXCEPT ![n] = 0]
  /\ boot' = [boot EXCEPT ![n] = @ + 1]
  /\ voteReps' = {r \in voteReps : r.req.from # n}
  /\ appendReps' = {r \in appendReps : r.req.from # n}
  /\ UNCHANGED <<currentTerm, votedFor, log, voteReqs, appendReqs, leaders,
                 committed>>

Crash(n) == LoseMemory(n) /\ UNCHANGED <<disk, ballots>>

(* A handler or an election that saves twice is cut off after the first    *)
(* save: observeTerm has saved the newer term, or a cluster of one has     *)
(* saved its vote and not yet the no-op.  No reply was sent.               *)
CrashBetweenSaves(n) ==
  /\ LoseMemory(n)
  /\ \/ \E m \in voteReqs \cup appendReqs :
          /\ m.to = n /\ m.term > currentTerm[n]
          /\ disk' = [disk EXCEPT ![n] = [term |-> m.term, votedFor |-> Nobody,
                                          entries |-> log[n]]]
          /\ ballots' = ballots
     \/ /\ Quorum <= 1 /\ role[n] # Leader
        /\ <<n, currentTerm[n] + 1>> \in Campaigns
        /\ disk' = [disk EXCEPT ![n] = [term |-> currentTerm[n] + 1,
                                        votedFor |-> n, entries |-> log[n]]]
        /\ ballots' = ballots \cup {<<n, currentTerm[n] + 1, n>>}

(* New: Load and restoreState. *)
Restart(n) ==
  /\ ~up[n]
  /\ up' = [up EXCEPT ![n] = TRUE]
  /\ currentTerm' = [currentTerm EXCEPT ![n] = disk[n].term]
  /\ votedFor' = [votedFor EXCEPT ![n] = disk[n].votedFor]
  /\ log' = [log EXCEPT ![n] = disk[n].entries]
  /\ UNCHANGED <<disk, volatile, progress, votes, boot, voteNet, appendNet,
                 crashes, history>>

NodeStep(n) ==
  \/ ElectionTimeout(n)
  \/ \E m \in voteReqs : HandleRequestVote(n, m)
  \/ \E r \in voteReps : RequestVoteReplied(n, r)
  \/ \E r \in voteReps \cup appendReps : ReplyWithNewerTerm(n, r)
  \/ \E c \in Command : Propose(n, c)
  \/ \E p \in Peers(n) : ReplicateTo(n, p)
  \/ \E m \in appendReqs : HandleAppendEntries(n, m)
  \/ \E r \in appendReps : AppendSucceeded(n, r)
  \/ \E r \in appendReps : AppendRefused(n, r)
  \/ Crash(n)
  \/ CrashBetweenSaves(n)
  \/ Restart(n)

Next == AppendLost \/ \E n \in Node : NodeStep(n)

Spec == Init /\ [][Next]_vars

-----------------------------------------------------------------------------
(* Properties. *)

(* Every variable keeps its type, and a process that is not running has    *)
(* nothing but what is on disk to start from.                              *)
TypeOK ==
  /\ currentTerm \in [Node -> Nat]
  /\ votedFor \in [Node -> Node \cup {Nobody}]
  /\ log \in [Node -> Seq(Entry)]
  /\ disk \in [Node -> PersistentState]
  /\ up \in [Node -> BOOLEAN]
  /\ role \in [Node -> {Follower, Candidate, Leader}]
  /\ leaderID \in [Node -> Node \cup {Nobody}]
  /\ commitIndex \in [Node -> Nat]
  /\ \A n \in Node : ~up[n] =>
       role[n] = Follower /\ leaderID[n] = Nobody /\ commitIndex[n] = 0
  /\ nextIndex \in [Node -> [Node -> Nat]]
  /\ matchIndex \in [Node -> [Node -> Nat]]
  /\ votes \in [Node -> Nat]
  /\ boot \in [Node -> Nat]
  /\ voteReqs \subseteq RequestVoteArgs
  /\ voteReps \subseteq RequestVoteReply
  /\ appendReqs \subseteq AppendEntriesArgs
  /\ appendReps \subseteq AppendEntriesReply
  /\ crashes \in 0 .. MaxCrashes
  /\ ballots \subseteq Node \X Nat \X Node
  /\ leaders \subseteq Node \X Nat
  /\ committed \subseteq [index : Nat, entry : Entry, term : Nat]

(* At most one node is ever elected in a term, whatever is lost, repeated  *)
(* or forgotten in a crash: what checkOneLeader of the test harness asks   *)
(* of a running cluster.                                                   *)
ElectionSafety ==
  \A x, y \in leaders : x[2] = y[2] => x[1] = y[1]

(* A node that names a leader names one that was elected in the node's own *)
(* term, so Status never sends a client to the wrong node of that term.    *)
LeaderIDElected ==
  \A n \in Node : leaderID[n] # Nobody =>
    <<leaderID[n], currentTerm[n]>> \in leaders

(* The logs on two disks that agree on the term of an index are equal up   *)
(* to that index: what Matches assumes when it compares one term only.     *)
LogMatching ==
  \A n, p \in Node :
    LET a == disk[n].entries
        b == disk[p].entries
    IN  \A i \in DOMAIN a \cap DOMAIN b :
          a[i].term = b[i].term => SubSeq(a, 1, i) = SubSeq(b, 1, i)

(* What a leader counted for a peer is really on the peer's disk, as long  *)
(* as nobody newer has been elected: late and repeated replies never make  *)
(* it count an entry that is not there.                                    *)
MatchIndexTrue ==
  \A n \in Node : role[n] = Leader =>
    \A p \in Peers(n) : disk[p].term = currentTerm[n] =>
      LET k == matchIndex[n][p]
      IN  /\ k <= Len(disk[p].entries) /\ k <= Len(log[n])
          /\ SubSeq(disk[p].entries, 1, k) = SubSeq(log[n], 1, k)

(* An entry that was ever committed is on the disks of a quorum, so losing *)
(* the memory of any number of nodes does not lose it.                     *)
OnDisk(p, c) ==
  /\ c.index <= Len(disk[p].entries)
  /\ disk[p].entries[c.index] = c.entry
CommittedDurable ==
  \A c \in committed : Cardinality({p \in Node : OnDisk(p, c)}) >= Quorum

(* What a node acknowledged to the leader of its term is on its disk, so   *)
(* the leader may count it: persist() "must run before the node replies".  *)
AcknowledgedOnDisk ==
  \A r \in appendReps :
    LET n == r.req.to
    IN  (r.success /\ currentTerm[n] = r.req.term) =>
          \A k \in DOMAIN r.req.entries :
            OnDisk(n, [index |-> r.req.prevLogIndex + k,
                       entry |-> r.req.entries[k]])

(* A leader's log holds everything committed in its term or before. *)
LeaderCompleteness ==
  \A n \in Node : role[n] = Leader =>
    \A c \in committed : c.term <= currentTerm[n] =>
      c.index <= Len(log[n]) /\ log[n][c.index] = c.entry

(* No index is ever committed with two different entries, and what a node  *)
(* may hand to its state machine, the log up to its commit index, is what  *)
(* was committed: readApplies of the harness, "the whole point of Raft".   *)
StateMachineSafety ==
  /\ \A c, d \in committed : c.index = d.index => c.entry = d.entry
  /\ \A n \in Node :
       /\ commitIndex[n] <= Len(log[n])
       /\ \A i \in 1 .. commitIndex[n] :
            \E c \in committed : c.index = i /\ c.entry = log[n][i]

(* nextIndex of a leader stays in the log or just after it, so that        *)
(* replicateTo never reads a term that the log does not have.              *)
NextIndexInLog ==
  \A n \in Node : role[n] = Leader =>
    \A p \in Peers(n) : nextIndex[n][p] \in 1 .. Len(log[n]) + 1

(* What a node promised on disk is never taken back: the term does not     *)
(* decrease, and within a term a vote is not given to a second candidate.  *)
VoteKept(n) ==
  /\ disk'[n].term >= disk[n].term
  /\ (disk'[n].term = disk[n].term /\ disk[n].votedFor # Nobody)
       => disk'[n].votedFor = disk[n].votedFor
VoteIsKept == [][\A n \in Node : VoteKept(n)]_vars

(* Replies "can arrive out of order, so never move backwards": as long as  *)
(* a node leads a term, what it counted for a peer only grows, and where   *)
(* it goes on sending moves back on a refusal of the entry before that     *)
(* only, and to that entry.                                                *)
LeadsOn(n) ==
  role[n] = Leader /\ role'[n] = Leader /\ currentTerm'[n] = currentTerm[n]
RefusedBy(n, p, i) ==
  \E r \in appendReps :
    /\ r.req.from = n /\ r.req.to = p /\ r.req.term = currentTerm[n]
    /\ ~r.success /\ r.req.prevLogIndex = i
ProgressKept ==
  [][\A n \in Node : LeadsOn(n) =>
       \A p \in Peers(n) :
         /\ matchIndex'[n][p] >= matchIndex[n][p]
         /\ \/ nextIndex'[n][p] >= nextIndex[n][p]
            \/ /\ nextIndex'[n][p] = nextIndex[n][p] - 1
               /\ RefusedBy(n, p, nextIndex'[n][p])]_vars

(* No step of any node removes or rewrites an entry up to its commit       *)
(* index, and a node that goes on leading only appends.                    *)
CommittedPrefixKept ==
  [][\A n \in Node :
       LET keep == IF role[n] = Leader /\ role'[n] = Leader
                   THEN Len(log[n]) ELSE commitIndex[n]
       IN  /\ keep <= Len(log'[n])
           /\ SubSeq(log'[n], 1, keep) = SubSeq(log[n], 1, keep)]_vars

=============================================================================
