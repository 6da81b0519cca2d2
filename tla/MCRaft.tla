------------------------------- MODULE MCRaft -------------------------------
(***************************************************************************)
(* Raft for TLC: the elections each run may hold, and three reachable      *)
(* states to start from, so that long histories fit into small bounds.     *)
(***************************************************************************)
EXTENDS RaftInv, RaftLedger, TLC

CONSTANTS n1, n2, n3

Symmetry == Permutations(Node)

EveryoneTwice == Node \X {1, 2}
AloneThreeTerms == Node \X (1 .. 3)
NewLeaderInTwo == {<<n2, 2>>}
NewLeaderOrReturn == {<<n2, 2>>, <<n1, 5>>}
OldLeaderReturns == {<<n1, 3>>, <<n2, 4>>}

E(term, cmd) == [term |-> term, cmd |-> cmd]
FirstNoOp == E(1, NoOp)

Ask(from, to, term, index, last) ==
  [from |-> from, boot |-> 0, to |-> to, term |-> term, lastLogIndex |-> index,
   lastLogTerm |-> last]

(* Nodes powered up with disks d: followers that know nothing else. *)
PoweredUp(d) ==
  /\ currentTerm = [n \in Node |-> d[n].term]
  /\ votedFor = [n \in Node |-> d[n].votedFor]
  /\ log = [n \in Node |-> d[n].entries]
  /\ disk = d
  /\ up = [n \in Node |-> TRUE]
  /\ role = [n \in Node |-> Follower]
  /\ leaderID = [n \in Node |-> Nobody]
  /\ commitIndex = [n \in Node |-> 0]
  /\ nextIndex = [n \in Node |-> [p \in Node |-> 0]]
  /\ matchIndex = [n \in Node |-> [p \in Node |-> 0]]
  /\ votes = [n \in Node |-> 0]
  /\ boot = [n \in Node |-> 0]
  /\ voteReqs = {} /\ voteReps = {} /\ appendReqs = {} /\ appendReps = {}
  /\ crashes = 0 /\ committed = {}

(* After two terms whose leaders reached nobody with their no-ops: n1 led  *)
(* term 1 with the votes of all, n2 led term 2 with the vote of n3 (n1     *)
(* refused, its log was longer), then all three stopped and started again. *)
TwoLeadersInit ==
  /\ PoweredUp(
       n1 :> [term |-> 2, votedFor |-> Nobody, entries |-> <<FirstNoOp>>]
    @@ n2 :> [term |-> 2, votedFor |-> n2,
              entries |-> <<E(2, NoOp)>>]
    @@ n3 :> [term |-> 2, votedFor |-> n2, entries |-> <<>>])
  /\ ballots = {<<n, 1, n1>> : n \in Node} \cup {<<n, 2, n2>> : n \in {n2, n3}}
  /\ leaders = {<<n1, 1>>, <<n2, 2>>}
TwoLeadersSpec == TwoLeadersInit /\ [][Next]_vars

(* n1 leads term 1: n2's vote made it leader, n3's came after that and is  *)
(* ignored.                                                                *)
Elected == [n \in Node |->
  [term |-> 1, votedFor |-> n1, entries |-> IF n = n1 THEN <<FirstNoOp>> ELSE <<>>]]
LeaderInit ==
  /\ currentTerm = [n \in Node |-> 1]
  /\ votedFor = [n \in Node |-> n1]
  /\ log = [n \in Node |-> Elected[n].entries]
  /\ disk = Elected
  /\ up = [n \in Node |-> TRUE]
  /\ role = [n \in Node |-> IF n = n1 THEN Leader ELSE Follower]
  /\ leaderID = [n \in Node |-> IF n = n1 THEN n1 ELSE Nobody]
  /\ commitIndex = [n \in Node |-> 0]
  /\ nextIndex = [n \in Node |-> [p \in Node |-> IF n = n1 THEN 1 ELSE 0]]
  /\ matchIndex = [n \in Node |-> [p \in Node |-> 0]]
  /\ votes = [n \in Node |-> IF n = n1 THEN 2 ELSE 0]
  /\ boot = [n \in Node |-> 0]
  /\ voteReqs = {}
  /\ voteReps = {[req |-> Ask(n1, n3, 1, 0, 0), term |-> 1, voteGranted |-> TRUE]}
  /\ appendReqs = {} /\ appendReps = {} /\ crashes = 0
  /\ ballots = {<<n, 1, n1>> : n \in Node}
  /\ leaders = {<<n1, 1>>} /\ committed = {}

(* n1 led term 1 and n2 term 2, neither reaching anyone.  n1 led term 3    *)
(* with n3's vote: n3, after two refusals, has taken the two entries of    *)
(* term 1, and its answer is still under way.  Then n2 was elected in term *)
(* 4, with n3's vote, and gave n1 its log; n1's answer to that was lost.   *)
OldEntries == <<FirstNoOp, E(1, CHOOSE c \in Command : TRUE)>>
Diverged ==
     n1 :> [term |-> 4, votedFor |-> Nobody, entries |-> <<E(2, NoOp), E(4, NoOp)>>]
  @@ n2 :> [term |-> 4, votedFor |-> n2, entries |-> <<E(2, NoOp), E(4, NoOp)>>]
  @@ n3 :> [term |-> 4, votedFor |-> n2, entries |-> OldEntries]
ReturnInit ==
  /\ currentTerm = [n \in Node |-> Diverged[n].term]
  /\ votedFor = [n \in Node |-> Diverged[n].votedFor]
  /\ log = [n \in Node |-> Diverged[n].entries]
  /\ disk = Diverged
  /\ up = [n \in Node |-> TRUE]
  /\ role = [n \in Node |-> IF n = n2 THEN Leader ELSE Follower]
  /\ leaderID = [n \in Node |-> IF n = n3 THEN Nobody ELSE n2]
  /\ commitIndex = [n \in Node |-> 0]
  /\ nextIndex = n1 :> (n1 :> 3 @@ n2 :> 3 @@ n3 :> 1)
                 @@ n2 :> (n1 :> 1 @@ n2 :> 2 @@ n3 :> 2) @@ n3 :> [p \in Node |-> 0]
  /\ matchIndex = [n \in Node |-> [p \in Node |-> 0]]
  /\ votes = [n \in Node |-> IF n = n3 THEN 0 ELSE 2]
  /\ boot = [n \in Node |-> 0]
  /\ voteReqs = {}
  /\ voteReps = {[req |-> Ask(n1, n3, 1, 0, 0), term |-> 1, voteGranted |-> TRUE],
                 [req |-> Ask(n2, n1, 2, 0, 0), term |-> 2, voteGranted |-> FALSE],
                 [req |-> Ask(n1, n2, 3, 2, 1), term |-> 3, voteGranted |-> FALSE],
                 [req |-> Ask(n2, n1, 4, 1, 2), term |-> 4, voteGranted |-> FALSE]}
  /\ appendReqs = {}
  /\ appendReps = {[req |-> [from |-> n1, boot |-> 0, to |-> n3, term |-> 3,
                             prevLogIndex |-> 0, prevLogTerm |-> 0,
                             entries |-> OldEntries, leaderCommit |-> 0],
                    term |-> 3, success |-> TRUE]}
  /\ crashes = 0
  /\ ballots = {<<n, 1, n1>> : n \in Node} \cup {<<n, 2, n2>> : n \in {n2, n3}}
       \cup {<<n, 3, n1>> : n \in {n1, n3}} \cup {<<n, 4, n2>> : n \in {n2, n3}}
  /\ leaders = {<<n1, 1>>, <<n2, 2>>, <<n1, 3>>, <<n2, 4>>} /\ committed = {}
ReplicationSpec == (LeaderInit \/ ReturnInit) /\ [][Next]_vars

=============================================================================
