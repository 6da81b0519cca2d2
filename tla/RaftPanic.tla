------------------------------ MODULE RaftPanic ------------------------------
(***************************************************************************)
(* Raft over httptransport with a Storage whose Save may fail.             *)
(*                                                                         *)
(* persist() panics when Save fails.  In a goroutine of the node that ends *)
(* the process, which is Crash.  A handler, though, runs in a goroutine of *)
(* the net/http server, which recovers a panic of the handler: the caller  *)
(* gets no reply, the deferred Unlock releases the mutex, and the node     *)
(* goes on with what the handler had assigned in memory.  A Save may also  *)
(* fail after the rename, with the new state on disk.                      *)
(***************************************************************************)
EXTENDS Raft

CONSTANT MaxFailures   \* bound: failing saves in one behaviour
VARIABLE failures      \* number of failed saves so far
panicVars == <<vars, failures>>

ASSUME FailuresAssumption == MaxFailures \in Nat

(* A Save fails and leaves d on disk, or what it was to save. *)
SaveFailed(n, d) ==
  /\ failures < MaxFailures /\ failures' = failures + 1
  /\ disk' = d \/ Persist(n)

(* The disk after observeTerm(term) in the same handler. *)
Observed(n, term) ==
  IF term > currentTerm[n]
  THEN [disk EXCEPT ![n] = [term |-> term, votedFor |-> Nobody, entries |-> log[n]]]
  ELSE disk

(* observeTerm in a handler: becomeFollower has set the term and cleared   *)
(* vote and leader, its Save fails, and the role is not reached.           *)
ObserveTermPanics(n, m) ==
  /\ up[n] /\ m.to = n /\ m.term > currentTerm[n]
  /\ currentTerm' = [currentTerm EXCEPT ![n] = m.term]
  /\ votedFor' = [votedFor EXCEPT ![n] = Nobody]
  /\ leaderID' = [leaderID EXCEPT ![n] = Nobody]
  /\ log' = log
  /\ SaveFailed(n, disk)
  /\ voteReqs' = voteReqs \ {m} /\ appendReqs' = appendReqs \ {m}
  /\ UNCHANGED <<up, role, commitIndex, progress, votes, boot, voteReps,
                 appendReps, crashes, history>>

(* The vote is in memory, its Save fails, and no reply is sent. *)
WrongVoteReply(m) == {[req |-> m, term |-> m.term, voteGranted |-> TRUE]}
VoteReply(m) == {}
HandleRequestVotePanics(n, m) ==
  /\ up[n] /\ m \in voteReqs /\ m.to = n
  /\ m.term >= currentTerm[n] /\ CanVote(n, m)
  /\ currentTerm' = [currentTerm EXCEPT ![n] = m.term]
  /\ votedFor' = [votedFor EXCEPT ![n] = m.from]
  /\ role' = [role EXCEPT ![n] = RoleAfter(n, m.term)]
  /\ leaderID' = [leaderID EXCEPT ![n] = LeaderAfter(n, m.term)]
  /\ log' = log
  /\ SaveFailed(n, Observed(n, m.term))
  /\ voteReqs' = voteReqs \ {m}
  /\ voteReps' = voteReps \cup VoteReply(m)
  /\ UNCHANGED <<up, commitIndex, progress, votes, boot, appendNet, crashes,
                 history>>

(* The new entries are in the log, their Save fails, and the commit index  *)
(* is not reached.                                                         *)
HandleAppendEntriesPanics(n, m) ==
  /\ up[n] /\ m \in appendReqs /\ m.to = n
  /\ m.term >= currentTerm[n] /\ Matches(log[n], m.prevLogIndex, m.prevLogTerm)
  /\ currentTerm' = [currentTerm EXCEPT ![n] = m.term]
  /\ votedFor' = [votedFor EXCEPT ![n] = VoteAfter(n, m.term)]
  /\ role' = [role EXCEPT ![n] = Follower]
  /\ leaderID' = [leaderID EXCEPT ![n] = m.from]
  /\ log' = [log EXCEPT ![n] = AppendNew(@, m.prevLogIndex, m.entries)]
  /\ log' # log
  /\ SaveFailed(n, Observed(n, m.term))
  /\ appendReqs' = appendReqs \ {m}
  /\ UNCHANGED <<up, commitIndex, progress, votes, boot, voteNet, appendReps,
                 crashes, history>>

HandlerPanics(n) ==
  \/ \E m \in voteReqs \cup appendReqs : ObserveTermPanics(n, m)
  \/ \E m \in voteReqs : HandleRequestVotePanics(n, m)
  \/ \E m \in appendReqs : HandleAppendEntriesPanics(n, m)

(* A leader loop, and what it spawns, works for the term it was started in *)
(* and ends when the node's term is another: a node that is still Leader   *)
(* in a term in which it was not elected sends nothing.                    *)
LoopsKeepToTheirTerm ==
  \A m \in appendReqs' \ appendReqs : <<m.from, m.term>> \in leaders

PanicInit == Init /\ failures = 0
PanicNext ==
  \/ Next /\ LoopsKeepToTheirTerm /\ UNCHANGED failures
  \/ \E n \in Node : HandlerPanics(n)
PanicSpec == PanicInit /\ [][PanicNext]_panicVars

=============================================================================
