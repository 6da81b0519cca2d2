---------------------------- MODULE ReplicatedLog ----------------------------
(***************************************************************************)
(* What the cluster promises those who use it: there is one sequence of    *)
(* committed entries, it only grows at its end, and what a node learns of  *)
(* it, and may apply, is always a prefix of it, which grows until the      *)
(* process stops.                                                          *)
(***************************************************************************)
EXTENDS Naturals, Sequences

CONSTANTS Node, Entry

VARIABLES
  chosen,    \* the entries committed so far
  learnt,    \* node -> the ones it knows to be committed
  running    \* node -> does its process run?

logVars == <<chosen, learnt, running>>

Init ==
  /\ chosen = <<>>
  /\ learnt = [n \in Node |-> <<>>]
  /\ running = [n \in Node |-> TRUE]

(* A leader commits entries, and knows then of all there are. *)
Commit(n) ==
  /\ running[n]
  /\ chosen' \in Seq(Entry) /\ Len(chosen') > Len(chosen)
  /\ SubSeq(chosen', 1, Len(chosen)) = chosen
  /\ learnt' = [learnt EXCEPT ![n] = chosen']
  /\ running' = running

(* A follower hears of more, and so does a leader that has been deposed    *)
(* and counts a late answer.                                               *)
Learn(n) ==
  /\ running[n]
  /\ \E k \in Len(learnt[n]) + 1 .. Len(chosen) :
       learnt' = [learnt EXCEPT ![n] = SubSeq(chosen, 1, k)]
  /\ UNCHANGED <<chosen, running>>

(* The commit index is not saved: it goes with the process, and only with  *)
(* it, and the next process of the node learns it again.                   *)
Stop(n) ==
  /\ running[n]
  /\ running' = [running EXCEPT ![n] = FALSE]
  /\ learnt' = [learnt EXCEPT ![n] = <<>>]
  /\ chosen' = chosen

Start(n) ==
  /\ ~running[n]
  /\ running' = [running EXCEPT ![n] = TRUE]
  /\ UNCHANGED <<chosen, learnt>>

Next == \E n \in Node : Commit(n) \/ Learn(n) \/ Stop(n) \/ Start(n)

Spec == Init /\ [][Next]_logVars

=============================================================================
