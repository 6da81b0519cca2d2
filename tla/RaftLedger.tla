----------------------------- MODULE RaftLedger ------------------------------
(***************************************************************************)
(* Raft as an implementation of ReplicatedLog: the entries committed, in   *)
(* the order of their indexes, and the log of each node up to its commit   *)
(* index.                                                                  *)
(***************************************************************************)
EXTENDS Raft

InOrder(S) == [i \in {c.index : c \in S} |-> (CHOOSE c \in S : c.index = i).entry]

Chosen == InOrder(committed)
Learnt == [n \in Node |-> SubSeq(log[n], 1, commitIndex[n])]

Abstract == INSTANCE ReplicatedLog
              WITH chosen <- Chosen, learnt <- Learnt, running <- up

(* Every step of every node, whatever is lost or repeated, does one of     *)
(* these to what appliers may send on their channels: it appends to the    *)
(* one committed sequence, lets one running node learn more of it, or      *)
(* stops or starts one node, and only a stop makes a node forget; or it    *)
(* does nothing to it.                                                     *)
ImplementsLog == Abstract!Spec

(* The indexes of what was committed have no gap: Chosen is a sequence. *)
Gapless == \E k \in Nat : {c.index : c \in committed} = 1 .. k

=============================================================================
