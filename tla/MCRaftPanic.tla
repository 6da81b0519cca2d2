---------------------------- MODULE MCRaftPanic -----------------------------
(***************************************************************************)
(* RaftPanic for TLC: from the start, and from the first leader on.        *)
(***************************************************************************)
EXTENDS MCRaft, RaftPanic

TwoRivals == {<<n1, 1>>, <<n2, 1>>}
NoElection == {}

PanicLeaderSpec == LeaderInit /\ failures = 0 /\ [][PanicNext]_panicVars

=============================================================================
