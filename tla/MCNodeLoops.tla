----------------------------- MODULE MCNodeLoops -----------------------------
(***************************************************************************)
(* Instances of NodeLoops for TLC.                                         *)
(***************************************************************************)
EXTENDS NodeLoops

B(terms, proposals, nCalls, requests, stops, quits) ==
  [terms |-> terms, proposals |-> proposals, calls |-> nCalls,
   requests |-> requests, stops |-> stops, quits |-> quits]

(* A loop left over from an older leadership; Stop amid elections and      *)
(* calls, or with a consumer that has quit; entries of another leader; two *)
(* calls at a time, from an empty log and from one the peer may not share. *)
Behaviours ==
  {B(3, 1, 1, 0, 0, 0), B(2, 1, 1, 0, 1, 1), B(2, 0, 1, 1, 1, 0),
   B(2, 1, 1, 1, 0, 0), B(1, 1, 2, 0, 0, 0), B(2, 0, 2, 1, 0, 0)}

(* Two commands, one call at a time, and nobody stops or interferes. *)
TwoCommands == {B(1, 2, 1, 0, 0, 0)}

=============================================================================
