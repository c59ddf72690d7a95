----------------------------- MODULE MCMembers -----------------------------
(***************************************************************************)
(* Instances of Members for TLC.                                           *)
(***************************************************************************)
EXTENDS Members, TLC

\* Nothing but the founder is named.
Interchangeable ==
  Permutations(Users \ {Founder}) \cup Permutations(Txs) \cup Permutations(Invitations)

=============================================================================
