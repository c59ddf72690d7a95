------------------------------ MODULE MCMemory ------------------------------
(***************************************************************************)
(* Instances of Memory for TLC.                                            *)
(***************************************************************************)
EXTENDS Memory, TLC

\* "no" to the first question makes the second pointless.
NoIsTheEnd == [k \in Asked |-> IF k = 2 THEN {<<1, "no">>} ELSE {}]

Interchangeable == Permutations(Requests)

=============================================================================
