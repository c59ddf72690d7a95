------------------------------ MODULE MCOutbox ------------------------------
(***************************************************************************)
(* Instances of Outbox for TLC.                                            *)
(***************************************************************************)
EXTENDS Outbox, TLC

\* Every message goes to an address of its own.
OwnAddress == [m \in Messages |-> m]

=============================================================================
