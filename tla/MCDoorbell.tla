----------------------------- MODULE MCDoorbell -----------------------------
(***************************************************************************)
(* Instances of Doorbell for TLC.                                          *)
(***************************************************************************)
EXTENDS Doorbell, TLC

\* Every finding is of the same severity, the lower of two a person may ask for.
AllLow == [b \in Bells |-> 1]

\* Up to two faults; one with the first doorbell.
TwoFaults == [b \in Bells |-> 2]
OneFault == [b \in Bells |-> IF b = 1 THEN 1 ELSE 0]

Interchangeable == Permutations(Calls) \cup Permutations(People)

=============================================================================
