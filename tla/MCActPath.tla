----------------------------- MODULE MCActPath -----------------------------
(***************************************************************************)
(* Instances of ActPath for TLC.  The .cfg files choose the sets; what a   *)
(* .cfg cannot write (functions, permutations) is named here.              *)
(***************************************************************************)
EXTENDS ActPath, TLC

\* Every finding is about the same obligation.
OneObligation == [f \in Findings |-> "records-of-processing"]

\* No definition names a person, a connection or an execution.
Interchangeable ==
  Permutations(Users) \cup Permutations(Requests) \cup Permutations(Executors)

\* Where every finding is about one obligation, findings are too.
InterchangeableFindings == Interchangeable \cup Permutations(Findings)

=============================================================================
