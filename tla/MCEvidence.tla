----------------------------- MODULE MCEvidence -----------------------------
(***************************************************************************)
(* Instances of Evidence for TLC.                                          *)
(***************************************************************************)
EXTENDS Evidence, TLC

\* The first tool is ticked or not.
FirstOrNone == {{}, {1}}

=============================================================================
