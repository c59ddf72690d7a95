--------------------------- MODULE ApprovalLedger ---------------------------
(***************************************************************************)
(* What the act path and the Executor promise together, with no            *)
(* transactions, locks, retries or agents: every finding has a trail of    *)
(* decisions, each of which takes effect at one moment; the first approval *)
(* that creates something makes one record owed to its approver; that      *)
(* record is made once, later, and in that person's name.                  *)
(*                                                                         *)
(* Promise as the API documents it: ApproveFinding and RejectFinding are   *)
(* idempotent, SnoozeFinding is not; executor_jobs holds one job per       *)
(* finding; a record is created as the approver.                           *)
(***************************************************************************)
EXTENDS Naturals, Sequences

CONSTANTS Findings, Users,
          Nobody       \* not a user

VARIABLES
  status,   \* status[f]: what the finding says
  trail,    \* trail[f]: the decisions taken on f
  owed,     \* owed[f]: whose approval made a record owed, or Nobody
  made      \* made[f]: in whose name the record was made, or Nobody

ledger == <<status, trail, owed, made>>

LedgerInit ==
  /\ status = [f \in Findings |-> "pending"]
  /\ trail = [f \in Findings |-> <<>>]
  /\ owed = [f \in Findings |-> Nobody]
  /\ made = [f \in Findings |-> Nobody]

Take(f, decision, to) ==
  /\ trail' = [trail EXCEPT ![f] = Append(@, decision)]
  /\ status' = [status EXCEPT ![f] = to]

\* Approving again what is approved is no decision.
Approve(f, u, reviewed, creates) ==
  /\ status[f] # "approved"
  /\ Take(f, [act |-> "approve", user |-> u, reviewed |-> reviewed,
              creates |-> creates], "approved")
  /\ owed' = [owed EXCEPT ![f] = IF creates /\ @ = Nobody THEN u ELSE @]
  /\ UNCHANGED made

Reject(f, u) ==
  /\ status[f] # "rejected"
  /\ Take(f, [act |-> "reject", user |-> u, reviewed |-> FALSE,
              creates |-> FALSE], "rejected")
  /\ UNCHANGED <<owed, made>>

Snooze(f, u) ==
  /\ Take(f, [act |-> "snooze", user |-> u, reviewed |-> FALSE,
              creates |-> FALSE], "snoozed")
  /\ UNCHANGED <<owed, made>>

\* A deferral runs out, by itself.
Reemerge(f) ==
  /\ status[f] = "snoozed"
  /\ status' = [status EXCEPT ![f] = "pending"]
  /\ UNCHANGED <<trail, owed, made>>

MakeRecord(f) ==
  /\ owed[f] # Nobody
  /\ made[f] = Nobody
  /\ made' = [made EXCEPT ![f] = owed[f]]
  /\ UNCHANGED <<status, trail, owed>>

LedgerNext ==
  \E f \in Findings :
    \/ \E u \in Users, reviewed \in BOOLEAN, creates \in BOOLEAN :
         Approve(f, u, reviewed, creates)
    \/ \E u \in Users : Reject(f, u) \/ Snooze(f, u)
    \/ Reemerge(f)
    \/ MakeRecord(f)

LedgerSpec == LedgerInit /\ [][LedgerNext]_ledger

=============================================================================
