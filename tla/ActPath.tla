------------------------------ MODULE ActPath ------------------------------
(***************************************************************************)
(* The act path of one organisation: people approve, reject and snooze     *)
(* findings through core-api; the Hands and the sweep leave payloads on    *)
(* the same rows; the Executor turns an approval into a compliance record. *)
(*                                                                         *)
(* Every transaction runs at READ COMMITTED, so a transaction is split     *)
(* where another transaction can come between two of its statements and    *)
(* matter:                                                                 *)
(*   - a person's request is Read, Update, Record, Commit;                 *)
(*   - PrepareRecord is Gate, then one UPDATE that may wait for a row lock *)
(*     and then goes on with the snapshot it started with (a sweep writes  *)
(*     only what it has locked, and is one step);                          *)
(*   - an execution is Claim, Create, Settle.                              *)
(* A lock is not a variable: the row of f is locked exactly while some     *)
(* request has updated it and has not ended (RowLocked), and a job exactly *)
(* while some execution has claimed it (JobLocked).                        *)
(*                                                                         *)
(* The variables hold what is committed, except req, writer and exec, the  *)
(* local state of the transactions that are open.  A crash of core-api, a  *)
(* lost connection and an error after which the interceptor rolls back are *)
(* all the same step: the local state is dropped.                          *)
(***************************************************************************)
EXTENDS Naturals, Sequences, FiniteSets

CONSTANTS
  Findings,     \* findings of one organisation and one compliance profile
  Users,        \* people who are, or may become, members
  Requests,     \* request transactions that can be open at once
  Writers,      \* PrepareRecord calls that can be open at once
  Executors,    \* ExecuteJob calls that can be in progress at once
  Payloads,     \* values of metadata.payload
  NoPayload,    \* the payload of a finding nobody has prepared
  HighRisk,     \* payloads whose risk_classification is "high"
  Received,     \* payloads with a valid received_at in the past
  Slug,         \* Slug[f]: the obligation f is about
  Actions,      \* the action types obligations are classified with
  Threshold,    \* RejectionsBeforeProductReview
  MaxAudit,     \* bound: decisions in the audit trail of one finding
  NoJob         \* the finding has no executor job

ASSUME ActPathAssumption ==
  /\ IsFiniteSet(Findings)
  /\ NoPayload \in Payloads
  /\ HighRisk \subseteq Payloads \ {NoPayload}
  /\ Received \subseteq Payloads \ {NoPayload}
  /\ Actions \subseteq
       {"review", "create_ropa", "create_dsar", "create_ai_system"}
  /\ Actions # {}
  /\ Threshold \in Nat \ {0}
  /\ MaxAudit \in Nat
  /\ NoJob \notin Users
  /\ NoJob \notin [status : {"pending", "done"}, by : Users, action : Actions]

VARIABLES
  row,      \* row[f]: the committed findings row
  audit,    \* audit[f]: the committed decision rows of audit_log, in order
  job,      \* job[f]: the executor job of f, or NoJob
  records,  \* records[f]: the compliance records created for f, in order
  flags,    \* obligations with a product-review flag
  members,  \* people with a membership
  req,      \* req[r]: a person's open request transaction
  writer,   \* writer[w]: an open PrepareRecord
  exec      \* exec[e]: an open execution

vars == <<row, audit, job, records, flags, members, req, writer, exec>>

-----------------------------------------------------------------------------
(* Decisions that read a finding and change nothing. *)

\* Approving a finding with this action type creates a record.
Executes(action) == action \in {"create_ropa", "create_dsar", "create_ai_system"}

\* The approval must be refused: an AI system classified High-Risk, approved
\* by somebody who did not tick the review.
RequiresReview(action, payload, reviewed) ==
  action = "create_ai_system" /\ payload \in HighRisk /\ ~reviewed

\* A DSAR needs a receipt date that is present, valid and not in the future.
ReceiptMissing(action, payload) ==
  action = "create_dsar" /\ payload \notin Received

\* What the register of an action type has columns for: only the AI register
\* has a risk classification, only the DSAR register a receipt date.
Preparable(action) ==
  {p \in Payloads : /\ p # NoPayload
                    /\ p \in HighRisk => action = "create_ai_system"
                    /\ p \in Received => action = "create_dsar"}

-----------------------------------------------------------------------------
(* Types *)

Rows == [status : {"pending", "approved", "rejected", "snoozed"},
         snoozed_until : BOOLEAN,     \* whether the column is set
         payload : Payloads,
         planned : BOOLEAN,           \* whether approval_plan is set
         action : Actions]

\* One decision row: what was done, by whom, and what the finding then said.
Decisions == [act : {"approve", "reject", "snooze"},
              user : Users,
              reviewed : BOOLEAN,
              creates : BOOLEAN]      \* the plan said a record is owed

Jobs == [status : {"pending", "done"}, by : Users, action : Actions]

Records == [by : Users, action : Actions, payload : Payloads]

Idle == [pc |-> "idle"]

Open == [pc : {"read", "updated", "recorded"},
         act : {"approve", "reject", "snooze"},
         finding : Findings,
         user : Users,
         reviewed : BOOLEAN,
         action : Actions,            \* plan.ActionType, read before the write
         flag : BOOLEAN]              \* this transaction inserts a flag

Writing == [pc : {"gated", "waiting"}, finding : Findings, action : Actions]

Executing == [pc : {"claimed"}, finding : Findings]
             \cup [pc : {"created"}, finding : Findings, made : BOOLEAN,
                   payload : Payloads]

TypeOK ==
  /\ row \in [Findings -> Rows]
  /\ audit \in [Findings -> Seq(Decisions)]
  /\ job \in [Findings -> Jobs \cup {NoJob}]
  /\ records \in [Findings -> Seq(Records)]
  /\ flags \subseteq {Slug[f] : f \in Findings}
  /\ members \subseteq Users
  /\ req \in [Requests -> Open \cup {Idle}]
  /\ writer \in [Writers -> Writing \cup {Idle}]
  /\ exec \in [Executors -> Executing \cup {Idle}]

Init ==
  /\ row \in [Findings -> {[status |-> "pending", snoozed_until |-> FALSE,
                            payload |-> NoPayload, planned |-> FALSE,
                            action |-> a] : a \in Actions}]
  /\ audit = [f \in Findings |-> <<>>]
  /\ job = [f \in Findings |-> NoJob]
  /\ records = [f \in Findings |-> <<>>]
  /\ flags = {}
  /\ members = Users
  /\ req = [r \in Requests |-> Idle]
  /\ writer = [w \in Writers |-> Idle]
  /\ exec = [e \in Executors |-> Idle]

-----------------------------------------------------------------------------
(* Locks *)

HoldsRow(r) == req[r].pc \in {"updated", "recorded"}

RowLocked(f) == \E r \in Requests : HoldsRow(r) /\ req[r].finding = f

\* Mutant: the job is selected without "for update".
JobNeverLocked(f) == FALSE

JobLocked(f) ==
  \E e \in Executors : exec[e].pc \in {"claimed", "created"} /\ exec[e].finding = f

-----------------------------------------------------------------------------
(* A person's request: ApproveFinding, RejectFinding, SnoozeFinding *)

\* ApproveFinding up to its UPDATE: the status, the plan, the two refusals.
ReadPlan(r, f, u, reviewed) ==
  /\ req[r] = Idle
  /\ u \in members
  /\ row[f].status # "approved"
  /\ ~RequiresReview(row[f].action, row[f].payload, reviewed)
  /\ ~ReceiptMissing(row[f].action, row[f].payload)
  /\ req' = [req EXCEPT ![r] = [pc |-> "read", act |-> "approve", finding |-> f,
                                user |-> u, reviewed |-> reviewed,
                                action |-> row[f].action, flag |-> FALSE]]
  /\ UNCHANGED <<row, audit, job, records, flags, members, writer, exec>>

\* Mutant: the UPDATE has no "status <> 'approved'" of its own.
ApproveUpdateBlind(r) ==
  /\ req[r].pc = "read"
  /\ ~RowLocked(req[r].finding)
  /\ Len(audit[req[r].finding]) < MaxAudit
  /\ req' = [req EXCEPT ![r].pc = "updated"]
  /\ UNCHANGED <<row, audit, job, records, flags, members, writer, exec>>

\* The UPDATE of an approval.  Its predicate is evaluated on the row as it is
\* once the lock is free, so of two racing approvals the second matches
\* nothing and its request ends without a write.
ApproveUpdate(r) ==
  /\ req[r].pc = "read"
  /\ ~RowLocked(req[r].finding)
  /\ IF row[req[r].finding].status # "approved" /\ req[r].user \in members
     THEN /\ Len(audit[req[r].finding]) < MaxAudit
          /\ req' = [req EXCEPT ![r].pc = "updated"]
     ELSE req' = [req EXCEPT ![r] = Idle]
  /\ UNCHANGED <<row, audit, job, records, flags, members, writer, exec>>

\* The UPDATE of RejectFinding or SnoozeFinding.  A rejection repeats nothing;
\* a deferral has no status guard at all.
DecideUpdate(r, f, u, act) ==
  /\ req[r] = Idle
  /\ u \in members
  /\ ~RowLocked(f)
  /\ act = "reject" => row[f].status # "rejected"
  /\ Len(audit[f]) < MaxAudit
  /\ req' = [req EXCEPT ![r] = [pc |-> "updated", act |-> act, finding |-> f,
                                user |-> u, reviewed |-> FALSE,
                                action |-> row[f].action, flag |-> FALSE]]
  /\ UNCHANGED <<row, audit, job, records, flags, members, writer, exec>>

\* Mutant: every finding about the obligation is counted, rejected or not.
CountAllFindings(f) == Cardinality({g \in Findings : Slug[g] = Slug[f]})

\* flagForProductReview: rejected findings about the same obligation, counted
\* in the committed table and the transaction's own uncommitted row.
RejectionCount(f) ==
  Cardinality({g \in Findings : /\ Slug[g] = Slug[f]
                                /\ row[g].status = "rejected" \/ g = f})

\* The statements after the UPDATE: count and flag, audit row, job row.  The
\* policies of audit_log and executor_jobs refuse somebody who has left.
RecordDecision(r) ==
  /\ req[r].pc = "updated"
  /\ req[r].user \in members
  /\ req' = [req EXCEPT ![r] =
               [@ EXCEPT !.pc = "recorded",
                         !.flag = /\ req[r].act = "reject"
                                  /\ RejectionCount(req[r].finding) >= Threshold]]
  /\ UNCHANGED <<row, audit, job, records, flags, members, writer, exec>>

\* The row a decision leaves.  An approval does not touch snoozed_until.
Decided(old, act) ==
  [old EXCEPT !.status = CASE act = "approve" -> "approved"
                           [] act = "reject" -> "rejected"
                           [] act = "snooze" -> "snoozed",
              !.snoozed_until = CASE act = "approve" -> @
                                  [] act = "reject" -> FALSE
                                  [] act = "snooze" -> TRUE]

DecisionOf(q) == [act |-> q.act, user |-> q.user,
                  reviewed |-> q.act = "approve" /\ q.reviewed,
                  creates |-> q.act = "approve" /\ Executes(q.action)]

\* Mutant: on conflict (finding_id) do update.
EnqueuedAgain(old, q) ==
  IF DecisionOf(q).creates
  THEN [status |-> "pending", by |-> q.user, action |-> q.action]
  ELSE old

\* Mutant: the job does not say who approved.
EnqueuedUnsigned(old, q) ==
  IF old = NoJob /\ DecisionOf(q).creates
  THEN [status |-> "pending", by |-> NoJob, action |-> q.action]
  ELSE old

\* enqueueExecutorJob: on conflict (finding_id) do nothing.
Enqueued(old, q) ==
  IF old = NoJob /\ DecisionOf(q).creates
  THEN [status |-> "pending", by |-> q.user, action |-> q.action]
  ELSE old

\* The interceptor commits once the handler has answered.
CommitDecision(r) ==
  LET q == req[r] IN
  /\ q.pc = "recorded"
  /\ row' = [row EXCEPT ![q.finding] = Decided(@, q.act)]
  /\ audit' = [audit EXCEPT ![q.finding] = Append(@, DecisionOf(q))]
  /\ job' = [job EXCEPT ![q.finding] = Enqueued(@, q)]
  /\ flags' = flags \cup (IF q.flag THEN {Slug[q.finding]} ELSE {})
  /\ req' = [req EXCEPT ![r] = Idle]
  /\ UNCHANGED <<records, members, writer, exec>>

\* Error, disconnect or crash: the transaction leaves nothing.
Rollback(r) ==
  /\ req[r] # Idle
  /\ req' = [req EXCEPT ![r] = Idle]
  /\ UNCHANGED <<row, audit, job, records, flags, members, writer, exec>>

-----------------------------------------------------------------------------
(* The clock and the sweep *)

\* Mutant: only the date is looked at, which an approval leaves in place.
ExpireByDate(f) ==
  /\ ~RowLocked(f)
  /\ row[f].snoozed_until
  /\ row' = [row EXCEPT ![f] = [@ EXCEPT !.status = "pending",
                                         !.snoozed_until = FALSE]]
  /\ UNCHANGED <<audit, job, records, flags, members, req, writer, exec>>

\* expire_snoozed_findings for one finding whose deferral has run out.
ExpireSnooze(f) ==
  /\ ~RowLocked(f)
  /\ row[f].status = "snoozed"
  /\ row[f].snoozed_until
  /\ row' = [row EXCEPT ![f] = [@ EXCEPT !.status = "pending",
                                         !.snoozed_until = FALSE]]
  /\ UNCHANGED <<audit, job, records, flags, members, req, writer, exec>>

-----------------------------------------------------------------------------
(* Payloads: the Hands and the sweep *)

\* The fields prepared are laid over those the payload has: a classification or a
\* receipt date that the plan is silent on stays as it was.
Prepare(f, action) ==
  \E p \in Preparable(action) \cup ({row[f].payload} \ {NoPayload}) :
    row' = [row EXCEPT ![f] = [@ EXCEPT !.payload = p, !.planned = TRUE]]

\* PrepareRecord's gate: no job is committed for the finding.
HandsGate(w, f) ==
  /\ writer[w] = Idle
  /\ Executes(row[f].action)
  /\ job[f] = NoJob
  /\ writer' = [writer EXCEPT ![w] = [pc |-> "gated", finding |-> f,
                                      action |-> row[f].action]]
  /\ UNCHANGED <<row, audit, job, records, flags, members, req, exec>>

\* PrepareRecord's UPDATE starts: "not exists (executor_jobs)" is decided by
\* the snapshot taken here.  A free row is written at once, a locked one
\* waited for.
HandsUpdate(w) ==
  /\ writer[w].pc = "gated"
  /\ IF job[writer[w].finding] # NoJob
     THEN /\ writer' = [writer EXCEPT ![w] = Idle]
          /\ UNCHANGED row
     ELSE IF RowLocked(writer[w].finding)
     THEN /\ writer' = [writer EXCEPT ![w].pc = "waiting"]
          /\ UNCHANGED row
     ELSE /\ writer' = [writer EXCEPT ![w] = Idle]
          /\ Prepare(writer[w].finding, writer[w].action)
  /\ UNCHANGED <<audit, job, records, flags, members, req, exec>>

\* The lock is released.  Postgres evaluates the predicate again on the new
\* version of the row, and only of the row: the subquery on executor_jobs
\* keeps the snapshot of the statement and is still true.
ResumeUpdate(w) ==
  /\ writer[w].pc = "waiting"
  /\ ~RowLocked(writer[w].finding)
  /\ writer' = [writer EXCEPT ![w] = Idle]
  /\ Prepare(writer[w].finding, writer[w].action)
  /\ UNCHANGED <<audit, job, records, flags, members, req, exec>>

AbandonWrite(w) ==
  /\ writer[w] # Idle
  /\ writer' = [writer EXCEPT ![w] = Idle]
  /\ UNCHANGED <<row, audit, job, records, flags, members, req, exec>>

\* What draftPayload's UPDATE tests: no decision, payload, plan or job.
Undrafted(f) ==
  /\ row[f].status \notin {"approved", "rejected"}
  /\ row[f].payload = NoPayload
  /\ ~row[f].planned
  /\ job[f] = NoJob

\* The sweep on a signal seen before, in one transaction: writeFinding takes the
\* row and refreshes the action type from the obligation, whatever was decided,
\* and keeps payload, plan and status; draftPayload, which then has the lock,
\* fills an empty payload if there are facts for it.  Only the register of
\* processing activities has columns facts can fill.
Sweep(f) ==
  /\ ~RowLocked(f)
  /\ \E a \in Actions :
       \/ row' = [row EXCEPT ![f].action = a]
       \/ /\ a = "create_ropa"
          /\ Undrafted(f)
          /\ \E p \in Preparable(a) :
               row' = [row EXCEPT ![f] = [@ EXCEPT !.action = a, !.payload = p,
                                                   !.planned = TRUE]]
  /\ UNCHANGED <<audit, job, records, flags, members, req, writer, exec>>

-----------------------------------------------------------------------------
(* The Executor *)

\* ExecuteJob takes the approver's identity from the job and claims the row
\* for update under the tenant policy: a job whose approver has left is
\* invisible, a settled one is answered and left alone.
ClaimJob(e, f) ==
  /\ exec[e] = Idle
  /\ job[f] # NoJob
  /\ job[f].status = "pending"
  /\ job[f].by \in members
  /\ ~JobLocked(f)
  /\ exec' = [exec EXCEPT ![e] = [pc |-> "claimed", finding |-> f]]
  /\ UNCHANGED <<row, audit, job, records, flags, members, req, writer>>

\* Mutant: the record is inserted without looking for an earlier one.
CreateAgain(e) ==
  LET f == exec[e].finding IN
  /\ exec[e].pc = "claimed"
  /\ job[f].by \in members
  /\ exec' = [exec EXCEPT ![e] = [pc |-> "created", finding |-> f,
                                  made |-> TRUE, payload |-> row[f].payload]]
  /\ UNCHANGED <<row, audit, job, records, flags, members, req, writer>>

\* createRecord: find the record of this finding or insert it from the payload
\* the finding has now, with its audit row, as the approver.
CreateRecord(e) ==
  LET f == exec[e].finding IN
  /\ exec[e].pc = "claimed"
  /\ job[f].by \in members
  /\ exec' = [exec EXCEPT ![e] = [pc |-> "created", finding |-> f,
                                  made |-> records[f] = <<>>,
                                  payload |-> row[f].payload]]
  /\ UNCHANGED <<row, audit, job, records, flags, members, req, writer>>

\* Mutant: the record is made as what the finding says now, not the job.
SettleAsFindingSays(e) ==
  LET f == exec[e].finding IN
  /\ exec[e].pc = "created"
  /\ records' = IF exec[e].made
                THEN [records EXCEPT ![f] =
                        Append(@, [by |-> job[f].by, action |-> row[f].action,
                                   payload |-> exec[e].payload])]
                ELSE records
  /\ job' = IF job[f].by \in members
            THEN [job EXCEPT ![f].status = "done"] ELSE job
  /\ exec' = [exec EXCEPT ![e] = Idle]
  /\ UNCHANGED <<row, audit, flags, members, req, writer>>

\* The settle is an UPDATE under the same policy whose row count nobody reads:
\* if the approver left since CreateRecord it matches nothing, and the commit
\* keeps the record and leaves the job pending.
SettleJob(e) ==
  LET f == exec[e].finding IN
  /\ exec[e].pc = "created"
  /\ records' = IF exec[e].made
                THEN [records EXCEPT ![f] =
                        Append(@, [by |-> job[f].by, action |-> job[f].action,
                                   payload |-> exec[e].payload])]
                ELSE records
  /\ job' = IF job[f].by \in members
            THEN [job EXCEPT ![f].status = "done"] ELSE job
  /\ exec' = [exec EXCEPT ![e] = Idle]
  /\ UNCHANGED <<row, audit, flags, members, req, writer>>

\* The execution fails or core-api dies: rolled back, the job stays pending.
FailExecution(e) ==
  /\ exec[e] # Idle
  /\ exec' = [exec EXCEPT ![e] = Idle]
  /\ UNCHANGED <<row, audit, job, records, flags, members, req, writer>>

-----------------------------------------------------------------------------
(* Memberships come and go; module Members has their rules. *)

Leave(u) ==
  /\ u \in members
  /\ members' = members \ {u}
  /\ UNCHANGED <<row, audit, job, records, flags, req, writer, exec>>

Join(u) ==
  /\ u \notin members
  /\ members' = members \cup {u}
  /\ UNCHANGED <<row, audit, job, records, flags, req, writer, exec>>

-----------------------------------------------------------------------------

RequestStep(r) ==
  \/ \E f \in Findings, u \in Users, reviewed \in BOOLEAN : ReadPlan(r, f, u, reviewed)
  \/ \E f \in Findings, u \in Users, act \in {"reject", "snooze"} :
       DecideUpdate(r, f, u, act)
  \/ ApproveUpdate(r)
  \/ RecordDecision(r)
  \/ CommitDecision(r)
  \/ Rollback(r)

WriterStep(w) ==
  \/ \E f \in Findings : HandsGate(w, f)
  \/ HandsUpdate(w)
  \/ ResumeUpdate(w)
  \/ AbandonWrite(w)

ExecutorStep(e) ==
  \/ \E f \in Findings : ClaimJob(e, f)
  \/ CreateRecord(e)
  \/ SettleJob(e)
  \/ FailExecution(e)

Next ==
  \/ \E r \in Requests : RequestStep(r)
  \/ \E w \in Writers : WriterStep(w)
  \/ \E e \in Executors : ExecutorStep(e)
  \/ \E f \in Findings : ExpireSnooze(f) \/ Sweep(f)
  \/ \E u \in Users : Leave(u) \/ Join(u)

Spec == Init /\ [][Next]_vars

-----------------------------------------------------------------------------
(* What holds *)

\* Two executions, a retry after a lost commit, or an approver who leaves
\* before the settle and comes back never make a second record of a finding
\* (ExecuteJob, createRecord).
OneRecordPerFinding == \A f \in Findings : Len(records[f]) <= 1

\* Two people who approve at once, or reject at once, leave one decision row:
\* equal decisions that make a transition are never adjacent in the trail
\* (the repeated predicates of ApproveFinding and RejectFinding).
NoRepeatedDecision ==
  \A f \in Findings : \A i \in 1..(Len(audit[f]) - 1) :
    audit[f][i].act = audit[f][i + 1].act => audit[f][i].act = "snooze"

\* The audit trail ends in the decision the row shows; only the end of a
\* deferral changes a status without one (recordAudit, expire_snoozed_findings).
Shows(f) ==
  IF audit[f] = <<>> THEN {"pending"}
  ELSE CASE audit[f][Len(audit[f])].act = "approve" -> {"approved"}
         [] audit[f][Len(audit[f])].act = "reject" -> {"rejected"}
         [] audit[f][Len(audit[f])].act = "snooze" -> {"snoozed", "pending"}

TrailShowsStatus == \A f \in Findings : row[f].status \in Shows(f)

\* A record is owed exactly when some approval's plan said so, and it is owed
\* to the first such approval: the job acts for that person even after the
\* finding is rejected and approved again by another (enqueueExecutorJob).
CreatingApprovals(f) == {i \in 1..Len(audit[f]) : audit[f][i].creates}

JobOfFirstApproval ==
  \A f \in Findings :
    IF CreatingApprovals(f) = {} THEN job[f] = NoJob
    ELSE /\ job[f] # NoJob
         /\ \E i \in CreatingApprovals(f) :
              /\ \A j \in CreatingApprovals(f) : i <= j
              /\ job[f].by = audit[f][i].user

\* A record exists only for a job, made by its approver as its action type,
\* and a job is done only once the record exists.  The converse fails: a
\* record may exist while its job is still pending (SettleJob).
RecordBackedByJob ==
  \A f \in Findings :
    /\ \A i \in 1..Len(records[f]) :
         /\ job[f] # NoJob
         /\ records[f][i].by = job[f].by
         /\ records[f][i].action = job[f].action
    /\ job[f] # NoJob => (job[f].status = "done" => records[f] # <<>>)

\* Row locks and job claims exclude: one request decides a finding at a time,
\* and one execution has its job.
ExclusiveLocks ==
  /\ \A r, s \in Requests :
       HoldsRow(r) /\ HoldsRow(s) /\ req[r].finding = req[s].finding => r = s
  /\ \A d, e \in Executors :
       exec[d] # Idle /\ exec[e] # Idle /\ exec[d].finding = exec[e].finding => d = e

\* What a transaction learned from its UPDATE or its claim stays true until it
\* ends: the decision it holds is still a change of the row, the job it claimed
\* is still pending, and the record it found or did not find is still so.
\* (Only an approval has a read that its write relies on.)
OpenWorkStands ==
  /\ \A r \in Requests : req[r].pc = "read" => req[r].act = "approve"
  /\ \A r \in Requests : HoldsRow(r) =>
       /\ req[r].act = "approve" => row[req[r].finding].status # "approved"
       /\ req[r].act = "reject" => row[req[r].finding].status # "rejected"
  /\ \A e \in Executors : exec[e] # Idle =>
       /\ job[exec[e].finding] # NoJob
       /\ job[exec[e].finding].status = "pending"
       /\ exec[e].pc = "created" => (exec[e].made <=> records[exec[e].finding] = <<>>)

\* A flag stands on rejections that are in the trail, enough of them
\* (flagForProductReview counts inside a transaction that may roll back).
EverRejected(f) == \E i \in 1..Len(audit[f]) : audit[f][i].act = "reject"

FlagsAreEarned ==
  \A s \in flags :
    Cardinality({f \in Findings : Slug[f] = s /\ EverRejected(f)}) >= Threshold

\* What an approval set in motion is never taken back or repointed: a job keeps
\* its approver and action, done stays done, a record is never changed, a
\* decision row is never rewritten, a flag never dropped.
Extends(s, t) == Len(s) <= Len(t) /\ SubSeq(t, 1, Len(s)) = s

HistoryStep ==
  /\ \A f \in Findings :
       /\ job[f] # NoJob => /\ job'[f] # NoJob
                            /\ job'[f].by = job[f].by
                            /\ job'[f].action = job[f].action
                            /\ job[f].status = "done" => job'[f] = job[f]
       /\ Extends(records[f], records'[f])
       /\ Extends(audit[f], audit'[f])
  /\ flags \subseteq flags'

HistoryOnlyGrows == [][HistoryStep]_vars

-----------------------------------------------------------------------------
(* The abstract specification this one implements *)

Ledger == INSTANCE ApprovalLedger WITH
  Nobody <- NoJob,
  status <- [f \in Findings |-> row[f].status],
  trail <- audit,
  owed <- [f \in Findings |-> IF job[f] = NoJob THEN NoJob ELSE job[f].by],
  made <- [f \in Findings |-> IF records[f] = <<>> THEN NoJob ELSE records[f][1].by]

\* Each decision takes effect at one moment, its commit; an approval makes at
\* most one record owed, and that record is made once, as its approver,
\* whatever the requests, executions, retries and departures interleaved with
\* it (the act path and ExecuteJob as a whole).
ImplementsLedger == Ledger!LedgerSpec

-----------------------------------------------------------------------------
(* What the documents claim and the code does not keep *)

\* CHANGELOG.md:1363 "A plan is also refused once the approval it was meant to
\* inform has been enqueued": the payload does not change once a job exists.
PayloadFrozenOnceEnqueued ==
  [][\A f \in Findings : job[f] # NoJob => row'[f].payload = row[f].payload]_vars

=============================================================================
