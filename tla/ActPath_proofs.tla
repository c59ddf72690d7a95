--------------------------- MODULE ActPath_proofs ---------------------------
(***************************************************************************)
(* Theorems about ActPath for any findings, people, payloads and number of *)
(* open transactions.                                                      *)
(***************************************************************************)
EXTENDS ActPath, FiniteSetTheorems, TLAPS

-----------------------------------------------------------------------------
(* Facts about the operators of the model *)

\* A decision and an enqueue keep a row and a job well formed.
LEMMA DecidedType ==
  ASSUME NEW old \in Rows, NEW act \in {"approve", "reject", "snooze"}
  PROVE  Decided(old, act) \in Rows
  BY DEF Decided, Rows

\* A committed request leaves a well-formed decision row.
LEMMA DecisionType ==
  ASSUME NEW q \in Open
  PROVE  DecisionOf(q) \in Decisions
  BY DEF Open, DecisionOf, Decisions, Executes

\* Enqueueing leaves a well-formed job, or none.
LEMMA EnqueuedType ==
  ASSUME NEW old \in Jobs \cup {NoJob}, NEW q \in Open
  PROVE  Enqueued(old, q) \in Jobs \cup {NoJob}
  BY DEF Open, Enqueued, Jobs, DecisionOf

\* A request that holds a row, a writer or an execution that is under way has
\* the fields its state says.
LEMMA OpenRequest ==
  ASSUME TypeOK, NEW r \in Requests, req[r] # Idle
  PROVE  req[r] \in Open
  BY DEF TypeOK

\* The same of a PrepareRecord that is under way.
LEMMA OpenWriter ==
  ASSUME TypeOK, NEW w \in Writers, writer[w] # Idle
  PROVE  writer[w] \in Writing
  BY DEF TypeOK

\* The same of an execution that is under way.
LEMMA OpenExecution ==
  ASSUME TypeOK, NEW e \in Executors, exec[e] # Idle
  PROVE  exec[e] \in Executing
  BY DEF TypeOK

-----------------------------------------------------------------------------
(* Type correctness *)

\* No statement of a person's request leaves an ill-typed state.
LEMMA RequestTypes ==
  ASSUME TypeOK, NEW r \in Requests, RequestStep(r)
  PROVE  TypeOK'
<1>1. ASSUME NEW f \in Findings, NEW u \in Users, NEW reviewed \in BOOLEAN,
             ReadPlan(r, f, u, reviewed)
      PROVE  TypeOK'
  <2>1. row[f].action \in Actions
    BY DEF TypeOK, Rows
  <2>2. req'[r] \in Open
    BY <1>1, <2>1 DEF ReadPlan, TypeOK, Open
  <2> QED  BY <1>1, <2>2 DEF ReadPlan, TypeOK
<1>2. ASSUME NEW f \in Findings, NEW u \in Users, NEW act \in {"reject", "snooze"},
             DecideUpdate(r, f, u, act)
      PROVE  TypeOK'
  <2>1. row[f].action \in Actions
    BY DEF TypeOK, Rows
  <2>2. req'[r] \in Open
    BY <1>2, <2>1 DEF DecideUpdate, TypeOK, Open
  <2> QED  BY <1>2, <2>2 DEF DecideUpdate, TypeOK
<1>3. ASSUME ApproveUpdate(r) PROVE TypeOK'
  <2>1. req[r] \in Open
    BY <1>3, OpenRequest DEF ApproveUpdate, Idle
  <2>2. CASE req' = [req EXCEPT ![r].pc = "updated"]
    <3>1. req'[r] = [req[r] EXCEPT !.pc = "updated"]
      BY <2>2 DEF TypeOK
    <3>2. req'[r] \in Open
      BY <2>1, <3>1 DEF Open
    <3> QED  BY <1>3, <2>2, <3>2 DEF ApproveUpdate, TypeOK
  <2>3. CASE req' = [req EXCEPT ![r] = Idle]
    BY <1>3, <2>3 DEF ApproveUpdate, TypeOK
  <2> QED  BY <1>3, <2>2, <2>3 DEF ApproveUpdate
<1>4. ASSUME RecordDecision(r) PROVE TypeOK'
  <2>1. req[r] \in Open
    BY <1>4, OpenRequest DEF RecordDecision, Idle
  <2>2. req'[r] \in Open
    BY <1>4, <2>1 DEF RecordDecision, TypeOK, Open
  <2> QED  BY <1>4, <2>2 DEF RecordDecision, TypeOK
<1>5. ASSUME CommitDecision(r) PROVE TypeOK'
  <2> DEFINE q == req[r]
  <2>1. q \in Open
    BY <1>5, OpenRequest DEF CommitDecision, Idle
  <2>2. /\ q.finding \in Findings
        /\ q.act \in {"approve", "reject", "snooze"}
    BY <2>1 DEF Open
  <2>3. row' \in [Findings -> Rows]
    BY <1>5, <2>2, DecidedType DEF CommitDecision, TypeOK
  <2>4. audit' \in [Findings -> Seq(Decisions)]
    BY <1>5, <2>1, <2>2, DecisionType DEF CommitDecision, TypeOK
  <2>5. job' \in [Findings -> Jobs \cup {NoJob}]
    BY <1>5, <2>1, <2>2, EnqueuedType DEF CommitDecision, TypeOK
  <2> QED  BY <1>5, <2>2, <2>3, <2>4, <2>5 DEF CommitDecision, TypeOK
<1>6. ASSUME Rollback(r) PROVE TypeOK'
  BY <1>6 DEF Rollback, TypeOK
<1> QED  BY <1>1, <1>2, <1>3, <1>4, <1>5, <1>6 DEF RequestStep

\* Nor does PrepareRecord.
LEMMA WriterTypes ==
  ASSUME TypeOK, NEW w \in Writers, WriterStep(w)
  PROVE  TypeOK'
<1>0. ASSUME NEW f \in Findings, NEW action, Prepare(f, action)
      PROVE  row' \in [Findings -> Rows]
  <2>0. Preparable(action) \cup ({row[f].payload} \ {NoPayload}) \subseteq Payloads
    BY DEF TypeOK, Rows, Preparable
  <2>1. PICK p \in Payloads :
          row' = [row EXCEPT ![f] = [@ EXCEPT !.payload = p, !.planned = TRUE]]
    BY <1>0, <2>0 DEF Prepare
  <2>2. [row[f] EXCEPT !.payload = p, !.planned = TRUE] \in Rows
    BY DEF TypeOK, Rows
  <2> QED  BY <2>1, <2>2 DEF TypeOK
<1>1. ASSUME NEW f \in Findings, HandsGate(w, f) PROVE TypeOK'
  <2>1. writer'[w] \in Writing
    BY <1>1 DEF HandsGate, TypeOK, Writing, Rows
  <2> QED  BY <1>1, <2>1 DEF HandsGate, TypeOK
<1>2. ASSUME HandsUpdate(w) PROVE TypeOK'
  <2>1. writer[w] \in Writing
    BY <1>2, OpenWriter DEF HandsUpdate, Idle
  <2>2. [writer[w] EXCEPT !.pc = "waiting"] \in Writing
    BY <2>1 DEF Writing
  <2>3. writer' \in [Writers -> Writing \cup {Idle}]
    BY <1>2, <2>2 DEF HandsUpdate, TypeOK
  <2>4. row' \in [Findings -> Rows]
    BY <1>2, <1>0, <2>1 DEF HandsUpdate, TypeOK, Writing
  <2> QED  BY <1>2, <2>3, <2>4 DEF HandsUpdate, TypeOK
<1>3. ASSUME ResumeUpdate(w) PROVE TypeOK'
  <2>1. writer[w] \in Writing
    BY <1>3, OpenWriter DEF ResumeUpdate, Idle
  <2>2. row' \in [Findings -> Rows]
    BY <1>3, <1>0, <2>1 DEF ResumeUpdate, TypeOK, Writing
  <2> QED  BY <1>3, <2>2 DEF ResumeUpdate, TypeOK
<1>4. ASSUME AbandonWrite(w) PROVE TypeOK'
  BY <1>4 DEF AbandonWrite, TypeOK
<1> QED  BY <1>1, <1>2, <1>3, <1>4 DEF WriterStep

\* Nor does ExecuteJob.
LEMMA ExecutorTypes ==
  ASSUME TypeOK, OpenWorkStands, NEW e \in Executors, ExecutorStep(e)
  PROVE  TypeOK'
<1>1. ASSUME NEW f \in Findings, ClaimJob(e, f) PROVE TypeOK'
  <2>1. exec'[e] \in Executing
    BY <1>1 DEF ClaimJob, TypeOK, Executing
  <2> QED  BY <1>1, <2>1 DEF ClaimJob, TypeOK
<1>2. ASSUME CreateRecord(e) PROVE TypeOK'
  <2>1. exec[e].finding \in Findings
    BY <1>2, OpenExecution DEF CreateRecord, Executing, Idle
  <2>2. exec'[e] \in Executing
    BY <1>2, <2>1 DEF CreateRecord, TypeOK, Executing, Rows
  <2> QED  BY <1>2, <2>2 DEF CreateRecord, TypeOK
<1>3. ASSUME SettleJob(e) PROVE TypeOK'
  <2> DEFINE f == exec[e].finding
  <2>1. exec[e] \in Executing /\ exec[e].pc = "created"
    BY <1>3, OpenExecution DEF SettleJob, Idle
  <2>2. f \in Findings /\ exec[e].payload \in Payloads
    BY <2>1 DEF Executing
  <2>0. job[f] \in Jobs
    BY <2>1, <2>2 DEF TypeOK, OpenWorkStands, Idle
  <2>3. [by |-> job[f].by, action |-> job[f].action,
         payload |-> exec[e].payload] \in Records
    BY <2>0, <2>2 DEF Jobs, Records
  <2>4. records' \in [Findings -> Seq(Records)]
    BY <1>3, <2>2, <2>3 DEF SettleJob, TypeOK
  <2>5. job' \in [Findings -> Jobs \cup {NoJob}]
    BY <1>3, <2>0, <2>2 DEF SettleJob, TypeOK, Jobs
  <2> QED  BY <1>3, <2>4, <2>5 DEF SettleJob, TypeOK
<1>4. ASSUME FailExecution(e) PROVE TypeOK'
  BY <1>4 DEF FailExecution, TypeOK
<1> QED  BY <1>1, <1>2, <1>3, <1>4 DEF ExecutorStep

-----------------------------------------------------------------------------
(* What each kind of step does to the locks *)

\* A request step concerns one request, and that request comes to hold a row
\* only when nobody held it and the decision changes it.
LEMMA RequestHolds ==
  ASSUME TypeOK, OpenWorkStands, NEW r \in Requests, RequestStep(r)
  PROVE  /\ req' \in [Requests -> Open \cup {Idle}]
         /\ req'[r].pc = "read" => req'[r].act = "approve"
         /\ \A s \in Requests : s # r => req'[s] = req[s]
         /\ HoldsRow(r)' =>
              /\ UNCHANGED <<row, job, records, exec>>
              /\ \/ /\ HoldsRow(r)
                    /\ req'[r].finding = req[r].finding
                    /\ req'[r].act = req[r].act
                 \/ /\ ~RowLocked(req'[r].finding)
                    /\ req'[r].act = "approve" => row[req'[r].finding].status # "approved"
                    /\ req'[r].act = "reject" => row[req'[r].finding].status # "rejected"
<1>0. req' \in [Requests -> Open \cup {Idle}]
  BY RequestTypes DEF TypeOK
<1>1. ASSUME NEW f \in Findings, NEW u \in Users, NEW reviewed \in BOOLEAN,
             ReadPlan(r, f, u, reviewed)
      PROVE  /\ ~HoldsRow(r)'
             /\ req'[r].act = "approve"
             /\ \A s \in Requests : s # r => req'[s] = req[s]
  BY <1>1 DEF ReadPlan, TypeOK, HoldsRow
<1>2. ASSUME NEW f \in Findings, NEW u \in Users, NEW act \in {"reject", "snooze"},
             DecideUpdate(r, f, u, act)
      PROVE  /\ UNCHANGED <<row, job, records, exec>>
             /\ \A s \in Requests : s # r => req'[s] = req[s]
             /\ ~RowLocked(req'[r].finding)
             /\ req'[r].pc # "read"
             /\ req'[r].act # "approve"
             /\ req'[r].act = "reject" => row[req'[r].finding].status # "rejected"
  BY <1>2 DEF DecideUpdate, TypeOK
<1>3. ASSUME ApproveUpdate(r)
      PROVE  /\ UNCHANGED <<row, job, records, exec>>
             /\ \A s \in Requests : s # r => req'[s] = req[s]
             /\ req'[r].pc # "read"
             /\ HoldsRow(r)' => /\ ~RowLocked(req'[r].finding)
                                /\ req'[r].act = "approve"
                                /\ row[req'[r].finding].status # "approved"
  <2>1. req[r] \in Open /\ req[r].pc = "read"
    BY <1>3, OpenRequest DEF ApproveUpdate, Idle
  <2>2. CASE req' = [req EXCEPT ![r].pc = "updated"]
    <3>1. /\ req'[r].finding = req[r].finding
          /\ req'[r].act = req[r].act
          /\ req'[r].pc # "read"
          /\ \A s \in Requests : s # r => req'[s] = req[s]
      BY <2>1, <2>2 DEF TypeOK, Open
    <3>2. row[req[r].finding].status # "approved"
      <4>1. CASE req' = [req EXCEPT ![r] = Idle]
        BY <2>1, <2>2, <4>1 DEF TypeOK, Idle, Open
      <4> QED  BY <1>3, <4>1 DEF ApproveUpdate
    <3> QED  BY <1>3, <2>1, <3>1, <3>2 DEF ApproveUpdate, OpenWorkStands
  <2>3. CASE req' = [req EXCEPT ![r] = Idle]
    BY <1>3, <2>3 DEF ApproveUpdate, TypeOK, Idle, HoldsRow
  <2> QED  BY <1>3, <2>2, <2>3 DEF ApproveUpdate
<1>4. ASSUME RecordDecision(r)
      PROVE  /\ UNCHANGED <<row, job, records, exec>>
             /\ HoldsRow(r)
             /\ req'[r].pc # "read"
             /\ \A s \in Requests : s # r => req'[s] = req[s]
             /\ req'[r].finding = req[r].finding
             /\ req'[r].act = req[r].act
  BY <1>4, OpenRequest DEF RecordDecision, TypeOK, HoldsRow, Idle, Open
<1>5. ASSUME CommitDecision(r) \/ Rollback(r)
      PROVE  /\ ~HoldsRow(r)'
             /\ req'[r].pc # "read"
             /\ \A s \in Requests : s # r => req'[s] = req[s]
  BY <1>5 DEF CommitDecision, Rollback, TypeOK, HoldsRow, Idle
<1> QED  BY <1>0, <1>1, <1>2, <1>3, <1>4, <1>5 DEF RequestStep

\* Likewise for executions and jobs; what the execution found is still so.
LEMMA ExecutorHolds ==
  ASSUME TypeOK, OpenWorkStands, NEW e \in Executors, ExecutorStep(e)
  PROVE  /\ exec' \in [Executors -> Executing \cup {Idle}]
         /\ \A d \in Executors : d # e => exec'[d] = exec[d]
         /\ UNCHANGED <<row, req>>
         /\ exec'[e] # Idle =>
              /\ UNCHANGED <<job, records>>
              /\ job[exec'[e].finding] # NoJob
              /\ job[exec'[e].finding].status = "pending"
              /\ exec'[e].pc = "created" =>
                   (exec'[e].made <=> records[exec'[e].finding] = <<>>)
              /\ \/ exec[e] # Idle /\ exec'[e].finding = exec[e].finding
                 \/ ~JobLocked(exec'[e].finding)
<1>0. exec' \in [Executors -> Executing \cup {Idle}]
  BY ExecutorTypes DEF TypeOK
<1>1. ASSUME NEW f \in Findings, ClaimJob(e, f)
      PROVE  /\ \A d \in Executors : d # e => exec'[d] = exec[d]
             /\ exec'[e].finding = f
             /\ exec'[e].pc = "claimed"
             /\ job[f] # NoJob /\ job[f].status = "pending"
             /\ ~JobLocked(f)
             /\ UNCHANGED <<row, req, job, records>>
  BY <1>1 DEF ClaimJob, TypeOK
<1>2. ASSUME CreateRecord(e)
      PROVE  /\ \A d \in Executors : d # e => exec'[d] = exec[d]
             /\ exec[e] # Idle
             /\ exec'[e].finding = exec[e].finding
             /\ exec'[e].made <=> records[exec'[e].finding] = <<>>
             /\ job[exec'[e].finding] # NoJob
             /\ job[exec'[e].finding].status = "pending"
             /\ UNCHANGED <<row, req, job, records>>
  <2>1. exec[e] # Idle
    BY <1>2 DEF CreateRecord, Idle
  <2>2. /\ exec'[e].finding = exec[e].finding
        /\ exec'[e].made <=> records[exec[e].finding] = <<>>
        /\ \A d \in Executors : d # e => exec'[d] = exec[d]
    BY <1>2 DEF CreateRecord, TypeOK
  <2> QED  BY <1>2, <2>1, <2>2 DEF CreateRecord, OpenWorkStands
<1>3. ASSUME SettleJob(e) \/ FailExecution(e)
      PROVE  /\ \A d \in Executors : d # e => exec'[d] = exec[d]
             /\ exec'[e] = Idle
             /\ UNCHANGED <<row, req>>
  BY <1>3 DEF SettleJob, FailExecution, TypeOK
<1> QED  BY <1>0, <1>1, <1>2, <1>3 DEF ExecutorStep

\* An agent writer changes payloads and nothing anybody decides on.
LEMMA WriterEffect ==
  ASSUME TypeOK, NEW w \in Writers, WriterStep(w)
  PROVE  /\ UNCHANGED <<audit, job, records, flags, req, exec>>
         /\ \A f \in Findings : row'[f].status = row[f].status
<1>1. ASSUME NEW f, NEW action, Prepare(f, action)
      PROVE  \A g \in Findings : row'[g].status = row[g].status
  <2>1. PICK p :
          row' = [row EXCEPT ![f] = [@ EXCEPT !.payload = p, !.planned = TRUE]]
    BY <1>1 DEF Prepare
  <2>2. \A g \in Findings : row[g] \in Rows
    BY DEF TypeOK
  <2> QED  BY <2>1, <2>2 DEF TypeOK, Rows
<1>2. UNCHANGED row \/ \E f, action : Prepare(f, action)
  BY DEF WriterStep, HandsGate, HandsUpdate, ResumeUpdate, AbandonWrite
<1>3. UNCHANGED <<audit, job, records, flags, req, exec>>
  BY DEF WriterStep, HandsGate, HandsUpdate, ResumeUpdate, AbandonWrite
<1> QED  BY <1>1, <1>2, <1>3

\* A sweep changes no status.
LEMMA SweepEffect ==
  ASSUME TypeOK, NEW f \in Findings, Sweep(f)
  PROVE  /\ UNCHANGED <<audit, job, records, flags, req, exec>>
         /\ row' \in [Findings -> Rows]
         /\ \A g \in Findings : row'[g].status = row[g].status
<1>1. row[f] \in Rows
  BY DEF TypeOK
<1>2. PICK new \in Rows : /\ row' = [row EXCEPT ![f] = new]
                          /\ new.status = row[f].status
  <2>1. PICK a \in Actions :
          \/ row' = [row EXCEPT ![f].action = a]
          \/ \E p \in Preparable(a) :
               row' = [row EXCEPT ![f] = [@ EXCEPT !.action = a, !.payload = p,
                                                   !.planned = TRUE]]
    BY DEF Sweep
  <2>2. CASE row' = [row EXCEPT ![f].action = a]
    <3>1. [row[f] EXCEPT !.action = a] \in Rows
      BY <1>1 DEF Rows
    <3>2. [row[f] EXCEPT !.action = a].status = row[f].status
      BY <1>1 DEF Rows
    <3> QED  BY <2>2, <3>1, <3>2 DEF TypeOK
  <2>3. ASSUME NEW p \in Preparable(a),
               row' = [row EXCEPT ![f] = [@ EXCEPT !.action = a, !.payload = p,
                                                   !.planned = TRUE]]
        PROVE  \E new \in Rows : /\ row' = [row EXCEPT ![f] = new]
                                 /\ new.status = row[f].status
    <3>1. p \in Payloads
      BY DEF Preparable
    <3>2. [row[f] EXCEPT !.action = a, !.payload = p, !.planned = TRUE] \in Rows
      BY <1>1, <3>1 DEF Rows
    <3>3. [row[f] EXCEPT !.action = a, !.payload = p, !.planned = TRUE].status
            = row[f].status
      BY <1>1 DEF Rows
    <3> QED  BY <2>3, <3>2, <3>3 DEF TypeOK
  <2> QED  BY <2>1, <2>2, <2>3
<1>3. row' \in [Findings -> Rows]
  BY <1>2 DEF TypeOK
<1>4. \A g \in Findings : row'[g].status = row[g].status
  BY <1>2 DEF TypeOK
<1> QED  BY <1>3, <1>4 DEF Sweep

\* The end of a deferral changes one status, of a row nobody holds.
LEMMA ExpireEffect ==
  ASSUME TypeOK, NEW f \in Findings, ExpireSnooze(f)
  PROVE  /\ UNCHANGED <<audit, job, records, flags, req, exec>>
         /\ ~RowLocked(f)
         /\ row[f].status = "snoozed"
         /\ row' \in [Findings -> Rows]
         /\ row'[f].status = "pending"
         /\ \A g \in Findings : g # f => row'[g] = row[g]
<1>1. [row[f] EXCEPT !.status = "pending", !.snoozed_until = FALSE] \in Rows
  BY DEF TypeOK, Rows
<1>2. row' = [row EXCEPT ![f] = [@ EXCEPT !.status = "pending",
                                          !.snoozed_until = FALSE]]
  BY DEF ExpireSnooze
<1>3. row' \in [Findings -> Rows]
  BY <1>1, <1>2 DEF TypeOK
<1>4. row'[f].status = "pending"
  BY <1>2 DEF TypeOK, Rows
<1> QED  BY <1>2, <1>3, <1>4 DEF ExpireSnooze, TypeOK

\* A commit concerns the row its request held, adds one decision to its trail
\* and enqueues at most one job.
LEMMA CommitEffect ==
  ASSUME TypeOK, NEW r \in Requests, CommitDecision(r)
  PROVE  /\ req[r] \in Open
         /\ HoldsRow(r)
         /\ req[r].finding \in Findings
         /\ row'[req[r].finding].status =
              CASE req[r].act = "approve" -> "approved"
                [] req[r].act = "reject" -> "rejected"
                [] req[r].act = "snooze" -> "snoozed"
         /\ audit'[req[r].finding] = Append(audit[req[r].finding], DecisionOf(req[r]))
         /\ job'[req[r].finding] = Enqueued(job[req[r].finding], req[r])
         /\ \A g \in Findings : g # req[r].finding =>
              row'[g] = row[g] /\ audit'[g] = audit[g] /\ job'[g] = job[g]
         /\ UNCHANGED <<records, exec>>
         /\ req'[r] = Idle
<1> DEFINE f == req[r].finding
<1>1. req[r] \in Open /\ HoldsRow(r)
  BY OpenRequest DEF CommitDecision, Idle, HoldsRow
<1>2. f \in Findings /\ req[r].act \in {"approve", "reject", "snooze"}
  BY <1>1 DEF Open
<1>3. row' = [row EXCEPT ![f] = Decided(@, req[r].act)]
  BY DEF CommitDecision
<1>4. Decided(row[f], req[r].act).status =
         CASE req[r].act = "approve" -> "approved"
           [] req[r].act = "reject" -> "rejected"
           [] req[r].act = "snooze" -> "snoozed"
  BY <1>2 DEF Decided, TypeOK, Rows
<1> QED  BY <1>1, <1>2, <1>3, <1>4 DEF CommitDecision, TypeOK

\* A settle concerns the job its execution had claimed.
LEMMA SettleEffect ==
  ASSUME TypeOK, OpenWorkStands, NEW e \in Executors, SettleJob(e)
  PROVE  LET f == exec[e].finding IN
         /\ exec[e] # Idle /\ f \in Findings
         /\ job[f] \in Jobs /\ job[f].status = "pending"
         /\ job'[f] \in Jobs
         /\ job'[f].by = job[f].by /\ job'[f].action = job[f].action
         /\ \E x \in Payloads :
              records'[f] = IF records[f] = <<>>
                            THEN <<[by |-> job[f].by, action |-> job[f].action,
                                    payload |-> x]>>
                            ELSE records[f]
         /\ \A g \in Findings : g # f => job'[g] = job[g] /\ records'[g] = records[g]
         /\ UNCHANGED <<row, audit, flags, req>>
         /\ exec'[e] = Idle
<1> DEFINE f == exec[e].finding
<1>1. exec[e] \in Executing /\ exec[e].pc = "created" /\ exec[e] # Idle
  BY OpenExecution DEF SettleJob, Idle
<1>2. f \in Findings /\ exec[e].payload \in Payloads
  BY <1>1 DEF Executing
<1>3. job[f] \in Jobs /\ job[f].status = "pending"
  BY <1>1, <1>2 DEF TypeOK, OpenWorkStands
<1>4. /\ job'[f] \in Jobs
      /\ job'[f].by = job[f].by /\ job'[f].action = job[f].action
  <2>1. CASE job' = job
    BY <1>3, <2>1
  <2>2. CASE job' = [job EXCEPT ![f].status = "done"]
    BY <1>2, <1>3, <2>2 DEF TypeOK, Jobs
  <2> QED  BY <2>1, <2>2 DEF SettleJob
<1>5. exec[e].made <=> records[f] = <<>>
  BY <1>1 DEF OpenWorkStands
<1>6. records'[f] = IF records[f] = <<>>
                    THEN <<[by |-> job[f].by, action |-> job[f].action,
                            payload |-> exec[e].payload]>>
                    ELSE records[f]
  <2> DEFINE new == [by |-> job[f].by, action |-> job[f].action,
                     payload |-> exec[e].payload]
  <2>1. CASE records[f] = <<>>
    <3>1. records'[f] = Append(<<>>, new)
      BY <1>2, <1>5, <2>1 DEF SettleJob, TypeOK
    <3> QED  BY <2>1, <3>1
  <2>2. CASE records[f] # <<>>
    BY <1>2, <1>5, <2>2 DEF SettleJob, TypeOK
  <2> QED  BY <2>1, <2>2
<1>7. \A g \in Findings : g # f => job'[g] = job[g] /\ records'[g] = records[g]
  BY <1>2 DEF SettleJob, TypeOK
<1>8. UNCHANGED <<row, audit, flags, req>> /\ exec'[e] = Idle
  BY DEF SettleJob, TypeOK
<1> QED  BY <1>1, <1>2, <1>3, <1>4, <1>6, <1>7, <1>8

-----------------------------------------------------------------------------
(* The inductive invariant *)

\* TrailShowsStatus and NoRepeatedDecision need to know that the decision a
\* request holds still changes the row (OpenWorkStands), and that needs the row
\* to have one holder (ExclusiveLocks); the job and the records likewise.
IInv ==
  /\ TypeOK
  /\ ExclusiveLocks
  /\ OpenWorkStands
  /\ TrailShowsStatus
  /\ NoRepeatedDecision
  /\ JobOfFirstApproval
  /\ RecordBackedByJob
  /\ OneRecordPerFinding

\* The invariant holds of findings nobody has decided.
LEMMA InitIInv == Init => IInv
<1> SUFFICES ASSUME Init PROVE IInv
  OBVIOUS
<1>1. TypeOK
  <2>1. \A a \in Actions :
          [status |-> "pending", snoozed_until |-> FALSE, payload |-> NoPayload,
           planned |-> FALSE, action |-> a] \in Rows
    BY ActPathAssumption DEF Rows
  <2>2. row \in [Findings -> Rows]
    BY <2>1 DEF Init
  <2> QED  BY <2>2 DEF Init, TypeOK
<1>2. ExclusiveLocks /\ OpenWorkStands
  BY DEF Init, ExclusiveLocks, OpenWorkStands, HoldsRow, Idle
<1>3. TrailShowsStatus
  BY DEF Init, TrailShowsStatus, Shows
<1>4. NoRepeatedDecision
  BY DEF Init, NoRepeatedDecision
<1>5. JobOfFirstApproval
  BY DEF Init, JobOfFirstApproval, CreatingApprovals
<1>6. RecordBackedByJob /\ OneRecordPerFinding
  BY DEF Init, RecordBackedByJob, OneRecordPerFinding
<1> QED  BY <1>1, <1>2, <1>3, <1>4, <1>5, <1>6 DEF IInv

\* Every step keeps the types.
LEMMA TypeStep ==
  ASSUME TypeOK, OpenWorkStands, [Next]_vars
  PROVE  TypeOK'
<1>1. ASSUME NEW f \in Findings, ExpireSnooze(f) PROVE TypeOK'
  BY <1>1, ExpireEffect DEF ExpireSnooze, TypeOK
<1>2. ASSUME NEW f \in Findings, Sweep(f) PROVE TypeOK'
  BY <1>2, SweepEffect DEF Sweep, TypeOK
<1>3. ASSUME NEW u \in Users, Leave(u) \/ Join(u) PROVE TypeOK'
  BY <1>3 DEF Leave, Join, TypeOK
<1>4. CASE UNCHANGED vars
  BY <1>4 DEF vars, TypeOK
<1> QED  BY <1>1, <1>2, <1>3, <1>4, RequestTypes, WriterTypes, ExecutorTypes DEF Next

\* A row or a job gets a holder only when it has none.
LEMMA LocksStep ==
  ASSUME TypeOK, OpenWorkStands, ExclusiveLocks, [Next]_vars
  PROVE  ExclusiveLocks'
<1>1. ASSUME NEW r \in Requests, RequestStep(r) PROVE ExclusiveLocks'
  <2>1. UNCHANGED exec
    BY <1>1 DEF RequestStep, ReadPlan, DecideUpdate, ApproveUpdate,
                RecordDecision, CommitDecision, Rollback
  <2>2. ASSUME NEW s \in Requests, NEW t \in Requests, s # t,
               HoldsRow(s)', HoldsRow(t)', req'[s].finding = req'[t].finding
        PROVE  FALSE
    <3>1. ASSUME NEW x \in Requests, x # r PROVE req'[x] = req[x]
      BY <1>1, <3>1, RequestHolds
    <3>2. CASE s # r /\ t # r
      BY <2>2, <3>1, <3>2 DEF ExclusiveLocks, HoldsRow
    <3>3. ASSUME NEW x \in Requests, x # r, HoldsRow(r)', HoldsRow(x)',
                 req'[r].finding = req'[x].finding
          PROVE  FALSE
      <4>1. req'[x] = req[x] /\ HoldsRow(x)
        BY <3>1, <3>3 DEF HoldsRow
      <4>2. RowLocked(req'[r].finding)
        BY <3>3, <4>1 DEF RowLocked
      <4>3. HoldsRow(r) /\ req'[r].finding = req[r].finding
        BY <1>1, <3>3, <4>2, RequestHolds
      <4> QED  BY <3>3, <4>1, <4>3 DEF ExclusiveLocks
    <3> QED  BY <2>2, <3>2, <3>3
  <2> QED  BY <2>1, <2>2 DEF ExclusiveLocks
<1>2. ASSUME NEW e \in Executors, ExecutorStep(e) PROVE ExclusiveLocks'
  <2>1. UNCHANGED req
    BY <1>2, ExecutorHolds
  <2>2. ASSUME NEW c \in Executors, NEW d \in Executors, c # d,
               exec'[c] # Idle, exec'[d] # Idle, exec'[c].finding = exec'[d].finding
        PROVE  FALSE
    <3>1. ASSUME NEW x \in Executors, x # e PROVE exec'[x] = exec[x]
      BY <1>2, <3>1, ExecutorHolds
    <3>2. CASE c # e /\ d # e
      BY <2>2, <3>1, <3>2 DEF ExclusiveLocks
    <3>3. ASSUME NEW x \in Executors, x # e, exec'[e] # Idle, exec'[x] # Idle,
                 exec'[e].finding = exec'[x].finding
          PROVE  FALSE
      <4>1. exec'[x] = exec[x] /\ exec[x] # Idle
        BY <3>1, <3>3
      <4>2. exec[x].pc \in {"claimed", "created"}
        BY <4>1, OpenExecution DEF Executing
      <4>3. JobLocked(exec'[e].finding)
        BY <3>3, <4>1, <4>2 DEF JobLocked
      <4>4. exec[e] # Idle /\ exec'[e].finding = exec[e].finding
        BY <1>2, <3>3, <4>3, ExecutorHolds
      <4> QED  BY <3>3, <4>1, <4>4 DEF ExclusiveLocks
    <3> QED  BY <2>2, <3>2, <3>3
  <2> QED  BY <2>1, <2>2 DEF ExclusiveLocks, HoldsRow
<1>3. ASSUME UNCHANGED <<req, exec>> PROVE ExclusiveLocks'
  BY <1>3 DEF ExclusiveLocks, HoldsRow
<1>4. ASSUME NEW w \in Writers, WriterStep(w) PROVE UNCHANGED <<req, exec>>
  BY <1>4, WriterEffect
<1>5. ASSUME NEW f \in Findings, ExpireSnooze(f) \/ Sweep(f)
      PROVE  UNCHANGED <<req, exec>>
  BY <1>5 DEF ExpireSnooze, Sweep
<1>6. ASSUME NEW u \in Users, Leave(u) \/ Join(u) PROVE UNCHANGED <<req, exec>>
  BY <1>6 DEF Leave, Join
<1>7. UNCHANGED vars => UNCHANGED <<req, exec>>
  BY DEF vars
<1> QED  BY <1>1, <1>2, <1>3, <1>4, <1>5, <1>6, <1>7 DEF Next

\* Who does not hold a row or a job changes nothing that a holder relies on.
LEMMA OpenWorkStep ==
  ASSUME TypeOK, ExclusiveLocks, OpenWorkStands, [Next]_vars
  PROVE  OpenWorkStands'
<1> DEFINE ReadersApprove == \A r \in Requests : req[r].pc = "read" => req[r].act = "approve"
           Stands(r) == /\ req[r].act = "approve" => row[req[r].finding].status # "approved"
                        /\ req[r].act = "reject" => row[req[r].finding].status # "rejected"
           Claimed(e) == /\ job[exec[e].finding] # NoJob
                         /\ job[exec[e].finding].status = "pending"
                         /\ exec[e].pc = "created" =>
                              (exec[e].made <=> records[exec[e].finding] = <<>>)
<1>0. /\ ReadersApprove
      /\ \A r \in Requests : HoldsRow(r) => Stands(r) /\ req[r].finding \in Findings
      /\ \A e \in Executors : exec[e] # Idle => Claimed(e) /\ exec[e].finding \in Findings
  <2>1. ASSUME NEW r \in Requests, HoldsRow(r) PROVE req[r].finding \in Findings
    BY <2>1, OpenRequest DEF HoldsRow, Idle, Open
  <2>2. ASSUME NEW e \in Executors, exec[e] # Idle PROVE exec[e].finding \in Findings
    BY <2>2, OpenExecution DEF Executing
  <2> QED  BY <2>1, <2>2 DEF OpenWorkStands
<1>1. SUFFICES /\ ReadersApprove'
               /\ \A r \in Requests : HoldsRow(r)' => Stands(r)'
               /\ \A e \in Executors : exec'[e] # Idle => Claimed(e)'
  BY DEF OpenWorkStands
<1> HIDE DEF ReadersApprove
<1>2. ASSUME NEW r \in Requests, CommitDecision(r)
      PROVE  /\ ReadersApprove'
             /\ \A s \in Requests : HoldsRow(s)' => Stands(s)'
             /\ \A e \in Executors : exec'[e] # Idle => Claimed(e)'
  <2> DEFINE f == req[r].finding
  <2>1. RequestStep(r)
    BY <1>2 DEF RequestStep
  <2>2. ReadersApprove'
    BY <1>0, <2>1, RequestHolds DEF ReadersApprove
  <2>3. ASSUME NEW s \in Requests, HoldsRow(s)' PROVE Stands(s)'
    <3>1. s # r
      BY <1>2, <2>3, CommitEffect DEF HoldsRow, Idle
    <3>2. req'[s] = req[s] /\ HoldsRow(s)
      BY <2>1, <2>3, <3>1, RequestHolds DEF HoldsRow
    <3>3. req[s].finding # f
      BY <1>2, <3>1, <3>2, CommitEffect DEF ExclusiveLocks
    <3>4. row'[req[s].finding] = row[req[s].finding]
      BY <1>0, <1>2, <3>2, <3>3, CommitEffect
    <3> QED  BY <1>0, <3>2, <3>4
  <2>4. ASSUME NEW e \in Executors, exec'[e] # Idle PROVE Claimed(e)'
    <3> DEFINE g == exec[e].finding
    <3>1. exec'[e] = exec[e] /\ UNCHANGED records /\ g \in Findings /\ job[g] # NoJob
      BY <1>0, <1>2, <2>4, CommitEffect
    <3>2. job'[g] = job[g]
      BY <1>2, <3>1, CommitEffect DEF Enqueued
    <3> QED  BY <1>0, <2>4, <3>1, <3>2
  <2> QED  BY <2>2, <2>3, <2>4
<1>3. ASSUME NEW r \in Requests, RequestStep(r), ~CommitDecision(r)
      PROVE  /\ ReadersApprove'
             /\ \A s \in Requests : HoldsRow(s)' => Stands(s)'
             /\ \A e \in Executors : exec'[e] # Idle => Claimed(e)'
  <2>1. UNCHANGED <<row, job, records, exec>>
    BY <1>3 DEF RequestStep, ReadPlan, DecideUpdate, ApproveUpdate,
                RecordDecision, Rollback
  <2>2. ReadersApprove'
    BY <1>0, <1>3, RequestHolds DEF ReadersApprove
  <2>3. ASSUME NEW s \in Requests, s # r, HoldsRow(s)' PROVE Stands(s)'
    <3>1. req'[s] = req[s]
      BY <1>3, <2>3, RequestHolds
    <3> QED  BY <1>0, <2>1, <2>3, <3>1 DEF HoldsRow
  <2>4. ASSUME HoldsRow(r)' PROVE Stands(r)'
    <3>1. CASE HoldsRow(r) /\ req'[r].finding = req[r].finding /\ req'[r].act = req[r].act
      BY <1>0, <2>1, <3>1
    <3>2. CASE /\ req'[r].act = "approve" => row[req'[r].finding].status # "approved"
               /\ req'[r].act = "reject" => row[req'[r].finding].status # "rejected"
      BY <2>1, <3>2
    <3> QED  BY <1>3, <2>4, <3>1, <3>2, RequestHolds
  <2> QED  BY <1>0, <2>1, <2>2, <2>3, <2>4
<1>4. ASSUME NEW e \in Executors, ExecutorStep(e)
      PROVE  /\ ReadersApprove'
             /\ \A s \in Requests : HoldsRow(s)' => Stands(s)'
             /\ \A d \in Executors : exec'[d] # Idle => Claimed(d)'
  <2>1. UNCHANGED <<row, req>>
    BY <1>4, ExecutorHolds
  <2>2. ASSUME NEW d \in Executors, exec'[d] # Idle PROVE Claimed(d)'
    <3>1. CASE d = e
      BY <1>4, <2>2, <3>1, ExecutorHolds
    <3>2. CASE d # e
      <4>1. exec'[d] = exec[d]
        BY <1>4, <3>2, ExecutorHolds
      <4>2. CASE SettleJob(e)
        <5>1. exec[e] # Idle /\ exec[d].finding # exec[e].finding
          BY <2>2, <3>2, <4>1, <4>2, SettleEffect DEF ExclusiveLocks
        <5> QED  BY <1>0, <2>2, <4>1, <4>2, <5>1, SettleEffect
      <4>3. CASE ~SettleJob(e)
        <5>1. UNCHANGED <<job, records>>
          BY <1>4, <4>3 DEF ExecutorStep, ClaimJob, CreateRecord, FailExecution
        <5> QED  BY <1>0, <2>2, <4>1, <5>1
      <4> QED  BY <4>2, <4>3
    <3> QED  BY <3>1, <3>2
  <2> QED  BY <1>0, <2>1, <2>2 DEF ReadersApprove, HoldsRow
<1>5. ASSUME UNCHANGED <<job, records, req, exec>>,
             \A f \in Findings : row'[f].status = row[f].status
                                 \/ ~RowLocked(f)
      PROVE  /\ ReadersApprove'
             /\ \A s \in Requests : HoldsRow(s)' => Stands(s)'
             /\ \A e \in Executors : exec'[e] # Idle => Claimed(e)'
  <2>1. ASSUME NEW s \in Requests, HoldsRow(s)' PROVE Stands(s)'
    <3>1. HoldsRow(s) /\ req' = req
      BY <1>5, <2>1 DEF HoldsRow
    <3>2. row'[req[s].finding].status = row[req[s].finding].status
      BY <1>0, <1>5, <3>1 DEF RowLocked
    <3> QED  BY <1>0, <3>1, <3>2
  <2> QED  BY <1>0, <1>5, <2>1 DEF ReadersApprove
<1>6. ASSUME NEW w \in Writers, WriterStep(w)
      PROVE  UNCHANGED <<job, records, req, exec>> /\ \A f \in Findings : row'[f].status = row[f].status
  BY <1>6, WriterEffect
<1>7. ASSUME NEW f \in Findings, ExpireSnooze(f)
      PROVE  /\ UNCHANGED <<job, records, req, exec>>
             /\ \A g \in Findings : row'[g].status = row[g].status \/ ~RowLocked(g)
  BY <1>7, ExpireEffect
<1>8. ASSUME NEW f \in Findings, Sweep(f)
      PROVE  UNCHANGED <<job, records, req, exec>> /\ \A g \in Findings : row'[g].status = row[g].status
  BY <1>8, SweepEffect
<1>9. ASSUME NEW u \in Users, Leave(u) \/ Join(u)
      PROVE  UNCHANGED <<job, records, req, exec, row>>
  BY <1>9 DEF Leave, Join
<1>10. UNCHANGED vars => UNCHANGED <<job, records, req, exec, row>>
  BY DEF vars
<1> QED  BY <1>2, <1>3, <1>4, <1>5, <1>6, <1>7, <1>8, <1>9, <1>10 DEF Next

\* What a step does to the statuses, the trails, the jobs and the records: a
\* commit, a settle, the end of a deferral, or nothing.
LEMMA StepKinds ==
  ASSUME TypeOK, OpenWorkStands, [Next]_vars
  PROVE  \/ \E r \in Requests : CommitDecision(r)
         \/ \E e \in Executors : SettleJob(e)
         \/ \E f \in Findings : ExpireSnooze(f)
         \/ /\ UNCHANGED <<audit, job, records, flags>>
            /\ \A f \in Findings : row'[f].status = row[f].status
<1>1. ASSUME NEW r \in Requests, RequestStep(r), ~CommitDecision(r)
      PROVE  UNCHANGED <<audit, job, records, flags, row>>
  BY <1>1 DEF RequestStep, ReadPlan, DecideUpdate, ApproveUpdate, RecordDecision, Rollback
<1>2. ASSUME NEW e \in Executors, ExecutorStep(e), ~SettleJob(e)
      PROVE  UNCHANGED <<audit, job, records, flags, row>>
  BY <1>2 DEF ExecutorStep, ClaimJob, CreateRecord, FailExecution
<1>3. ASSUME NEW u \in Users, Leave(u) \/ Join(u)
      PROVE  UNCHANGED <<audit, job, records, flags, row>>
  BY <1>3 DEF Leave, Join
<1>4. UNCHANGED vars => UNCHANGED <<audit, job, records, flags, row>>
  BY DEF vars
<1> QED  BY <1>1, <1>2, <1>3, <1>4, WriterEffect, SweepEffect DEF Next

\* The last entry of a trail, and the trail before it, after one more decision.
LEMMA AppendFacts ==
  ASSUME NEW S, NEW s \in Seq(S), NEW x \in S
  PROVE  /\ Append(s, x) \in Seq(S)
         /\ Append(s, x) # <<>>
         /\ Len(Append(s, x)) = Len(s) + 1
         /\ Append(s, x)[Len(s) + 1] = x
         /\ \A i \in 1..Len(s) : Append(s, x)[i] = s[i]
         /\ Len(s) \in Nat
<1>1. Append(s, x) \in Seq(S) /\ Len(s) \in Nat
  OBVIOUS
<1>2. Len(Append(s, x)) = Len(s) + 1
  OBVIOUS
<1>3. Append(s, x)[Len(s) + 1] = x
  OBVIOUS
<1>4. \A i \in 1..Len(s) : Append(s, x)[i] = s[i]
  OBVIOUS
<1>5. Append(s, x) # <<>>
  BY <1>1, <1>2
<1> QED  BY <1>1, <1>2, <1>3, <1>4, <1>5

\* A sequence that is not empty has a last element.
LEMMA NonEmptyLength ==
  ASSUME NEW S, NEW s \in Seq(S), s # <<>>
  PROVE  Len(s) \in Nat /\ Len(s) >= 1
  OBVIOUS

\* A commit moves the row to what its new decision says; the end of a deferral
\* moves only a snoozed one.
LEMMA TrailStep ==
  ASSUME TypeOK, OpenWorkStands, TrailShowsStatus, [Next]_vars
  PROVE  TrailShowsStatus'
<1>1. ASSUME NEW r \in Requests, CommitDecision(r) PROVE TrailShowsStatus'
  <2>0. PICK f \in Findings : f = req[r].finding
    BY <1>1, CommitEffect
  <2>1. ASSUME NEW g \in Findings, g # f PROVE row'[g].status \in Shows(g)'
    BY <1>1, <2>0, <2>1, CommitEffect DEF TrailShowsStatus, Shows
  <2>2. req[r] \in Open /\ audit'[f] = Append(audit[f], DecisionOf(req[r]))
    BY <1>1, <2>0, CommitEffect
  <2>3. /\ audit'[f] # <<>>
        /\ audit'[f][Len(audit'[f])] = DecisionOf(req[r])
    <3>1. audit[f] \in Seq(Decisions) /\ DecisionOf(req[r]) \in Decisions
      BY <2>2, DecisionType DEF TypeOK
    <3> QED  BY <2>2, <3>1, AppendFacts
  <2>4. row'[f].status \in Shows(f)'
    <3>1. DecisionOf(req[r]).act = req[r].act
      BY DEF DecisionOf
    <3>2. req[r].act \in {"approve", "reject", "snooze"}
      BY <2>2 DEF Open
    <3>3. row'[f].status = CASE req[r].act = "approve" -> "approved"
                             [] req[r].act = "reject" -> "rejected"
                             [] req[r].act = "snooze" -> "snoozed"
      BY <1>1, <2>0, CommitEffect
    <3>4. CASE req[r].act = "approve"
      BY <2>3, <3>1, <3>3, <3>4 DEF Shows
    <3>5. CASE req[r].act = "reject"
      BY <2>3, <3>1, <3>3, <3>5 DEF Shows
    <3>6. CASE req[r].act = "snooze"
      BY <2>3, <3>1, <3>3, <3>6 DEF Shows
    <3> QED  BY <3>2, <3>4, <3>5, <3>6
  <2> QED  BY <2>1, <2>4 DEF TrailShowsStatus
<1>2. ASSUME NEW e \in Executors, SettleJob(e) PROVE TrailShowsStatus'
  BY <1>2, SettleEffect, ZenonT(40) DEF TrailShowsStatus, Shows
<1>3. ASSUME NEW f \in Findings, ExpireSnooze(f) PROVE TrailShowsStatus'
  <2>1. ASSUME NEW g \in Findings, g # f PROVE row'[g].status \in Shows(g)'
    BY <1>3, <2>1, ExpireEffect DEF TrailShowsStatus, Shows
  <2>2. "snoozed" \in Shows(f)
    BY <1>3, ExpireEffect DEF TrailShowsStatus
  <2>3. "pending" \in Shows(f)
    <3>1. CASE audit[f] = <<>>
      BY <3>1 DEF Shows
    <3>2. CASE audit[f] # <<>>
      <4>1. audit[f][Len(audit[f])] \in Decisions
        BY <3>2 DEF TypeOK
      <4> QED  BY <2>2, <3>2, <4>1 DEF Shows, Decisions
    <3> QED  BY <3>1, <3>2
  <2> QED  BY <1>3, <2>1, <2>3, ExpireEffect DEF TrailShowsStatus, Shows
<1>4. ASSUME UNCHANGED audit, \A f \in Findings : row'[f].status = row[f].status
      PROVE  TrailShowsStatus'
  BY <1>4 DEF TrailShowsStatus, Shows
<1> QED  BY <1>1, <1>2, <1>3, <1>4, StepKinds

\* A committed approval or rejection changed the row, so the decision before it
\* was another one.
LEMMA DecisionStep ==
  ASSUME TypeOK, OpenWorkStands, TrailShowsStatus, NoRepeatedDecision, [Next]_vars
  PROVE  NoRepeatedDecision'
<1>1. ASSUME NEW r \in Requests, CommitDecision(r) PROVE NoRepeatedDecision'
  <2> DEFINE f == req[r].finding
             old == audit[f]
             new == DecisionOf(req[r])
  <2>1. /\ f \in Findings /\ req[r] \in Open /\ HoldsRow(r)
        /\ audit'[f] = Append(old, new)
        /\ \A g \in Findings : g # f => audit'[g] = audit[g]
    BY <1>1, CommitEffect
  <2>2. old \in Seq(Decisions) /\ new \in Decisions
    BY <2>1, DecisionType DEF TypeOK
  <2>3. new.act = req[r].act /\ new.act \in {"approve", "reject", "snooze"}
    BY <2>1 DEF DecisionOf, Open
  <2>4. old # <<>> /\ old[Len(old)].act = new.act => new.act = "snooze"
    <3>1. /\ req[r].act = "approve" => row[f].status # "approved"
          /\ req[r].act = "reject" => row[f].status # "rejected"
      BY <2>1 DEF OpenWorkStands
    <3>2. row[f].status \in Shows(f)
      BY <2>1 DEF TrailShowsStatus
    <3> QED  BY <2>3, <3>1, <3>2 DEF Shows
  <2>5. ASSUME NEW i \in 1..(Len(audit'[f]) - 1), audit'[f][i].act = audit'[f][i + 1].act
        PROVE  audit'[f][i].act = "snooze"
    <3>1. /\ Len(old) \in Nat /\ Len(audit'[f]) = Len(old) + 1
          /\ i \in 1..Len(old)
          /\ audit'[f][i] = old[i]
      BY <2>1, <2>2, AppendFacts
    <3>2. CASE i = Len(old)
      <4>1. audit'[f][i + 1] = new /\ old # <<>>
        BY <2>1, <2>2, <3>1, <3>2, AppendFacts
      <4> QED  BY <2>4, <2>5, <3>1, <3>2, <4>1
    <3>3. CASE i # Len(old)
      <4>1. i \in 1..(Len(old) - 1) /\ i + 1 \in 1..Len(old)
        BY <3>1, <3>3
      <4>2. audit'[f][i + 1] = old[i + 1]
        BY <2>1, <2>2, <4>1, AppendFacts
      <4> QED  BY <2>1, <2>5, <3>1, <4>1, <4>2 DEF NoRepeatedDecision
    <3> QED  BY <3>2, <3>3
  <2> QED  BY <2>1, <2>5, ZenonT(40) DEF NoRepeatedDecision
<1>2. UNCHANGED audit => NoRepeatedDecision'
  BY DEF NoRepeatedDecision
<1> QED  BY <1>1, <1>2, StepKinds, SettleEffect, ExpireEffect

\* A commit enqueues a job for the first creating approval and no other.
LEMMA JobStep ==
  ASSUME TypeOK, OpenWorkStands, JobOfFirstApproval, [Next]_vars
  PROVE  JobOfFirstApproval'
<1> DEFINE First(a, j) ==
      LET C == {i \in 1..Len(a) : a[i].creates} IN
      IF C = {} THEN j = NoJob
      ELSE /\ j # NoJob
           /\ \E i \in C : (\A k \in C : i <= k) /\ j.by = a[i].user
<1>0. /\ JobOfFirstApproval <=> \A f \in Findings : First(audit[f], job[f])
      /\ JobOfFirstApproval' <=> \A f \in Findings : First(audit'[f], job'[f])
  BY DEF JobOfFirstApproval, CreatingApprovals
<1>1. ASSUME NEW r \in Requests, CommitDecision(r) PROVE JobOfFirstApproval'
  <2>0. PICK f \in Findings : f = req[r].finding
    BY <1>1, CommitEffect
  <2> DEFINE old == audit[f]
             new == DecisionOf(req[r])
             all == audit'[f]
             C == {i \in 1..Len(old) : old[i].creates}
             D == {i \in 1..Len(all) : all[i].creates}
  <2>1. /\ req[r] \in Open
        /\ all = Append(old, new)
        /\ job'[f] = Enqueued(job[f], req[r])
        /\ \A g \in Findings : g # f => audit'[g] = audit[g] /\ job'[g] = job[g]
    BY <1>1, <2>0, CommitEffect
  <2>2. old \in Seq(Decisions) /\ new \in Decisions
    BY <2>1, DecisionType DEF TypeOK
  <2>3. /\ Len(old) \in Nat /\ Len(all) = Len(old) + 1
        /\ all[Len(old) + 1] = new
        /\ \A i \in 1..Len(old) : all[i] = old[i]
    BY <2>1, <2>2, AppendFacts
  <2>4. D = C \cup (IF new.creates THEN {Len(old) + 1} ELSE {})
    BY <2>3
  <2>5. First(old, job[f])
    BY <1>0
  <2>6. new.user = req[r].user
    BY DEF DecisionOf
  <2> HIDE DEF old, new, all, First
  <2>7. CASE C # {}
    <3>1. job[f] # NoJob
      BY <2>5, <2>7 DEF First, old
    <3>2. job'[f] = job[f]
      BY <2>1, <3>1 DEF Enqueued
    <3>3. PICK i \in C : (\A k \in C : i <= k) /\ job[f].by = old[i].user
      BY <2>5, <2>7 DEF First, old
    <3>4. i \in D /\ (\A k \in D : i <= k) /\ all[i] = old[i]
      BY <2>3, <2>4, <3>3
    <3>5. First(all, job'[f])
      BY <3>1, <3>2, <3>3, <3>4 DEF First
    <3> QED  BY <1>0, <2>1, <3>5 DEF all
  <2>8. CASE C = {} /\ new.creates
    <3>1. job[f] = NoJob
      BY <2>5, <2>8 DEF First, old
    <3>2. job'[f] # NoJob /\ job'[f].by = new.user
      <4>1. job'[f] = [status |-> "pending", by |-> req[r].user, action |-> req[r].action]
        BY <2>1, <2>8, <3>1 DEF Enqueued, new
      <4>2. job'[f] \in Jobs
        BY <2>1, <4>1 DEF Jobs, Open
      <4> QED  BY <2>6, <4>1, <4>2, ActPathAssumption DEF Jobs
    <3>3. D = {Len(old) + 1}
      BY <2>4, <2>8
    <3>4. First(all, job'[f])
      BY <2>3, <3>2, <3>3 DEF First
    <3> QED  BY <1>0, <2>1, <3>4 DEF all
  <2>9. CASE C = {} /\ ~new.creates
    <3>1. job[f] = NoJob /\ job'[f] = NoJob
      BY <2>1, <2>5, <2>9 DEF First, old, new, Enqueued
    <3>2. D = {}
      BY <2>4, <2>9
    <3>3. First(all, job'[f])
      BY <3>1, <3>2 DEF First
    <3> QED  BY <1>0, <2>1, <3>3 DEF all
  <2> QED  BY <2>7, <2>8, <2>9
<1>2. ASSUME NEW e \in Executors, SettleJob(e) PROVE JobOfFirstApproval'
  <2>1. ASSUME NEW f \in Findings
        PROVE  /\ audit'[f] = audit[f]
               /\ job'[f] # NoJob <=> job[f] # NoJob
               /\ job[f] # NoJob => job'[f].by = job[f].by
    <3>1. NoJob \notin Jobs
      BY ActPathAssumption DEF Jobs
    <3>2. CASE f = exec[e].finding
      BY <1>2, <3>1, <3>2, SettleEffect
    <3>3. CASE f # exec[e].finding
      BY <1>2, <3>3, SettleEffect
    <3> QED  BY <3>2, <3>3
  <2> QED  BY <1>0, <2>1
<1>3. UNCHANGED <<audit, job>> => JobOfFirstApproval'
  BY <1>0
<1> QED  BY <1>1, <1>2, <1>3, StepKinds, ExpireEffect

\* A settle adds a record only where there is none, for the job it claimed.
LEMMA RecordStep ==
  ASSUME TypeOK, OpenWorkStands, RecordBackedByJob, OneRecordPerFinding, [Next]_vars
  PROVE  RecordBackedByJob' /\ OneRecordPerFinding'
<1>1. ASSUME NEW r \in Requests, CommitDecision(r)
      PROVE  RecordBackedByJob' /\ OneRecordPerFinding'
  <2>1. UNCHANGED records
    BY <1>1, CommitEffect
  <2>2. ASSUME NEW f \in Findings
        PROVE  \/ job'[f] = job[f]
               \/ /\ job[f] = NoJob
                  /\ job'[f] # NoJob => job'[f].status = "pending"
    <3>1. CASE f = req[r].finding
      <4>1. job'[f] = Enqueued(job[f], req[r])
        BY <1>1, <3>1, CommitEffect
      <4> QED  BY <4>1 DEF Enqueued
    <3>2. CASE f # req[r].finding
      BY <1>1, <3>2, CommitEffect
    <3> QED  BY <3>1, <3>2
  <2>3. \A f \in Findings : \A i \in 1..Len(records[f]) : job[f] # NoJob
    BY DEF RecordBackedByJob
  <2> QED  BY <2>1, <2>2, <2>3 DEF RecordBackedByJob, OneRecordPerFinding
<1>2. ASSUME NEW e \in Executors, SettleJob(e)
      PROVE  RecordBackedByJob' /\ OneRecordPerFinding'
  <2>0. PICK f \in Findings : f = exec[e].finding
    BY <1>2, SettleEffect
  <2>1. /\ job[f] \in Jobs /\ job'[f] \in Jobs
        /\ job'[f].by = job[f].by /\ job'[f].action = job[f].action
    BY <1>2, <2>0, SettleEffect
  <2>2. /\ Len(records'[f]) = 1
        /\ records'[f] # <<>>
        /\ records'[f][1].by = job'[f].by
        /\ records'[f][1].action = job'[f].action
    <3>1. CASE records[f] = <<>>
      <4>1. PICK x \in Payloads :
              records'[f] = <<[by |-> job[f].by, action |-> job[f].action, payload |-> x]>>
        BY <1>2, <2>0, <3>1, SettleEffect
      <4> QED  BY <2>1, <4>1
    <3>2. CASE records[f] # <<>>
      <4>1. records'[f] = records[f]
        BY <1>2, <2>0, <3>2, SettleEffect
      <4>2. Len(records[f]) = 1
        <5>1. records[f] \in Seq(Records) /\ Len(records[f]) <= 1
          BY DEF TypeOK, OneRecordPerFinding
        <5>2. Len(records[f]) \in Nat /\ Len(records[f]) >= 1
          BY <3>2, <5>1, NonEmptyLength
        <5>3. \A n \in Nat : n >= 1 /\ n <= 1 => n = 1
          OBVIOUS
        <5> QED  BY <5>1, <5>2, <5>3, Zenon
      <4> QED  BY <2>1, <3>2, <4>1, <4>2 DEF RecordBackedByJob
    <3> QED  BY <3>1, <3>2
  <2>3. job'[f] # NoJob
    BY <2>1, ActPathAssumption DEF Jobs
  <2>4. \A g \in Findings : g # f => job'[g] = job[g] /\ records'[g] = records[g]
    BY <1>2, <2>0, SettleEffect
  <2>5. OneRecordPerFinding'
    <3>1. Len(records'[f]) <= 1
      BY <2>2
    <3> QED  BY <2>4, <3>1 DEF OneRecordPerFinding
  <2>6. RecordBackedByJob'
    BY <2>2, <2>3, <2>4 DEF RecordBackedByJob
  <2> QED  BY <2>5, <2>6
<1>3. UNCHANGED <<job, records>> => RecordBackedByJob' /\ OneRecordPerFinding'
  BY DEF RecordBackedByJob, OneRecordPerFinding
<1> QED  BY <1>1, <1>2, <1>3, StepKinds, ExpireEffect

\* The invariant is inductive.
LEMMA IInvStep == IInv /\ [Next]_vars => IInv'
  BY TypeStep, LocksStep, OpenWorkStep, TrailStep, DecisionStep, JobStep, RecordStep
     DEF IInv

\* The inductive invariant holds in every reachable state.
LEMMA Inductive == Spec => []IInv
  BY InitIInv, IInvStep, PTL DEF Spec

-----------------------------------------------------------------------------
(* Theorems *)

\* Every state of the act path is well typed (Rows, Decisions, Jobs, Records
\* and the local states of open transactions).
THEOREM TypeCorrect == Spec => []TypeOK
<1>1. IInv => TypeOK
  BY DEF IInv
<1> QED  BY Inductive, <1>1, PTL

\* However many executions, retries, lost settles and departures, a finding has
\* one record at most (ExecuteJob, createRecord).
THEOREM OneRecord == Spec => []OneRecordPerFinding
<1>1. IInv => OneRecordPerFinding
  BY DEF IInv
<1> QED  BY Inductive, <1>1, PTL

\* A record is made for its job, by its approver and as the job's action, and a
\* done job never lacks its record (ExecuteJob).
THEOREM RecordsAreSound == Spec => []RecordBackedByJob
<1>1. IInv => RecordBackedByJob
  BY DEF IInv
<1> QED  BY Inductive, <1>1, PTL

\* However many people decide at once, no approval and no rejection is repeated
\* (the predicates of ApproveFinding and RejectFinding).
THEOREM DecisionsAreNotRepeated == Spec => []NoRepeatedDecision
<1>1. IInv => NoRepeatedDecision
  BY DEF IInv
<1> QED  BY Inductive, <1>1, PTL

\* The trail ends in what the row shows (recordAudit, expire_snoozed_findings).
THEOREM TrailIsSound == Spec => []TrailShowsStatus
<1>1. IInv => TrailShowsStatus
  BY DEF IInv
<1> QED  BY Inductive, <1>1, PTL

\* A job exists exactly for the first approval that creates something, and
\* belongs to that approver (enqueueExecutorJob).
THEOREM JobsAreSound == Spec => []JobOfFirstApproval
<1>1. IInv => JobOfFirstApproval
  BY DEF IInv
<1> QED  BY Inductive, <1>1, PTL

\* One request at a time holds a finding's row, one execution its job.
THEOREM LocksExclude == Spec => []ExclusiveLocks
<1>1. IInv => ExclusiveLocks
  BY DEF IInv
<1> QED  BY Inductive, <1>1, PTL

\* What a transaction learned under its locks stays true until it ends.
THEOREM OpenWorkIsSound == Spec => []OpenWorkStands
<1>1. IInv => OpenWorkStands
  BY DEF IInv
<1> QED  BY Inductive, <1>1, PTL

-----------------------------------------------------------------------------
(* Product-review flags *)

\* The rejected findings about f's obligation, and f, which a transaction that
\* rejects f counts before it has committed.
Against(f) == {g \in Findings : Slug[g] = Slug[f] /\ (EverRejected(g) \/ g = f)}

\* A flag is earned when it is committed, because it was when it was decided:
\* the rejections that were counted are in the trail, and stay there.
FlagsToBe ==
  \A r \in Requests :
    req[r].pc = "recorded" /\ req[r].flag =>
      /\ req[r].act = "reject"
      /\ Cardinality(Against(req[r].finding)) >= Threshold

FlagInv == FlagsAreEarned /\ FlagsToBe

\* Among finitely many findings, more of them is a larger number.
LEMMA MoreFindings ==
  ASSUME NEW S \in SUBSET Findings, NEW U \in SUBSET Findings, S \subseteq U,
         Cardinality(S) >= Threshold
  PROVE  Cardinality(U) >= Threshold
<1>1. IsFiniteSet(U) /\ IsFiniteSet(S)
  BY ActPathAssumption, FS_Subset
<1>2. Cardinality(S) <= Cardinality(U)
  BY <1>1, FS_Subset
<1>3. Cardinality(S) \in Nat /\ Cardinality(U) \in Nat /\ Threshold \in Nat
  BY <1>1, FS_CardinalityType, ActPathAssumption
<1> QED  BY <1>2, <1>3

\* A row that says rejected has a rejection in its trail.
LEMMA RejectedInTrail ==
  ASSUME TypeOK, TrailShowsStatus, NEW g \in Findings, row[g].status = "rejected"
  PROVE  EverRejected(g)
<1>1. audit[g] \in Seq(Decisions)
  BY DEF TypeOK
<1>2. audit[g] # <<>>
  BY DEF TrailShowsStatus, Shows
<1>3. Len(audit[g]) \in 1..Len(audit[g])
  BY <1>1, <1>2, NonEmptyLength
<1>4. audit[g][Len(audit[g])] \in Decisions
  BY <1>1, <1>3
<1>5. audit[g][Len(audit[g])].act = "reject"
  BY <1>2, <1>4 DEF TrailShowsStatus, Shows, Decisions
<1> QED  BY <1>3, <1>5 DEF EverRejected

\* A rejection in a trail stays there, and a commit adds the one it is.
LEMMA RejectionsStay ==
  ASSUME IInv, [Next]_vars, NEW g \in Findings
  PROVE  /\ EverRejected(g) => EverRejected(g)'
         /\ \A r \in Requests :
              CommitDecision(r) /\ req[r].act = "reject" /\ req[r].finding = g =>
                EverRejected(g)'
<1>0. TypeOK /\ OpenWorkStands
  BY DEF IInv
<1>1. ASSUME NEW r \in Requests, CommitDecision(r)
      PROVE  /\ EverRejected(g) => EverRejected(g)'
             /\ req[r].act = "reject" /\ req[r].finding = g => EverRejected(g)'
  <2>1. CASE g = req[r].finding
    <3>1. audit'[g] = Append(audit[g], DecisionOf(req[r])) /\ req[r] \in Open
      BY <1>0, <1>1, <2>1, CommitEffect
    <3>2. audit[g] \in Seq(Decisions) /\ DecisionOf(req[r]) \in Decisions
      BY <1>0, <3>1, DecisionType DEF TypeOK
    <3>3. /\ Len(audit'[g]) = Len(audit[g]) + 1 /\ Len(audit[g]) \in Nat
          /\ audit'[g][Len(audit[g]) + 1] = DecisionOf(req[r])
          /\ \A i \in 1..Len(audit[g]) : audit'[g][i] = audit[g][i]
      BY <3>1, <3>2, AppendFacts
    <3>4. EverRejected(g) => EverRejected(g)'
      BY <3>3 DEF EverRejected
    <3>5. DecisionOf(req[r]).act = req[r].act
      BY DEF DecisionOf
    <3>6. Len(audit[g]) + 1 \in 1..Len(audit'[g])
      BY <3>3
    <3>7. req[r].act = "reject" => EverRejected(g)'
      BY <3>3, <3>5, <3>6 DEF EverRejected
    <3> QED  BY <3>4, <3>7
  <2>2. CASE g # req[r].finding
    BY <1>0, <1>1, <2>2, CommitEffect DEF EverRejected
  <2> QED  BY <2>1, <2>2
<1>2. (UNCHANGED audit) => (EverRejected(g) => EverRejected(g)')
  BY DEF EverRejected
<1>3. (\E r \in Requests : CommitDecision(r)) \/ UNCHANGED audit
  BY <1>0, StepKinds, SettleEffect DEF ExpireSnooze
<1> QED  BY <1>1, <1>2, <1>3

\* A flag that is decided, or committed, stays earned whatever happens next.
LEMMA FlagStep ==
  ASSUME IInv, FlagInv, [Next]_vars
  PROVE  FlagInv'
<1>0. TypeOK /\ OpenWorkStands /\ TrailShowsStatus
  BY DEF IInv
<1> DEFINE Rejects(s) == {g \in Findings : Slug[g] = s /\ EverRejected(g)}
<1>1. \A g \in Findings : EverRejected(g) => EverRejected(g)'
  BY RejectionsStay
<1>2. ASSUME NEW s, Cardinality(Rejects(s)) >= Threshold
      PROVE  Cardinality(Rejects(s))' >= Threshold
  <2>1. Rejects(s) \subseteq Rejects(s)' /\ Rejects(s)' \in SUBSET Findings
    BY <1>1
  <2> QED  BY <1>2, <2>1, MoreFindings
<1>3. ASSUME NEW f \in Findings, Cardinality(Against(f)) >= Threshold
      PROVE  Cardinality(Against(f)') >= Threshold
  <2>1. Against(f) \subseteq Against(f)' /\ Against(f)' \in SUBSET Findings
    BY <1>1 DEF Against
  <2>2. Against(f) \in SUBSET Findings
    BY DEF Against
  <2> QED  BY <1>3, <2>1, <2>2, MoreFindings
<1>4. FlagsAreEarned'
  <2> SUFFICES ASSUME NEW s \in flags' PROVE Cardinality(Rejects(s))' >= Threshold
    BY DEF FlagsAreEarned
  <2>1. CASE s \in flags
    BY <1>2, <2>1 DEF FlagInv, FlagsAreEarned
  <2>2. CASE s \notin flags
    <3>1. PICK r \in Requests : CommitDecision(r)
      BY <1>0, <2>2, StepKinds, SettleEffect DEF ExpireSnooze
    <3>3. PICK f \in Findings : f = req[r].finding
      BY <1>0, <3>1, CommitEffect
    <3>2. req[r].flag /\ s = Slug[f] /\ req[r].pc = "recorded"
      BY <2>2, <3>1, <3>3 DEF CommitDecision
    <3>4. req[r].act = "reject" /\ Cardinality(Against(f)) >= Threshold
      BY <3>2, <3>3 DEF FlagInv, FlagsToBe
    <3>5. EverRejected(f)'
      BY <3>1, <3>3, <3>4, RejectionsStay
    <3>6. Against(f) \subseteq Rejects(s)'
      BY <1>1, <3>2, <3>5 DEF Against
    <3>7. Rejects(s)' \in SUBSET Findings /\ Against(f) \in SUBSET Findings
      BY DEF Against
    <3> QED  BY <3>4, <3>6, <3>7, MoreFindings
  <2> QED  BY <2>1, <2>2
<1>5. FlagsToBe'
  <2> SUFFICES ASSUME NEW r \in Requests, req'[r].pc = "recorded", req'[r].flag
               PROVE  (/\ req[r].act = "reject"
                       /\ Cardinality(Against(req[r].finding)) >= Threshold)'
    BY DEF FlagsToBe
  <2>1. CASE req'[r] = req[r]
    <3>1. PICK f \in Findings : f = req[r].finding
      BY <1>0, <2>1, OpenRequest DEF Idle, Open
    <3>2. req[r].act = "reject" /\ Cardinality(Against(f)) >= Threshold
      BY <2>1, <3>1 DEF FlagInv, FlagsToBe
    <3>3. Cardinality(Against(f)') >= Threshold
      BY <1>3, <3>2
    <3> QED  BY <2>1, <3>1, <3>2, <3>3
  <2>2. CASE RecordDecision(r)
    <3>1. req[r] \in Open /\ req[r].pc = "updated"
      BY <1>0, <2>2, OpenRequest DEF RecordDecision, Idle
    <3>2. /\ req'[r].act = req[r].act /\ req'[r].finding = req[r].finding
          /\ req[r].act = "reject"
          /\ RejectionCount(req[r].finding) >= Threshold
      BY <1>0, <2>2, <3>1 DEF RecordDecision, TypeOK, Open
    <3>3. PICK f \in Findings : f = req[r].finding
      BY <3>1 DEF Open
    <3> DEFINE Counted == {g \in Findings : /\ Slug[g] = Slug[f]
                                            /\ row[g].status = "rejected" \/ g = f}
    <3>4. Counted \subseteq Against(f)
      BY <1>0, RejectedInTrail DEF Against
    <3>5. Cardinality(Counted) >= Threshold
      BY <3>2, <3>3 DEF RejectionCount
    <3>6. Cardinality(Against(f)) >= Threshold
      <4>1. Counted \in SUBSET Findings /\ Against(f) \in SUBSET Findings
        BY DEF Against
      <4> QED  BY <3>4, <3>5, <4>1, MoreFindings
    <3>7. Cardinality(Against(f)') >= Threshold
      BY <1>3, <3>6
    <3> QED  BY <3>2, <3>3, <3>7
  <2>3. req'[r] = req[r] \/ RecordDecision(r)
    <3>1. ASSUME NEW q \in Requests, RequestStep(q) PROVE req'[r] = req[r] \/ RecordDecision(r)
      <4>1. CASE q # r
        BY <1>0, <3>1, <4>1 DEF RequestStep, ReadPlan, DecideUpdate, ApproveUpdate,
                                RecordDecision, CommitDecision, Rollback, TypeOK
      <4>2. CASE q = r
        <5>1. ASSUME NEW f \in Findings, NEW u \in Users, NEW reviewed \in BOOLEAN,
                     ReadPlan(r, f, u, reviewed)
              PROVE  FALSE
          BY <1>0, <5>1 DEF ReadPlan, TypeOK
        <5>2. ASSUME NEW f \in Findings, NEW u \in Users, NEW act \in {"reject", "snooze"},
                     DecideUpdate(r, f, u, act)
              PROVE  FALSE
          BY <1>0, <5>2 DEF DecideUpdate, TypeOK
        <5>3. ASSUME ApproveUpdate(r) PROVE FALSE
          <6>1. req[r] \in Open
            BY <1>0, <5>3, OpenRequest DEF ApproveUpdate, Idle
          <6>2. req'[r].pc \in {"updated", "idle"}
            BY <1>0, <5>3, <6>1 DEF ApproveUpdate, TypeOK, Idle, Open
          <6> QED  BY <6>2
        <5>4. ASSUME CommitDecision(r) \/ Rollback(r) PROVE FALSE
          BY <1>0, <5>4 DEF CommitDecision, Rollback, TypeOK, Idle
        <5> QED  BY <3>1, <4>2, <5>1, <5>2, <5>3, <5>4 DEF RequestStep
      <4> QED  BY <4>1, <4>2
    <3>2. ASSUME NEW w \in Writers, WriterStep(w) PROVE req'[r] = req[r]
      BY <3>2 DEF WriterStep, HandsGate, HandsUpdate, ResumeUpdate, AbandonWrite
    <3>3. ASSUME NEW e \in Executors, ExecutorStep(e) PROVE req'[r] = req[r]
      BY <3>3 DEF ExecutorStep, ClaimJob, CreateRecord, SettleJob, FailExecution
    <3>4. ASSUME NEW f \in Findings, ExpireSnooze(f) \/ Sweep(f) PROVE req'[r] = req[r]
      BY <3>4 DEF ExpireSnooze, Sweep
    <3>5. ASSUME NEW u \in Users, Leave(u) \/ Join(u) PROVE req'[r] = req[r]
      BY <3>5 DEF Leave, Join
    <3>6. UNCHANGED vars => req'[r] = req[r]
      BY DEF vars
    <3> QED  BY <3>1, <3>2, <3>3, <3>4, <3>5, <3>6 DEF Next
  <2> QED  BY <2>1, <2>2, <2>3
<1> QED  BY <1>4, <1>5 DEF FlagInv

\* However rejections overlap and roll back, a product-review flag stands on
\* enough rejections in the trail (flagForProductReview).
THEOREM FlagsAreSound == Spec => []FlagsAreEarned
<1>1. Init => FlagInv
  BY DEF Init, FlagInv, FlagsAreEarned, FlagsToBe, Idle
<1>2. FlagInv => FlagsAreEarned
  BY DEF FlagInv
<1> QED  BY Inductive, FlagStep, <1>1, <1>2, PTL DEF Spec

-----------------------------------------------------------------------------
(* What is never taken back *)

\* A sequence extends itself and is extended by appending.
LEMMA ExtendsFacts ==
  ASSUME NEW S, NEW s \in Seq(S)
  PROVE  /\ Extends(s, s)
         /\ \A x \in S : Extends(s, Append(s, x))
         /\ s = <<>> => \A x \in S : Extends(s, <<x>>)
<1>1. SubSeq(s, 1, Len(s)) = s
  OBVIOUS
<1>2. ASSUME NEW x \in S PROVE SubSeq(Append(s, x), 1, Len(s)) = s
  OBVIOUS
<1>3. ASSUME NEW x \in S PROVE Len(s) <= Len(Append(s, x))
  OBVIOUS
<1>4. Len(s) \in Nat
  OBVIOUS
<1>5. ASSUME s = <<>>, NEW x \in S PROVE Extends(s, <<x>>)
  <2>1. <<x>> = Append(s, x)
    BY <1>5
  <2> QED  BY <1>2, <1>3, <2>1 DEF Extends
<1> QED  BY <1>1, <1>2, <1>3, <1>4, <1>5 DEF Extends

\* What an approval set in motion is never undone by any step (the act path,
\* enqueueExecutorJob's "on conflict do nothing", ExecuteJob).
THEOREM HistoryIsKept == Spec => HistoryOnlyGrows
<1>1. IInv /\ [Next]_vars => [HistoryStep]_vars
  <2> SUFFICES ASSUME IInv, [Next]_vars PROVE HistoryStep
    OBVIOUS
  <2>0. TypeOK /\ OpenWorkStands
    BY DEF IInv
  <2> DEFINE Kept(f) == job[f] # NoJob => /\ job'[f] # NoJob
                                          /\ job'[f].by = job[f].by
                                          /\ job'[f].action = job[f].action
                                          /\ job[f].status = "done" => job'[f] = job[f]
  <2>1. ASSUME NEW f \in Findings
        PROVE  Extends(audit[f], audit[f]) /\ Extends(records[f], records[f])
    BY <2>0, ExtendsFacts DEF TypeOK
  <2>2. ASSUME NEW r \in Requests, CommitDecision(r) PROVE HistoryStep
    <3>1. ASSUME NEW f \in Findings PROVE Extends(audit[f], audit'[f])
      <4>1. CASE f = req[r].finding
        <5>1. /\ req[r] \in Open
              /\ audit'[f] = Append(audit[f], DecisionOf(req[r]))
          BY <2>0, <2>2, <4>1, CommitEffect
        <5>2. audit[f] \in Seq(Decisions) /\ DecisionOf(req[r]) \in Decisions
          BY <2>0, <5>1, DecisionType DEF TypeOK
        <5> QED  BY <5>1, <5>2, ExtendsFacts
      <4>2. CASE f # req[r].finding
        BY <2>0, <2>1, <2>2, <4>2, CommitEffect
      <4> QED  BY <4>1, <4>2
    <3>2. ASSUME NEW f \in Findings PROVE Kept(f)
      BY <2>0, <2>2, CommitEffect DEF Enqueued
    <3>3. records' = records /\ flags \subseteq flags'
      BY <2>2 DEF CommitDecision
    <3> QED  BY <2>1, <3>1, <3>2, <3>3 DEF HistoryStep
  <2>3. ASSUME NEW e \in Executors, SettleJob(e) PROVE HistoryStep
    <3>1. ASSUME NEW f \in Findings PROVE Kept(f) /\ Extends(records[f], records'[f])
      <4>1. CASE f = exec[e].finding
        <5>1. /\ job[f] \in Jobs /\ job[f].status = "pending" /\ job'[f] \in Jobs
              /\ job'[f].by = job[f].by /\ job'[f].action = job[f].action
          BY <2>0, <2>3, <4>1, SettleEffect
        <5>2. PICK x \in Payloads :
                records'[f] = IF records[f] = <<>>
                              THEN <<[by |-> job[f].by, action |-> job[f].action,
                                      payload |-> x]>>
                              ELSE records[f]
          BY <2>0, <2>3, <4>1, SettleEffect
        <5>3. [by |-> job[f].by, action |-> job[f].action, payload |-> x] \in Records
          BY <5>1 DEF Jobs, Records
        <5>4. records[f] \in Seq(Records)
          BY <2>0 DEF TypeOK
        <5>5. NoJob \notin Jobs
          BY ActPathAssumption DEF Jobs
        <5> QED  BY <2>1, <5>1, <5>2, <5>3, <5>4, <5>5, ExtendsFacts
      <4>2. CASE f # exec[e].finding
        BY <2>0, <2>1, <2>3, <4>2, SettleEffect
      <4> QED  BY <4>1, <4>2
    <3>2. UNCHANGED <<audit, flags>>
      BY <2>0, <2>3, SettleEffect
    <3> QED  BY <2>1, <3>1, <3>2 DEF HistoryStep
  <2>4. ASSUME UNCHANGED <<audit, job, records, flags>> PROVE HistoryStep
    BY <2>1, <2>4 DEF HistoryStep
  <2> QED  BY <2>0, <2>2, <2>3, <2>4, StepKinds, ExpireEffect
<1> QED  BY Inductive, <1>1, PTL DEF Spec, HistoryOnlyGrows

-----------------------------------------------------------------------------
(* Every step is a step of the ledger or leaves the ledger alone *)

\* The refinement mapping takes initial states to initial states.
LEMMA InitLedger == Init => Ledger!LedgerInit
  BY DEF Init, Ledger!LedgerInit

\* A step that leaves rows, trail, jobs and records alone is no step of the
\* ledger.
LEMMA StutterLedger ==
  ASSUME UNCHANGED <<audit, job, records>>,
         \A f \in Findings : row'[f].status = row[f].status
  PROVE  UNCHANGED Ledger!ledger
  BY DEF Ledger!ledger

\* The end of a deferral is one in the ledger.
LEMMA ExpireLedger ==
  ASSUME IInv, NEW f \in Findings, ExpireSnooze(f)
  PROVE  Ledger!Reemerge(f)
<1> DEFINE st == [g \in Findings |-> row[g].status]
           st2 == [g \in Findings |-> row'[g].status]
<1>1. TypeOK
  BY DEF IInv
<1>2. /\ UNCHANGED <<audit, job, records>>
      /\ row[f].status = "snoozed"
      /\ row'[f].status = "pending"
      /\ \A g \in Findings : g # f => row'[g] = row[g]
  BY <1>1, ExpireEffect
<1>3. st2 = [st EXCEPT ![f] = "pending"]
  BY <1>2
<1> QED  BY <1>2, <1>3 DEF Ledger!Reemerge

\* The commit of a request is its decision in the ledger.
LEMMA CommitLedger ==
  ASSUME IInv, NEW r \in Requests, CommitDecision(r)
  PROVE  Ledger!LedgerNext
<1>0. TypeOK
  BY DEF IInv
<1>1. PICK f \in Findings : f = req[r].finding
  BY <1>0, CommitEffect
<1> DEFINE q == req[r]
           st == [g \in Findings |-> row[g].status]
           st2 == [g \in Findings |-> row'[g].status]
           ow == [g \in Findings |-> IF job[g] = NoJob THEN NoJob ELSE job[g].by]
           ow2 == [g \in Findings |-> IF job'[g] = NoJob THEN NoJob ELSE job'[g].by]
<1>2. /\ q \in Open
      /\ HoldsRow(r)
      /\ audit' = [audit EXCEPT ![f] = Append(@, DecisionOf(q))]
      /\ job'[f] = Enqueued(job[f], q)
      /\ row'[f].status = CASE q.act = "approve" -> "approved"
                            [] q.act = "reject" -> "rejected"
                            [] q.act = "snooze" -> "snoozed"
      /\ \A g \in Findings : g # f => row'[g] = row[g] /\ job'[g] = job[g]
      /\ UNCHANGED records
  BY <1>0, <1>1, CommitEffect DEF CommitDecision
<1>3. st2 = [st EXCEPT ![f] = row'[f].status]
  BY <1>2
<1>4. /\ q.user \in Users /\ q.reviewed \in BOOLEAN
      /\ q.act \in {"approve", "reject", "snooze"}
  BY <1>2 DEF Open
<1>5. /\ q.act = "approve" => row[f].status # "approved"
      /\ q.act = "reject" => row[f].status # "rejected"
  BY <1>1, <1>2 DEF IInv, OpenWorkStands
<1>6. job[f] \in Jobs \cup {NoJob} /\ NoJob \notin Jobs
  BY <1>0, ActPathAssumption DEF TypeOK, Jobs
<1>7. CASE q.act = "approve"
  <2>1. PICK u \in Users, reviewed \in BOOLEAN, creates \in BOOLEAN :
          /\ u = q.user
          /\ DecisionOf(q) = [act |-> "approve", user |-> u,
                              reviewed |-> reviewed, creates |-> creates]
    <3>1. DecisionOf(q) = [act |-> "approve", user |-> q.user,
                           reviewed |-> DecisionOf(q).reviewed,
                           creates |-> DecisionOf(q).creates]
      BY <1>7 DEF DecisionOf
    <3>2. DecisionOf(q).creates \in BOOLEAN /\ DecisionOf(q).reviewed \in BOOLEAN
      BY <1>2, DecisionType DEF Decisions
    <3> QED  BY <1>4, <3>1, <3>2, Zenon
  <2>2. DecisionOf(q).creates = creates
    BY <2>1
  <2>3. (IF job'[f] = NoJob THEN NoJob ELSE job'[f].by)
          = IF creates /\ ow[f] = NoJob THEN u ELSE ow[f]
    <3>1. CASE job[f] = NoJob /\ creates
      <4>1. job'[f] = [status |-> "pending", by |-> q.user, action |-> q.action]
        BY <1>2, <2>2, <3>1 DEF Enqueued
      <4>2. job'[f] # NoJob
        BY <1>2, <1>6, <4>1 DEF Jobs, Open
      <4> QED  BY <2>1, <3>1, <4>1, <4>2
    <3>2. CASE job[f] # NoJob
      <4>1. job'[f] = job[f]
        BY <1>2, <3>2 DEF Enqueued
      <4>2. job[f].by # NoJob
        BY <1>6, <3>2, ActPathAssumption DEF Jobs
      <4> QED  BY <3>2, <4>1, <4>2
    <3>3. CASE job[f] = NoJob /\ ~creates
      <4>1. job'[f] = job[f]
        BY <1>2, <2>2, <3>3 DEF Enqueued
      <4> QED  BY <3>3, <4>1
    <3> QED  BY <3>1, <3>2, <3>3
  <2>4. ow2 = [ow EXCEPT ![f] = IF creates /\ ow[f] = NoJob THEN u ELSE ow[f]]
    BY <1>2, <2>3
  <2>5. st2 = [st EXCEPT ![f] = "approved"] /\ st[f] # "approved"
    BY <1>2, <1>3, <1>5, <1>7
  <2>6. Ledger!Approve(f, u, reviewed, creates)
    BY <1>2, <2>1, <2>4, <2>5 DEF Ledger!Approve, Ledger!Take
  <2> QED  BY <2>6 DEF Ledger!LedgerNext
<1>8. ASSUME q.act # "approve" PROVE ow2 = ow
  <2>1. job'[f] = job[f]
    BY <1>2, <1>8 DEF Enqueued, DecisionOf
  <2> QED  BY <1>2, <2>1
<1>9. ASSUME q.act # "approve"
      PROVE  DecisionOf(q) = [act |-> q.act, user |-> q.user,
                              reviewed |-> FALSE, creates |-> FALSE]
  <2>1. (q.act = "approve" /\ q.reviewed) = FALSE
    BY <1>9
  <2>2. (q.act = "approve" /\ Executes(q.action)) = FALSE
    BY <1>9
  <2> QED  BY <2>1, <2>2, Zenon DEF DecisionOf
<1>10. CASE q.act = "reject"
  <2>1. st2 = [st EXCEPT ![f] = "rejected"] /\ st[f] # "rejected"
    BY <1>2, <1>3, <1>5, <1>10
  <2>2. Ledger!Reject(f, q.user)
    BY <1>2, <1>8, <1>9, <1>10, <2>1 DEF Ledger!Reject, Ledger!Take
  <2> QED  BY <1>4, <2>2 DEF Ledger!LedgerNext
<1>11. CASE q.act = "snooze"
  <2>1. st2 = [st EXCEPT ![f] = "snoozed"]
    BY <1>2, <1>3, <1>11
  <2>2. Ledger!Snooze(f, q.user)
    BY <1>2, <1>8, <1>9, <1>11, <2>1 DEF Ledger!Snooze, Ledger!Take
  <2> QED  BY <1>4, <2>2 DEF Ledger!LedgerNext
<1> QED  BY <1>4, <1>7, <1>10, <1>11

\* A settle is the making of a record in the ledger, or nothing.
LEMMA SettleLedger ==
  ASSUME IInv, NEW e \in Executors, SettleJob(e)
  PROVE  Ledger!LedgerNext \/ UNCHANGED Ledger!ledger
<1>0. TypeOK /\ OpenWorkStands
  BY DEF IInv
<1>1. PICK f \in Findings : f = exec[e].finding
  BY <1>0, SettleEffect
<1> DEFINE ow == [g \in Findings |-> IF job[g] = NoJob THEN NoJob ELSE job[g].by]
           ow2 == [g \in Findings |-> IF job'[g] = NoJob THEN NoJob ELSE job'[g].by]
           md == [g \in Findings |-> IF records[g] = <<>> THEN NoJob ELSE records[g][1].by]
           md2 == [g \in Findings |-> IF records'[g] = <<>> THEN NoJob ELSE records'[g][1].by]
<1>2. /\ job[f] \in Jobs /\ job'[f] \in Jobs /\ job'[f].by = job[f].by
      /\ \E x \in Payloads :
           records'[f] = IF records[f] = <<>>
                         THEN <<[by |-> job[f].by, action |-> job[f].action,
                                 payload |-> x]>>
                         ELSE records[f]
      /\ \A g \in Findings : g # f => job'[g] = job[g] /\ records'[g] = records[g]
      /\ UNCHANGED <<row, audit>>
  BY <1>0, <1>1, SettleEffect
<1>3. NoJob \notin Jobs /\ job[f].by # NoJob
  BY <1>2, ActPathAssumption DEF Jobs
<1>4. ow2 = ow
  BY <1>2, <1>3
<1>5. CASE records[f] = <<>>
  <2>1. md2[f] = job[f].by
    BY <1>2, <1>5
  <2>2. md2 = [md EXCEPT ![f] = ow[f]]
    BY <1>2, <1>3, <2>1
  <2>3. ow[f] # NoJob /\ md[f] = NoJob
    BY <1>2, <1>3, <1>5
  <2>4. Ledger!MakeRecord(f)
    BY <1>2, <1>4, <2>2, <2>3 DEF Ledger!MakeRecord
  <2> QED  BY <2>4 DEF Ledger!LedgerNext
<1>6. CASE records[f] # <<>>
  <2>1. md2 = md
    BY <1>2, <1>6
  <2> QED  BY <1>2, <1>4, <2>1 DEF Ledger!ledger
<1> QED  BY <1>5, <1>6

\* Requests, executions, agents, departures and retries together do no more
\* than the ledger: each decision at its commit, one record for the first
\* creating approval, in its approver's name (the act path and ExecuteJob).
THEOREM Refinement == Spec => ImplementsLedger
<1>1. Init => Ledger!LedgerInit
  BY InitLedger
<1>2. IInv /\ [Next]_vars => [Ledger!LedgerNext]_(Ledger!ledger)
  <2> SUFFICES ASSUME IInv, [Next]_vars
               PROVE  Ledger!LedgerNext \/ UNCHANGED Ledger!ledger
    OBVIOUS
  <2>1. ASSUME NEW r \in Requests, CommitDecision(r)
        PROVE  Ledger!LedgerNext
    BY <2>1, CommitLedger
  <2>2. ASSUME NEW e \in Executors, SettleJob(e)
        PROVE  Ledger!LedgerNext \/ UNCHANGED Ledger!ledger
    BY <2>2, SettleLedger
  <2>3. ASSUME NEW f \in Findings, ExpireSnooze(f)
        PROVE  Ledger!LedgerNext
    BY <2>3, ExpireLedger DEF Ledger!LedgerNext
  <2>4. ASSUME UNCHANGED <<audit, job, records, flags>>,
               \A f \in Findings : row'[f].status = row[f].status
        PROVE  UNCHANGED Ledger!ledger
    BY <2>4, StutterLedger
  <2> QED  BY <2>1, <2>2, <2>3, <2>4, StepKinds DEF IInv
<1> QED  BY Inductive, <1>1, <1>2, PTL DEF Spec, ImplementsLedger, Ledger!LedgerSpec

=============================================================================
