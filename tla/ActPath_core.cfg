CONSTANTS
  Findings = {f1}
  Users = {u1, u2}
  Requests = {r1, r2}
  Writers = {}
  Executors = {e1, e2}
  Payloads = {none, plain}
  NoPayload = none
  HighRisk = {}
  Received = {}
  Slug <- OneObligation
  Actions = {"create_ropa", "review"}
  Threshold = 3
  MaxAudit = 3
  NoJob = NoJob
SPECIFICATION Spec
SYMMETRY Interchangeable
INVARIANT TypeOK OneRecordPerFinding TrailShowsStatus OpenWorkStands JobOfFirstApproval RecordBackedByJob
PROPERTY HistoryOnlyGrows ImplementsLedger
