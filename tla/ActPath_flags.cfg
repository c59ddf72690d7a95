CONSTANTS
  Findings = {f1, f2}
  Users = {u1}
  Requests = {r1, r2}
  Writers = {w1}
  Executors = {}
  Payloads = {none, high, dated}
  NoPayload = none
  HighRisk = {high}
  Received = {dated}
  Slug <- OneObligation
  Actions = {"create_ai_system", "create_dsar"}
  Threshold = 2
  MaxAudit = 1
  NoJob = NoJob
SPECIFICATION Spec
SYMMETRY InterchangeableFindings
INVARIANT FlagsAreEarned
