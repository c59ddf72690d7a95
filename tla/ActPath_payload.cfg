CONSTANTS
  Findings = {f1}
  Users = {u1}
  Requests = {r1}
  Writers = {w1}
  Executors = {}
  Payloads = {none, plain}
  NoPayload = none
  HighRisk = {}
  Received = {}
  Slug <- OneObligation
  Actions = {"create_ropa"}
  Threshold = 3
  MaxAudit = 1
  NoJob = NoJob
SPECIFICATION Spec
SYMMETRY Interchangeable
PROPERTY PayloadFrozenOnceEnqueued
