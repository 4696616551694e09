\* Two extractions, each of either snapshot and with any of the outputs.
CONSTANTS
  nobody = nobody
  Absent = Absent
  SchemaVersion = v1
  Jobs <- MCJobs
  MaxRuns = 2
SPECIFICATION Spec
INVARIANTS TypeOK NeverRaises FactsGrounded NothingDropped SameIdSameFacts OnlyValidOutput
CHECK_DEADLOCK FALSE
