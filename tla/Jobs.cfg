\* Two processes, each with a schedule, tool requests and callers of run, share the table of jobs.
SPECIFICATION Spec
CONSTANTS
  Processes = {p1, p2}
  Jobs = {j1, j2, j3}
  Nobody = Nobody
  Requests <- OneRequest
  Enabled <- WithReembedding
  Scheduled = TRUE
  RunCallers = {p1, p2}
  EagerCallers = FALSE
  Prompt = TRUE
SYMMETRY Symmetry
INVARIANTS
  OneJobAtATime
  SlotNeverLeaks
  RowsTellTheOutcome
  SweptIsNotExecuted
PROPERTIES
  SlotIsExclusive
CHECK_DEADLOCK FALSE
