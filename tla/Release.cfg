\* Every reservation ends, whatever fails.
SPECIFICATION FairSpec
CONSTANTS
  Processes = {p1}
  Jobs = {j1, j2, j3}
  Nobody = Nobody
  Requests <- OneRequest
  Enabled <- WithReembedding
  Scheduled = FALSE
  RunCallers = {p1}
  EagerCallers = FALSE
  Prompt = TRUE
PROPERTIES
  SlotIsReleased
  AcceptedIsSettled
CHECK_DEADLOCK FALSE
