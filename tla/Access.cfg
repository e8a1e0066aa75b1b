\* Peers at their limits, guesses of the approval password, tools of two credentials on three atoms.
SPECIFICATION Spec
CONSTANTS
  a = a
  b = b
  c = c
  ours = ours
  theirs = theirs
  Ids = {a, b, c}
  Namespaces = {ours, theirs}
  Peers = {p1, p2}
  Callers = {r1, r2}
  Credentials <- TwoCredentials
  Deployments <- SixDeployments
  Window = 2
  ApprovalWindow = 3
  MaxFailures = 2
  SweepAbove = 1
  MaxTime = 5
SYMMETRY Symmetry
INVARIANTS
  AtMostTwiceTheLimit
  GuessesAreLimited
  
PROPERTIES
  MovesOnlyWithin
CHECK_DEADLOCK FALSE
