\* A recall whose searches, expansion and packing see a table that changes meanwhile.
SPECIFICATION Spec
CONSTANTS
  w = w
  x = x
  y = y
  z = z
  a1 = a1
  a2 = a2
  a3 = a3
  a4 = a4
  Texts = {w, x, y, z}
  Similarity <- Resemblance
  FullLine <- Full
  ShortLine <- Short
  NoSummary = NoSummary
  Pending = Pending
  Lambda = 78
  Ids = {a1, a2, a3, a4}
  Namespaces = {n1, n2}
  Callers = {c1}
  Queries = {"short", "long"}
  PartsOf <- Parts
  Modes = {"hybrid", "lexical"}
  Score <- Scores
  Relations <- SomeRelations
  RelationLimit = 1
  Requests <- SomeRequests
  TextOf <- TextsOfAtoms
  Steady = {a3, a4}
SYMMETRY Symmetry
INVARIANTS
  OutsidersStayOut
  WithinBudget
  NothingElseFits
  PicksAreGreedy
CHECK_DEADLOCK FALSE
