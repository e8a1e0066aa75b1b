\* Three atoms that are linked, merged, superseded, deleted and restored.
SPECIFICATION Spec
CONSTANTS
  Ids = {a1, a2, a3}
  Namespaces = {n1}
  Contents = {x, y, z}
  RelationTypes = {"supersedes", "duplicate_of"}
  Callers = {c1}
  Operations <- History
  EmbeddingsEnabled = TRUE
  NoEmbedding = NoEmbedding
  MaxVersion = 2
  MaxBatch = 1
  MaxLinks = 2
SYMMETRY Symmetry
INVARIANTS
  SupersededHasSuccessor
PROPERTIES
  MergeKeepsNeighbours
  HistoryCoversWrites
CHECK_DEADLOCK FALSE
