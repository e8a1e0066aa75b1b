\* The balanced tool profile with two calls in flight.
SPECIFICATION Spec
CONSTANTS
  Ids = {a1, a2, a3}
  Namespaces = {n1}
  Contents = {x, y}
  RelationTypes = {"supersedes", "duplicate_of"}
  Callers = {c1, c2}
  Operations <- Balanced
  EmbeddingsEnabled = TRUE
  NoEmbedding = NoEmbedding
  MaxVersion = 4
  MaxBatch = 1
  MaxLinks = 0
SYMMETRY Symmetry
INVARIANTS
  TypeOK
  EmbeddingMatchesContent
PROPERTIES
  RowsAreVersioned
CHECK_DEADLOCK FALSE
