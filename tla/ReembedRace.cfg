\* An update commits between the read and the write of a re-embedding run.
SPECIFICATION Spec
CONSTANTS
  Ids = {a1, a2}
  Namespaces = {n1}
  Contents = {x, y}
  RelationTypes = {"supersedes", "duplicate_of"}
  Callers = {c1, c2}
  Operations <- Reembedding
  EmbeddingsEnabled = TRUE
  NoEmbedding = NoEmbedding
  MaxVersion = 3
  MaxBatch = 1
  MaxLinks = 0
SYMMETRY Symmetry
INVARIANTS
  EmbeddingMatchesContent
CHECK_DEADLOCK FALSE
