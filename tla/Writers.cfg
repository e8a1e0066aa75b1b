\* Creations, optimistic updates and late consolidation links against the other writers.
SPECIFICATION Spec
CONSTANTS
  Ids = {a1, a2}
  Namespaces = {n1}
  Contents = {x, y}
  RelationTypes = {"supersedes", "duplicate_of"}
  Callers = {c1, c2}
  Operations <- Writers
  EmbeddingsEnabled = TRUE
  NoEmbedding = NoEmbedding
  MaxVersion = 2
  MaxBatch = 2
  MaxLinks = 1
SYMMETRY Symmetry
INVARIANTS
  VersionIdentifiesRow
  RelationsJoinAtoms
  OneAtomPerContent
CHECK_DEADLOCK FALSE
