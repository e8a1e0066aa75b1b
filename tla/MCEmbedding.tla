---------------------------- MODULE MCEmbedding ----------------------------
(* Model-checking instances of Embedding. *)
EXTENDS Embedding, TLC

CONSTANTS x, y

\* A batch with a repeated text, and one text for either purpose.
ThreeInputs == {
  [texts |-> <<x, y, x>>, purpose |-> "document"],
  [texts |-> <<x>>, purpose |-> "query"],
  [texts |-> <<x>>, purpose |-> "document"] }

Config(provider, size, workers, cached) ==
  [provider |-> provider, batchSize |-> size, concurrency |-> workers, retryMax |-> 1,
   cacheSize |-> cached]
\* Two batches at a time, one batch of two, one worker for two batches, a
\* provider that answers in order, none.
FiveConfigurations == {
  Config("indexed", 1, 2, 2), Config("indexed", 2, 2, 2), Config("indexed", 1, 1, 1),
  Config("ordered", 2, 1, 0), Config("none", 1, 1, 1) }
=============================================================================
