-------------------------- MODULE MCMaintenance --------------------------
(* Model-checking instances of Maintenance. *)
EXTENDS Maintenance, TLC

\* What clients ask for. Scheduled jobs are full ones.
OneRequest == {"reembed"}

\* Re-embedding is configured, so a full job has two steps.
WithReembedding == {"reembed"}

Symmetry == Permutations(Jobs) \cup Permutations(Processes)
===========================================================================
