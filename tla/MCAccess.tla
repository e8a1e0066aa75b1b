------------------------------ MODULE MCAccess ------------------------------
(* Model-checking instances of Access. *)
EXTENDS Access, TLC

CONSTANTS a, b, c, ours, theirs

\* Deployments with the one or the other limiter, with neither while passwords
\* are guessed, and with neither while a client with one namespace and one
\* with all of them call tools on three atoms: those that name atoms, those
\* that search, and those that relate atoms.
Limited(mcp, oauth) == [l \in Limiters |-> IF l = "mcp" THEN mcp ELSE oauth]
Global == [kind |-> "global"]
Naming == {
  [kind |-> "query", in |-> {ours}],
  [kind |-> "create", into |-> {ours}],
  [kind |-> "update", ids |-> {a}, into |-> {ours}],
  [kind |-> "update", ids |-> {a}, into |-> {theirs}],
  [kind |-> "supersede", ids |-> {a}, into |-> {}],
  [kind |-> "remove", ids |-> {b}],
  [kind |-> "neighbors", ids |-> {a}],
  [kind |-> "merge", target |-> a, ids |-> {b}] }
Searching == {
  [kind |-> "context", in |-> {ours}],
  [kind |-> "sweep", in |-> {ours}],
  [kind |-> "create", into |-> {ours}],
  [kind |-> "similar", ids |-> {a}],
  [kind |-> "update", ids |-> {a}, into |-> {theirs}],
  [kind |-> "update", ids |-> {b}, into |-> {theirs}] }
Relating == {
  [kind |-> "link", ids |-> {a, b}],
  [kind |-> "unlink", ids |-> {a, b}],
  [kind |-> "remember", in |-> {ours}],
  [kind |-> "update", ids |-> {a}, into |-> {ours}],
  [kind |-> "update", ids |-> {a}, into |-> {theirs}] }
SixDeployments == {
  [limit |-> Limited(1, 0), tools |-> {Global}, approvals |-> FALSE],
  [limit |-> Limited(0, 1), tools |-> {}, approvals |-> TRUE],
  [limit |-> Limited(0, 0), tools |-> {}, approvals |-> TRUE],
  [limit |-> Limited(0, 0), tools |-> Naming, approvals |-> FALSE],
  [limit |-> Limited(0, 0), tools |-> Searching, approvals |-> FALSE],
  [limit |-> Limited(0, 0), tools |-> Relating, approvals |-> FALSE] }

Restricted == [all |-> FALSE, allowed |-> {ours}, write |-> TRUE, token |-> TRUE]
Admin == [all |-> TRUE, allowed |-> {}, write |-> TRUE, token |-> FALSE]
TwoCredentials == {Restricted, Admin}
Symmetry == Permutations(Callers) \cup Permutations(Peers)
=============================================================================
