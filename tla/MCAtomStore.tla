--------------------------- MODULE MCAtomStore ---------------------------
(* Model-checking instances of AtomStore. *)
EXTENDS AtomStore, TLC

\* The five memory tools of MCP_TOOL_PROFILE=balanced (remembering is a create).
Balanced == {"create", "memory_update", "memory_replace", "memory_forget", "memory_restore"}

\* Relations, merges and supersession, and what may happen to their participants
\* later.
History == {"create", "atom_link", "atom_merge", "atom_supersede", "atom_delete", "atom_restore",
            "archive_expired"}

\* Two creations of one or two items, optimistic updates, re-embedding and late
\* consolidation links next to every writer that changes a content, removes a row or
\* writes several.
Writers == {"create", "guarded_update", "atom_update", "archive_expired", "atom_reembed",
            "atom_unlink", "hard_delete", "atom_consolidate"}

\* An update in the middle of a re-embedding run.
Reembedding == {"create", "memory_update", "atom_reembed", "hard_delete"}

Symmetry == Permutations(Ids) \cup Permutations(Contents) \cup Permutations(Callers)
===========================================================================
