--------------------------- MODULE VersionedRows ---------------------------
(***************************************************************************)
(* What the atoms table promises a client that holds on to an atom id: the *)
(* row appears once, every visible revision carries a version larger than  *)
(* all before it, an index refresh (a new embedding) touches nothing a     *)
(* client reads back, and a row removed for good stays removed.  This is   *)
(* the contract the expectedVersion guard of atom_update relies on.        *)
(***************************************************************************)
EXTENDS Integers

CONSTANT Ids
VARIABLE rows    \* per id: [phase, version, body, index]

Init == \A i \in Ids : rows[i].phase = "unused"

\* The row is inserted.
Appear(i) ==
  /\ rows[i].phase = "unused"
  /\ rows'[i].phase = "live"
  /\ rows'[i].version > 0

\* A visible change: whatever becomes of the body, the version grows.
Revise(i) ==
  /\ rows[i].phase = "live"
  /\ rows'[i].phase = "live"
  /\ rows'[i].version > rows[i].version

\* Only the search index of the row changes.
Reindex(i) ==
  /\ rows[i].phase = "live"
  /\ rows'[i] = [rows[i] EXCEPT !.index = rows'[i].index]

\* The row is removed; no action brings its id back.
Vanish(i) ==
  /\ rows[i].phase = "live"
  /\ rows'[i].phase = "gone"

\* One transaction may change several rows.
Next == \A i \in Ids : \/ Appear(i) \/ Revise(i) \/ Reindex(i) \/ Vanish(i)
                       \/ rows'[i] = rows[i]

Spec == Init /\ [][Next]_rows
===========================================================================
