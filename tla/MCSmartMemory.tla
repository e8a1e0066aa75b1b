--------------------------- MODULE MCSmartMemory ---------------------------
(* Model-checking instances of SmartMemory. *)
EXTENDS SmartMemory, TLC

CONSTANTS x, y, list, u, s

\* x has no slot of its own, y belongs to the inferred slot u, the list splits into
\* both; each resembles itself, and is ambiguous next to the others.
ByName == {s} \X {s}
Pieces == x :> <<x>> @@ y :> <<y>> @@ list :> <<x, y>>
Wording == x :> NoSlot @@ y :> u @@ list :> NoSlot
All == Contents \X Contents
Same == {p \in All : p[1] = p[2]}
Other == All \ Same
Tokens == x :> 1 @@ y :> 2 @@ list :> 2
Prompts == x :> 3 @@ y :> 3 @@ list :> 4

\* Without a model: two texts with and without a tag, and lists; with one, the
\* text without a slot.
ThreeDeployments ==
  {[model |-> FALSE, inputs |-> {x, y} \X SUBSET ExplicitSlots, contents |-> {x, y}, versions |-> 3],
   [model |-> FALSE, inputs |-> {list} \X SUBSET ExplicitSlots, contents |-> {x, y}, versions |-> 2],
   [model |-> TRUE, inputs |-> {<<x, {}>>}, contents |-> {x, y}, versions |-> 2]}

Symmetry == Permutations(Ids) \cup Permutations(Callers)
=============================================================================
