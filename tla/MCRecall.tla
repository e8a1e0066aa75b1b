------------------------------ MODULE MCRecall ------------------------------
(* Model-checking instances of Recall. *)
EXTENDS Recall, TLC

CONSTANTS w, x, y, z, a1, a2, a3, a4

\* x and y say nearly the same, and z resembles w.
Resemblance ==
  [p \in Texts \X Texts |->
     CASE p[1] = p[2] -> 100
       [] {p[1], p[2]} = {x, y} -> 80
       [] {p[1], p[2]} = {w, z} -> 40
       [] OTHER -> 5]

\* y, z and w have summaries; x, z and w are partly Korean.  In the least budget only
\* y fits, which seldom is among the best three.
Full == x :> [ascii |-> 120, other |-> 60] @@ y :> [ascii |-> 150, other |-> 0]
          @@ z :> [ascii |-> 60, other |-> 100] @@ w :> [ascii |-> 100, other |-> 80]
Short == x :> NoSummary @@ y :> [ascii |-> 110, other |-> 0] @@ z :> [ascii |-> 50, other |-> 90]
           @@ w :> [ascii |-> 90, other |-> 70]

\* The least budgets there are, with one atom, of whose candidates the fourth is cut off;
\* tight ones; and atom_context without maxTokens.
SomeRequests ==
  {<<"short", [atoms |-> 1, characters |-> 256, tokens |-> 64]>>,
   <<"long", [atoms |-> 4, characters |-> 290, tokens |-> 110]>>,
   <<"long", [atoms |-> 2, characters |-> 8000, tokens |-> 2000]>>,
   <<"short", [atoms |-> 4, characters |-> 8000, tokens |-> 20000]>>}

Parts == "short" :> <<"short">> @@ "long" :> <<"long", "part one", "part two">>

\* The words of x and y answer the short query equally well. Only embeddings tell what
\* else does, and what part two asks for.
Scores ==
  [k \in Modes \X {"short", "long", "part one", "part two"} \X Texts |->
     CASE k[2] = "short" ->
            (IF k[1] = "hybrid" THEN x :> 600 @@ y :> 500 @@ z :> 590 @@ w :> 480
             ELSE x :> 500 @@ y :> 500 @@ z :> 0 @@ w :> 0)[k[3]]
       [] k[2] = "long" -> (x :> 420 @@ y :> 0 @@ z :> 410 @@ w :> 400)[k[3]]
       [] k[2] = "part one" -> IF k[3] = x THEN 700 ELSE 0
       [] k[2] = "part two" -> IF k[1] = "hybrid" /\ k[3] = z THEN 420 ELSE 0]

TextsOfAtoms == a1 :> x @@ a2 :> y @@ a3 :> z @@ a4 :> w

SomeRelations ==
  <<[from |-> a1, to |-> a3, weight |-> 90], [from |-> a2, to |-> a1, weight |-> 80],
    [from |-> a2, to |-> a3, weight |-> 80], [from |-> a3, to |-> a2, weight |-> 60]>>

Symmetry == Permutations(Namespaces)
=============================================================================
