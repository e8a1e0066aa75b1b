------------------------------- MODULE Recall -------------------------------
(***************************************************************************)
(* memory_recall and atom_context: AtomService.context and what it calls   *)
(* (src/src/atom-service.ts), over a table of atoms that other calls       *)
(* change between its statements.                                          *)
(*                                                                         *)
(* A call searches for its query and, when that is long, for parts of it;  *)
(* each search is a statement of its own and any of them may have to do    *)
(* without an embedding.  The results are merged, another statement adds   *)
(* atoms related to the best of them, Planner packs what fits the budgets, *)
(* and a last statement records the access.  How well a text answers a     *)
(* part of a query is given by a constant.                                 *)
(***************************************************************************)
EXTENDS Planner

CONSTANTS
  Ids,
  Namespaces,
  Callers,
  Queries,
  PartsOf,     \* per query, what is searched for: itself, then its parts
  Modes,       \* "hybrid" and "lexical": with and without an embedding
  Score,       \* <<mode, part, text>>, per mille; 0: not found
  Relations,   \* records of from, to and weight (percent), the strongest first, equal ones in some order
  RelationLimit,  \* CONTEXT_RELATION_LIMIT; 0: no expansion
  Requests,    \* what calls ask for: <<query, budget of atoms, characters and tokens>>
  TextOf,      \* per atom, its text
  Pending,     \* in place of the results of a search that has not ended
  Steady       \* bound: atoms that are active and that nobody changes

ASSUME QueryAssumption ==
  /\ PartsOf \in [Queries -> Seq(STRING)] /\ Modes = {"hybrid", "lexical"}
  /\ \A q \in Queries : \A m \in Modes, t \in Texts, n \in DOMAIN PartsOf[q] :
       Score[m, PartsOf[q][n], t] \in Nat
ASSUME AtomAssumption ==
  /\ IsFiniteSet(Ids) /\ TextOf \in [Ids -> Texts] /\ Steady \subseteq Ids
ASSUME RelationAssumption ==
  /\ Relations \in Seq([from : Ids, to : Ids, weight : 0 .. 100])
  /\ \A k \in DOMAIN Relations :
       /\ Relations[k].from # Relations[k].to
       /\ \A j \in 1 .. k - 1 : Relations[j].weight >= Relations[k].weight
  /\ RelationLimit \in Nat
Budgets == [atoms : Nat \ {0}, characters : Nat, tokens : Nat]

ASSUME PendingAssumption == Pending \notin Seq([id : Ids, text : Texts, ns : Namespaces, score : Nat])
ASSUME RequestAssumption == Requests \subseteq Queries \X Budgets

VARIABLES
  atoms,     \* namespace and status of each atom
  recorded,  \* atoms whose access was recorded
  calls      \* calls under way

vars == <<atoms, recorded, calls>>

\* retired: any status but active
Rows == [ns : Namespaces, status : {"active", "retired"}]

Found == [id : Ids, text : Texts, ns : Namespaces, score : Nat]
Idle == [op |-> "idle"]
Contexts == [selected : Seq(Found), lines : Seq(Lines), characters : Nat, tokens : Nat]
Inputs == {[query |-> q[1], budget |-> q[2], ns |-> ns] : q \in Requests, ns \in Namespaces}
\* results: of each search, by the index of its part
\* inside: atoms that have been active in the namespace at some time of the call
\* moved: an atom has changed its namespace during the call
Calls == {Idle}
  \cup [op : {"search"}, input : Inputs, results : Seq(Seq(Found) \cup {Pending}),
        inside : SUBSET Ids, moved : BOOLEAN]
  \cup [op : {"record"}, input : Inputs, candidates : Seq(Found), packed : Contexts,
        inside : SUBSET Ids, moved : BOOLEAN]

Init ==
  /\ atoms \in {rows \in [Ids -> Rows] : \A i \in Steady : rows[i].status = "active"}
  /\ recorded = {}
  /\ calls = [c \in Callers |-> Idle]

Inside(rows, ns) == {i \in Ids : rows[i] = [ns |-> ns, status |-> "active"]}

Begin(c, input) ==
  /\ calls[c] = Idle
  /\ calls' = [calls EXCEPT ![c] =
       [op |-> "search", input |-> input, 
        results |-> [n \in DOMAIN PartsOf[input.query] |-> Pending],
        inside |-> Inside(atoms, input.ns), moved |-> FALSE]]
  /\ UNCHANGED <<atoms, recorded>>

----------------------------------------------------------------------------
(* The searches *)

\* overfetch: the limit of each search
Overfetch(atomsAsked) == Min({100, Max({20, atomsAsked * 4})})

\* What a search finds: the best of the active atoms of the namespace, in any
\* order their scores allow.  (Equal scores: by the time of the last write, then by id.)
Results(mode, part, ns, limit) ==
  LET found == {i \in Inside(atoms, ns) : Score[mode, part, TextOf[i]] > 0}
      asFound == {[id |-> i, text |-> TextOf[i], ns |-> ns, score |-> Score[mode, part, TextOf[i]]] :
                    i \in found}
      length == Min({limit, Cardinality(found)})
  IN  {s \in [1 .. length -> asFound] :
         \A k \in 1 .. length :
           /\ \A j \in 1 .. k - 1 : s[j] # s[k] /\ s[j].score >= s[k].score
           /\ \A f \in asFound \ Range(s) : s[k].score >= f.score}

ResultsOf(call, n, mode) ==
  Results(mode, PartsOf[call.input.query][n], call.input.ns, Overfetch(call.input.budget.atoms))

\* One of the searches, which run side by side.  Without its embedding a
\* hybrid search is a lexical one.
Search(c, n, mode, results) ==
  LET call == calls[c]
  IN  /\ call.op = "search"
      /\ n \in DOMAIN call.results /\ call.results[n] = Pending
      /\ results \in ResultsOf(call, n, mode)
      /\ calls' = [calls EXCEPT ![c].results[n] = results]
      /\ UNCHANGED <<atoms, recorded>>

----------------------------------------------------------------------------
(* Merging and expansion *)

Known(found, id) == \E k \in DOMAIN found : found[k].atom.id = id

\* One result joins what the searches have found so far.
MergeOne(merged, atom) ==
  IF ~Known(merged, atom.id) THEN Append(merged, [atom |-> atom, hits |-> 1])
  ELSE [k \in DOMAIN merged |->
          IF merged[k].atom.id # atom.id THEN merged[k]
          ELSE [hits |-> merged[k].hits + 1,
                atom |-> IF atom.score > merged[k].atom.score THEN atom ELSE merged[k].atom]]

\* What an atom gains by being found more than once.
Bonus(hits) == IF 25 * (hits - 1) > 80 THEN 80 ELSE 25 * (hits - 1)

AllMerged(results) ==
  Through(LAMBDA merged, found : Through(MergeOne, merged, found), <<>>, results)

\* The results of all searches, each atom once with the best of its scores.
MergeResults(results) ==
  LET merged == AllMerged(results)
  IN  [k \in DOMAIN merged |->
         [merged[k].atom EXCEPT !.score = @ + Bonus(merged[k].hits)]]

IdsOf(found) == {found[k].id : k \in DOMAIN found}

\* A relation seen from the seed it starts at, or else ends at.
SeedOf(r, seeds) == IF r.from \in seeds THEN r.from ELSE r.to
NeighborOf(r, seeds) == IF r.from \in seeds THEN r.to ELSE r.from

\* Of the relations that are strong enough, the first RelationLimit of each
\* seed, whatever becomes of their neighbours.
RankedRelations(seeds) ==
  LET strong == {k \in DOMAIN Relations : /\ {Relations[k].from, Relations[k].to} \cap seeds # {}
                                          /\ Relations[k].weight >= 65}
      before(k) == {j \in strong : j < k /\ SeedOf(Relations[j], seeds) = SeedOf(Relations[k], seeds)}
  IN  {k \in strong : Cardinality(before(k)) < RelationLimit}

\* Mutant: a neighbour may be in any namespace.
MayJoinAnywhere(neighbor, seed) == atoms[neighbor].status = "active"

\* The neighbour is active and in the namespace the seed is in now.
MayJoin(neighbor, seed) ==
  atoms[neighbor].status = "active" /\ atoms[neighbor].ns = atoms[seed].ns

\* Those of them whose neighbour may join.
JoiningRelations(seeds) ==
  {k \in RankedRelations(seeds) :
     MayJoin(NeighborOf(Relations[k], seeds), SeedOf(Relations[k], seeds))}

\* What is shown of a neighbour: it scores less than the seed it was found through.
FoundThrough(r, found) ==
  LET ids == IdsOf(found)
      seed == CHOOSE f \in Range(found) : f.id = SeedOf(r, ids)
      neighbor == NeighborOf(r, ids)
  IN  [id |-> neighbor, text |-> TextOf[neighbor], ns |-> atoms[neighbor].ns,
       score |-> (seed.score * r.weight * 72) \div 10000]

Related(found) ==
  LET joining == JoiningRelations(IdsOf(found))
  IN  Through(LAMBDA rows, k : IF k \in joining THEN Append(rows, FoundThrough(Relations[k], found))
                              ELSE rows,
              <<>>, [k \in DOMAIN Relations |-> k])

JoinOne(all, atom) == IF atom.id \in IdsOf(all) THEN all ELSE Append(all, atom)

\* Related atoms that were not found already join the candidates.
Join(candidates, related) == Through(JoinOne, candidates, related)

Expand(candidates, limit) ==
  IF RelationLimit = 0 THEN candidates
  ELSE Join(candidates, Related(DiversifyCandidates(candidates, limit)))

\* After the last search, one statement reads the relations; then the context
\* is packed.
Pack(c) ==
  LET call == calls[c]
      candidates == Expand(MergeResults(call.results), call.input.budget.atoms)
  IN  /\ call.op = "search"
      /\ \A n \in DOMAIN call.results : call.results[n] # Pending
      /\ calls' = [calls EXCEPT ![c] =
           [op |-> "record", input |-> call.input, candidates |-> candidates,
            packed |-> PackContext(candidates, call.input.budget),
            inside |-> call.inside, moved |-> call.moved]]
      /\ UNCHANGED <<atoms, recorded>>

\* The access is recorded, and the call returns ...
RecordAccess(c) ==
  /\ calls[c].op = "record"
  /\ recorded' = recorded \cup IdsOf(calls[c].packed.selected)
  /\ calls' = [calls EXCEPT ![c] = Idle]
  /\ UNCHANGED atoms

\* ... as it does when that fails; before, a failure is the call's.
CallEnds(c) ==
  /\ calls[c] # Idle
  /\ calls' = [calls EXCEPT ![c] = Idle]
  /\ UNCHANGED <<atoms, recorded>>

----------------------------------------------------------------------------
(* Other calls *)

\* Every running call's history takes note of the table's new state.
Noted(rows, moving) ==
  [c \in Callers |->
     IF calls[c] = Idle THEN Idle
     ELSE [calls[c] EXCEPT !.inside = @ \cup Inside(rows, calls[c].input.ns),
                           !.moved = @ \/ moving]]

SetStatus(i, status) ==
  /\ i \notin Steady /\ atoms[i].status # status
  /\ atoms' = [atoms EXCEPT ![i].status = status]
  /\ calls' = Noted(atoms', FALSE)
  /\ UNCHANGED recorded

\* atom_update with a namespace
Move(i, ns) ==
  /\ i \notin Steady /\ atoms[i].ns # ns
  /\ atoms' = [atoms EXCEPT ![i].ns = ns]
  /\ calls' = Noted(atoms', TRUE)
  /\ UNCHANGED recorded

Next ==
  \/ \E c \in Callers, input \in Inputs : Begin(c, input)
  \/ \E c \in Callers, mode \in Modes : calls[c].op = "search" /\
       \E n \in DOMAIN calls[c].results :
         \E results \in ResultsOf(calls[c], n, mode) : Search(c, n, mode, results)
  \/ \E c \in Callers : Pack(c) \/ RecordAccess(c) \/ CallEnds(c)
  \/ \E i \in Ids, status \in {"active", "retired"} : SetStatus(i, status)
  \/ \E i \in Ids, ns \in Namespaces : Move(i, ns)

Spec == Init /\ [][Next]_vars

----------------------------------------------------------------------------
(* Properties *)

\* Every variable has its type.
TypeOK ==
  /\ atoms \in [Ids -> Rows]
  /\ recorded \subseteq Ids
  /\ calls \in [Callers -> Calls]

Packed(c) == calls[c].op = "record"
Selected(c) == calls[c].packed.selected

\* A context shows no atom that was not, at some time of the call, active in
\* the namespace asked for, through whichever search or relation it came and
\* whatever was archived, restored or deleted meanwhile.  Only a move of an
\* atom during the call may bring in others: related atoms are sought where
\* the seed is then (search, contextRelations).
OutsidersStayOut ==
  \A c \in Callers : Packed(c) /\ ~calls[c].moved => IdsOf(Selected(c)) \subseteq calls[c].inside

\* The text that is returned, line breaks included, stays within the
\* characters and the estimated tokens asked for (packContext).
WithinBudget ==
  \A c \in Callers : Packed(c) =>
    LET text == Joined(calls[c].packed.lines)
        budget == calls[c].input.budget
    IN  /\ Characters(text) <= budget.characters
        /\ EstimateTokens(text) <= budget.tokens
        /\ Len(Selected(c)) <= budget.atoms

\* A candidate is left out only if the context is full, or if none of its
\* lines fits what the context leaves of the budgets, or if it was cut off,
\* since three times as many as asked for came before it in the order: one
\* that is too long does not keep out a shorter one behind it (packContext).
NothingElseFits ==
  \A c \in Callers : Packed(c) =>
    LET packed == calls[c].packed
        budget == calls[c].input.budget
        order == Diversified(calls[c].candidates, budget)
    IN  \/ Len(packed.selected) = budget.atoms
        \/ \A candidate \in Range(calls[c].candidates) \ Range(packed.selected) :
             \/ /\ ~Fits(Extended(packed, FullLine[candidate.text]), budget)
                /\ ShortLine[candidate.text] # NoSummary =>
                     ~Fits(Extended(packed, ShortLine[candidate.text]), budget)
             \/ candidate \notin Range(order) /\ Len(order) = 3 * budget.atoms

\* The largest similarity of a candidate to any of others.
Redundancy(k, others) == Max({0} \cup {Similarity[k.text, other.text] : other \in others})

\* The order of the candidates is that of maximal marginal relevance: each is
\* the best of those left, weighing its score against its largest similarity
\* to ANY of those before it.  The code keeps that similarity up to date pick
\* by pick (diversifyCandidates, lines 70-73).
PicksAreGreedy ==
  \A c \in Callers : Packed(c) =>
    LET candidates == calls[c].candidates
        picks == Diversified(candidates, calls[c].input.budget)
        value(k, others) == Value(k.score, Redundancy(k, others), BestScore(candidates))
    IN  \A n \in DOMAIN picks :
          LET before == {picks[m] : m \in 1 .. n - 1}
          IN  \A k \in Range(candidates) \ before : value(picks[n], before) >= value(k, before)
=============================================================================
