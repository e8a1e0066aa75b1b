------------------------------ MODULE Planner ------------------------------
(***************************************************************************)
(* The context planner: which candidates go into a context, in which       *)
(* order, and which of them fit its budgets (src/src/context-planner.ts).  *)
(*                                                                         *)
(* Similarities and the weight of relevance are percentages and scores are *)
(* integers, so that the comparisons of the code, which divides by the     *)
(* best score, are made here with integers.                                *)
(***************************************************************************)
EXTENDS Loops, FiniteSets, FiniteSetsExt, Functions

CONSTANTS
  Texts,       \* contents of atoms
  Similarity,  \* percent, of two texts
  FullLine,    \* per text, the line that shows it in full
  ShortLine,   \* per text, the line with its summary only, or NoSummary
  NoSummary,
  Lambda       \* percent: the weight of relevance against redundancy

\* What the budgets see of a line: its characters, by what they cost.
Lines == [ascii : Nat, other : Nat]

ASSUME SimilarityAssumption ==
  /\ Similarity \in [Texts \X Texts -> 0 .. 100]
  /\ \A s, t \in Texts : Similarity[s, t] = Similarity[t, s] /\ Similarity[t, t] = 100
ASSUME LineAssumption ==
  /\ FullLine \in [Texts -> Lines] /\ ShortLine \in [Texts -> Lines \cup {NoSummary}]
  /\ NoSummary \notin Lines
ASSUME LambdaAssumption == Lambda \in 0 .. 100

Larger(m, n) == IF m > n THEN m ELSE n

----------------------------------------------------------------------------
(* Sizes *)

\* ceil(ascii / 3.6 + other / 1.7), and at least 1 for a text that is not empty
EstimateTokens(line) ==
  IF line.ascii + line.other = 0 THEN 0
  ELSE Larger(1, (170 * line.ascii + 360 * line.other + 611) \div 612)

Characters(line) == line.ascii + line.other

Total(numbers) == Through(LAMBDA sum, number : sum + number, 0, numbers)

\* lines.join("\n")
Joined(lines) ==
  [ascii |-> Total([k \in DOMAIN lines |-> lines[k].ascii]) + Larger(0, Len(lines) - 1),
   other |-> Total([k \in DOMAIN lines |-> lines[k].other])]

----------------------------------------------------------------------------
(* The order *)

BestScore(candidates) == Max({1} \cup {candidates[k].score : k \in DOMAIN candidates})

\* lambda * relevance - (1 - lambda) * redundancy, times 100 * the best score
Value(score, redundancy, best) ==
  Lambda * 100 * Larger(0, score) - (100 - Lambda) * redundancy * best

\* The first of the entries whose value is largest.
BestIndex(entries, best) ==
  LET value(k) == Value(entries[k].of.score, entries[k].redundancy, best)
  IN  CHOOSE k \in DOMAIN entries :
        \A j \in DOMAIN entries : value(k) > value(j) \/ (value(k) = value(j) /\ k <= j)

\* Mutant: the redundancy is the similarity to the last pick.
RedundantAfterLast(entry, picked) == Similarity[entry.of.text, picked.text]

\* The redundancy of an entry after one more pick: its largest similarity to
\* the picks so far, kept up to date pick by pick.
RedundantAfter(entry, picked) ==
  Larger(entry.redundancy, Similarity[entry.of.text, picked.text])

\* The entries left when k is picked, which splice takes out.
LeftAfter(available, k) ==
  [j \in 1 .. Len(available) - 1 |->
     LET entry == IF j < k THEN available[j] ELSE available[j + 1]
     IN  [entry EXCEPT !.redundancy = RedundantAfter(entry, available[k].of)]]

PickOne(state, best) ==
  LET k == BestIndex(state.available, best)
  IN  IF state.available = <<>> THEN state
      ELSE [selected |-> Append(state.selected, state.available[k].of),
            available |-> LeftAfter(state.available, k)]

Entries(candidates) == [k \in DOMAIN candidates |-> [of |-> candidates[k], redundancy |-> 0]]

DiversifyCandidates(candidates, limit) ==
  LET best == BestScore(candidates)
  IN  Through(LAMBDA state, n : PickOne(state, best),
              [selected |-> <<>>, available |-> Entries(candidates)],
              [n \in 1 .. limit |-> n]).selected

----------------------------------------------------------------------------
(* The budgets *)

\* Mutant: the line break before a line is free.
ExtendedWithoutBreaks(packed, line) ==
  [packed EXCEPT !.lines = Append(@, line),
                 !.characters = @ + Characters(line),
                 !.tokens = @ + EstimateTokens(line)]

\* A context with one more line, and with the line break before it.
Extended(packed, line) ==
  LET break == IF packed.lines = <<>> THEN 0 ELSE 1
  IN  [packed EXCEPT !.lines = Append(@, line),
                     !.characters = @ + Characters(line) + break,
                     !.tokens = @ + EstimateTokens(line) + break]

Fits(packed, budget) ==
  packed.characters <= budget.characters /\ packed.tokens <= budget.tokens

\* Mutant: a text that is too long in full is not shortened.
LinesOfInFull(candidate) == <<FullLine[candidate.text]>>

\* The ways to show a candidate, the better one first.
LinesOf(candidate) ==
  IF ShortLine[candidate.text] = NoSummary THEN <<FullLine[candidate.text]>>
  ELSE <<FullLine[candidate.text], ShortLine[candidate.text]>>

\* A candidate takes the first of its lines that fits, or is passed over.
PackOne(packed, candidate, budget) ==
  LET lines == LinesOf(candidate)
      fitting == {k \in DOMAIN lines : Fits(Extended(packed, lines[k]), budget)}
  IN  IF Len(packed.selected) >= budget.atoms \/ fitting = {} THEN packed
      ELSE [Extended(packed, lines[Min(fitting)]) EXCEPT !.selected = Append(@, candidate)]

Diversified(candidates, budget) ==
  DiversifyCandidates(candidates, IF budget.atoms * 3 < Len(candidates) THEN budget.atoms * 3
                                  ELSE Len(candidates))

NothingPacked == [selected |-> <<>>, lines |-> <<>>, characters |-> 0, tokens |-> 0]

PackContext(candidates, budget) ==
  Through(LAMBDA packed, candidate : PackOne(packed, candidate, budget), NothingPacked,
          Diversified(candidates, budget))
=============================================================================
