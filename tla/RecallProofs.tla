---------------------------- MODULE RecallProofs ----------------------------
(***************************************************************************)
(* Theorems about Recall and its planner, for any texts, similarities,     *)
(* lines, scores and relations, any budgets, atoms and calls.              *)
(***************************************************************************)
EXTENDS Recall, FiniteSetTheorems, WellFoundedInduction, TLAPS

----------------------------------------------------------------------------
(* Loops *)

LEMMA LeastNatural ==
  ASSUME NEW T, T \subseteq Nat, T # {}
  PROVE  \E n \in T : \A m \in T : n <= m
<1>. DEFINE R == OpToRel(<, Nat)
<1>1. IsWellFoundedOn(R, Nat)  BY NatLessThanWellFounded
<1>2. \A m, n \in Nat : <<m, n>> \in R <=> m < n  BY DEF OpToRel
<1>. HIDE DEF R
<1>3. \E n \in T : \A m \in T : ~(<<m, n>> \in R)  BY <1>1, WFMin
<1>4. PICK n \in T : \A m \in T : ~(<<m, n>> \in R)  BY <1>3
<1>5. \A m \in T : n <= m
  <2>. TAKE m \in T
  <2>1. m \in Nat /\ n \in Nat OBVIOUS
  <2>2. ~(m < n)  BY <1>2, <1>4, <2>1
  <2>. QED BY <2>1, <2>2
<1>. QED BY <1>5

LEMMA Inductive ==
  ASSUME NEW N \in Nat, NEW T, 0 \in T, \A n \in 0 .. N - 1 : n \in T => n + 1 \in T
  PROVE  0 .. N \subseteq T
<1>. DEFINE Bad == (0 .. N) \ T
<1>1. SUFFICES ASSUME Bad # {}  PROVE FALSE  OBVIOUS
<1>2. Bad \subseteq Nat OBVIOUS
<1>3. \E n \in Bad : \A m \in Bad : n <= m
  <2>. HIDE DEF Bad
  <2>. QED BY <1>1, <1>2, LeastNatural
<1>4. PICK n \in Bad : \A m \in Bad : n <= m  BY <1>3
<1>5. n # 0 /\ n - 1 \in 0 .. N - 1  BY <1>4
<1>6. n - 1 \in T  BY <1>4, <1>5
<1>. QED BY <1>4, <1>5, <1>6

LEMMA SameValues ==
  ASSUME NEW N \in Nat, NEW f, NEW g, f[0] = g[0],
         \A n \in 1 .. N : f[n - 1] = g[n - 1] => f[n] = g[n]
  PROVE  f[N] = g[N]
<1>. DEFINE T == {n \in 0 .. N : f[n] = g[n]}
<1>1. 0 \in T /\ \A n \in 0 .. N - 1 : n \in T => n + 1 \in T  OBVIOUS
<1>2. 0 .. N \subseteq T
  <2>. HIDE DEF T
  <2>. QED BY <1>1, Inductive
<1>. QED BY <1>2

\* f records what N steps lead to, each taken from where the one before led.
Run(f, N, base, step) == f[0] = base /\ \A n \in 1 .. N : f[n] = step[n][f[n - 1]]

\* A step applied N times has a function that records what it leads to.
LEMMA Iteration ==
  ASSUME NEW S, NEW base \in S, NEW N \in Nat, NEW step \in [1 .. N -> [S -> S]]
  PROVE  \E f \in [0 .. N -> S] : Run(f, N, base, step)
<1>. DEFINE Records(n, f) ==
              /\ f \in [0 .. n -> S] /\ f[0] = base
              /\ \A m \in 1 .. n : f[m] = step[m][f[m - 1]]
            T == {n \in 0 .. N : \E f : Records(n, f)}
<1>1. 0 \in T
  <2>1. Records(0, [m \in 0 .. 0 |-> base])  OBVIOUS
  <2>. HIDE DEF Records
  <2>. QED BY <2>1
<1>2. ASSUME NEW n \in 0 .. N - 1, n \in T  PROVE n + 1 \in T
  <2>1. PICK f : Records(n, f)  BY <1>2
  <2>. DEFINE g == [m \in 0 .. n + 1 |-> IF m = n + 1 THEN step[n + 1][f[n]] ELSE f[m]]
  <2>2. n + 1 \in 1 .. N /\ n \in 0 .. n /\ n \in Nat  OBVIOUS
  <2>3. f \in [0 .. n -> S] BY <2>1
  <2>4. f[n] \in S  BY <2>2, <2>3
  <2>5. step[n + 1][f[n]] \in S  BY <2>2, <2>4
  <2>6. g \in [0 .. n + 1 -> S] /\ g[0] = base  BY <2>1, <2>5
  <2>7. ASSUME NEW m \in 1 .. n + 1  PROVE g[m] = step[m][g[m - 1]]
    BY <2>1
  <2>8. Records(n + 1, g)  BY <2>6, <2>7
  <2>. HIDE DEF Records, g
  <2>. QED BY <2>2, <2>8
<1>3. N \in T
  <2>. HIDE DEF T
  <2>1. 0 .. N \subseteq T BY <1>1, <1>2, Inductive
  <2>. QED BY <2>1
<1>4. PICK f : Records(N, f)  BY <1>3
<1>. QED BY <1>4 DEF Run

----------------------------------------------------------------------------
(* The text that is returned *)

LEMMA FunctionIsSequence ==
  ASSUME NEW S, NEW n \in Nat, NEW f \in [1 .. n -> S]
  PROVE  f \in Seq(S) /\ Len(f) = n
OBVIOUS

LEMMA TotalRuns ==
  ASSUME NEW s \in Seq(Nat)
  PROVE  \E f \in [0 .. Len(s) -> Nat] :
           /\ f[0] = 0 /\ \A n \in 1 .. Len(s) : f[n] = f[n - 1] + s[n]
           /\ Total(s) = f[Len(s)]
<1>. DEFINE N == Len(s)
            step == [n \in 1 .. N |-> [x \in Nat |-> x + s[n]]]
            after == CHOOSE f : f = [n \in 0 .. N |-> IF n = 0 THEN 0 ELSE f[n - 1] + s[n]]
<1>1. step \in [1 .. N -> [Nat -> Nat]] /\ 0 \in Nat /\ N \in Nat  OBVIOUS
<1>2. \E f \in [0 .. N -> Nat] : Run(f, N, 0, step)
  <2>. HIDE DEF step, N
  <2>. QED BY <1>1, Iteration
<1>3. PICK f \in [0 .. N -> Nat] : f[0] = 0 /\ \A n \in 1 .. N : f[n] = step[n][f[n - 1]]
  BY <1>2 DEF Run
<1>4. ASSUME NEW n \in 1 .. N  PROVE f[n] = f[n - 1] + s[n]
  <2>1. n - 1 \in 0 .. N  BY <1>1
  <2>2. f[n - 1] \in Nat
    <3>. HIDE DEF N
    <3>. QED BY <2>1
  <2>3. step[n][f[n - 1]] = f[n - 1] + s[n]  BY <2>2 DEF step
  <2>. QED BY <1>3, <2>3
<1>5. f = [n \in 0 .. N |-> IF n = 0 THEN 0 ELSE f[n - 1] + s[n]]  BY <1>3, <1>4
<1>6. after = [n \in 0 .. N |-> IF n = 0 THEN 0 ELSE after[n - 1] + s[n]]  BY <1>5
<1>7. Total(s) = after[N]  BY DEF Total, Through
<1>8. ASSUME NEW n \in 1 .. N, after[n - 1] = f[n - 1]  PROVE after[n] = f[n]
  <2>1. after[n] = after[n - 1] + s[n]
    <3>. HIDE DEF after
    <3>. QED BY <1>1, <1>6
  <2>. QED BY <1>4, <1>8, <2>1
<1>9. after[N] = f[N]
  <2>1. after[0] = f[0]
    <3>. HIDE DEF after
    <3>. QED BY <1>1, <1>3, <1>6
  <2>. HIDE DEF after, N
  <2>. QED BY <1>1, <1>8, <2>1, SameValues
<1>. QED BY <1>3, <1>4, <1>7, <1>9

LEMMA TotalAppend ==
  ASSUME NEW s \in Seq(Nat), NEW x \in Nat
  PROVE  Total(s) \in Nat /\ Total(Append(s, x)) = Total(s) + x
<1>. DEFINE N == Len(s)
            more == Append(s, x)
<1>1. more \in Seq(Nat) /\ Len(more) = N + 1 /\ N \in Nat
      /\ more[N + 1] = x /\ \A n \in 1 .. N : more[n] = s[n]
  OBVIOUS
<1>2. PICK f \in [0 .. N -> Nat] :
        /\ f[0] = 0 /\ \A n \in 1 .. N : f[n] = f[n - 1] + s[n]
        /\ Total(s) = f[N]
  BY TotalRuns
<1>3. PICK g \in [0 .. N + 1 -> Nat] :
        /\ g[0] = 0 /\ \A n \in 1 .. N + 1 : g[n] = g[n - 1] + more[n]
        /\ Total(more) = g[N + 1]
  <2>. HIDE DEF more
  <2>. QED BY <1>1, TotalRuns
<1>. HIDE DEF N, more
<1>4. f[N] = g[N]
  <2>1. \A n \in 1 .. N : f[n - 1] = g[n - 1] => f[n] = g[n]  BY <1>1, <1>2, <1>3
  <2>2. f[0] = g[0] /\ N \in Nat  BY <1>1, <1>2, <1>3
  <2>. QED BY <2>1, <2>2, SameValues, Zenon
<1>5. g[N + 1] = g[N] + x  BY <1>1, <1>3
<1>6. f[N] \in Nat  BY <1>1
<1>7. Total(more) = Total(s) + x /\ Total(s) \in Nat  BY <1>2, <1>3, <1>4, <1>5, <1>6
<1>. QED BY <1>7 DEF more

LEMMA TotalOfNone == Total(<<>>) = 0
<1>1. <<>> \in Seq(Nat) /\ Len(<<>>) = 0  OBVIOUS
<1>2. PICK f \in [0 .. 0 -> Nat] : f[0] = 0 /\ Total(<<>>) = f[0]
  <2>. HIDE DEF Total
  <2>. QED BY <1>1, TotalRuns
<1>. QED BY <1>2

\* The rounding up of the estimate is all there is to it.
LEMMA EstimateIsCeiling ==
  ASSUME NEW line \in Lines
  PROVE  /\ EstimateTokens(line) = (170 * line.ascii + 360 * line.other + 611) \div 612
         /\ EstimateTokens(line) \in Nat
BY DEF EstimateTokens, Larger, Lines

\* The estimate of a text is at most that of its parts and its line break.
LEMMA EstimateOfJoined ==
  ASSUME NEW a \in Lines, NEW b \in Lines, NEW break \in {0, 1}
  PROVE  LET both == [ascii |-> a.ascii + b.ascii + break, other |-> a.other + b.other]
         IN  both \in Lines /\ EstimateTokens(both) <= EstimateTokens(a) + EstimateTokens(b) + break
<1>. DEFINE both == [ascii |-> a.ascii + b.ascii + break, other |-> a.other + b.other]
<1>1. /\ a.ascii \in Nat /\ a.other \in Nat /\ b.ascii \in Nat /\ b.other \in Nat
      /\ both \in Lines /\ both.ascii = a.ascii + b.ascii + break
      /\ both.other = a.other + b.other
  BY DEF Lines
<1>2. \A x, y \in Nat : (x + y + 170 * break + 611) \div 612
                          <= (x + 611) \div 612 + (y + 611) \div 612 + break
  OBVIOUS
<1>. DEFINE x == 170 * a.ascii + 360 * a.other
            y == 170 * b.ascii + 360 * b.other
<1>3. x \in Nat /\ y \in Nat /\ 170 * both.ascii + 360 * both.other = x + y + 170 * break
  BY <1>1
<1>4. /\ EstimateTokens(a) = (x + 611) \div 612
      /\ EstimateTokens(b) = (y + 611) \div 612
      /\ EstimateTokens(both) = (170 * both.ascii + 360 * both.other + 611) \div 612
  <2>. HIDE DEF both
  <2>. QED BY <1>1, EstimateIsCeiling
<1>5. EstimateTokens(both) <= EstimateTokens(a) + EstimateTokens(b) + break
  <2>. HIDE DEF both, x, y
  <2>. QED BY <1>2, <1>3, <1>4
<1>. QED BY <1>1, <1>5

\* One more line, with the line break before it.
LEMMA JoinedAppend ==
  ASSUME NEW lines \in Seq(Lines), NEW line \in Lines
  PROVE  LET break == IF lines = <<>> THEN 0 ELSE 1
         IN  /\ Joined(lines) \in Lines
             /\ Joined(Append(lines, line)) =
                  [ascii |-> Joined(lines).ascii + line.ascii + break,
                   other |-> Joined(lines).other + line.other]
<1>. DEFINE more == Append(lines, line)
            ascii == [k \in DOMAIN lines |-> lines[k].ascii]
            other == [k \in DOMAIN lines |-> lines[k].other]
            break == IF lines = <<>> THEN 0 ELSE 1
<1>1. line.ascii \in Nat /\ line.other \in Nat /\ Len(lines) \in Nat
  BY DEF Lines
<1>2. ascii \in Seq(Nat) /\ other \in Seq(Nat)
  <2>1. DOMAIN lines = 1 .. Len(lines) /\ \A k \in 1 .. Len(lines) : lines[k] \in Lines
    OBVIOUS
  <2>2. ascii \in [1 .. Len(lines) -> Nat] /\ other \in [1 .. Len(lines) -> Nat]
    BY <2>1 DEF Lines
  <2>. HIDE DEF ascii, other
  <2>. QED BY <1>1, <2>2, FunctionIsSequence
<1>3. /\ [k \in DOMAIN more |-> more[k].ascii] = Append(ascii, line.ascii)
      /\ [k \in DOMAIN more |-> more[k].other] = Append(other, line.other)
  OBVIOUS
<1>4. /\ Total(ascii) \in Nat /\ Total(Append(ascii, line.ascii)) = Total(ascii) + line.ascii
      /\ Total(other) \in Nat /\ Total(Append(other, line.other)) = Total(other) + line.other
  <2>. HIDE DEF ascii, other
  <2>. QED BY <1>1, <1>2, TotalAppend
<1>5. Larger(0, Len(more) - 1) = Larger(0, Len(lines) - 1) + break
      /\ Larger(0, Len(lines) - 1) \in Nat
  <2>1. Len(more) = Len(lines) + 1 /\ (lines = <<>> <=> Len(lines) = 0)  OBVIOUS
  <2>2. break = IF Len(lines) = 0 THEN 0 ELSE 1  BY <2>1
  <2>3. \A n \in Nat : /\ Larger(0, n + 1 - 1) = Larger(0, n - 1) + (IF n = 0 THEN 0 ELSE 1)
                       /\ Larger(0, n - 1) \in Nat
    BY DEF Larger
  <2>4. Len(lines) + 1 - 1 = Len(lines)  BY <1>1
  <2>5. /\ Larger(0, Len(lines) + 1 - 1) = Larger(0, Len(lines) - 1) + (IF Len(lines) = 0 THEN 0 ELSE 1)
        /\ Larger(0, Len(lines) - 1) \in Nat
    BY <1>1, <2>3, Zenon
  <2>. HIDE DEF more, break
  <2>. QED BY <2>1, <2>2, <2>5
<1>6. Joined(more) = [ascii |-> Total(ascii) + line.ascii + Larger(0, Len(more) - 1),
                      other |-> Total(other) + line.other]
  <2>. HIDE DEF more, ascii, other
  <2>. QED BY <1>3, <1>4 DEF Joined
<1>7. Joined(lines) = [ascii |-> Total(ascii) + Larger(0, Len(lines) - 1), other |-> Total(other)]
  BY DEF Joined
<1>. HIDE DEF more, ascii, other, break
<1>8. Joined(lines) \in Lines
  BY <1>4, <1>5, <1>7 DEF Lines
<1>9. break \in {0, 1}  BY DEF break
<1>10. Joined(more) = [ascii |-> Joined(lines).ascii + line.ascii + break,
                       other |-> Joined(lines).other + line.other]
  BY <1>1, <1>4, <1>5, <1>6, <1>7, <1>9
<1>. QED BY <1>8, <1>10 DEF more, break

LEMMA JoinedIsLine ==
  ASSUME NEW lines \in Seq(Lines)  PROVE Joined(lines) \in Lines
<1>1. [ascii |-> 0, other |-> 0] \in Lines  BY DEF Lines
<1>. QED BY <1>1, JoinedAppend

----------------------------------------------------------------------------
(* Packing *)

\* What the planner reads of its candidates.
Plannable(D) == \A d \in D : d.text \in Texts /\ d.score \in Nat

ContextsOf(D) == [selected : Seq(D), lines : Seq(Lines), characters : Nat, tokens : Nat]

\* A text has a full line, and may have a short one.
LEMMA LinesOfOne ==
  ASSUME NEW d, d.text \in Texts
  PROVE  /\ \A k \in DOMAIN LinesOf(d) : LinesOf(d)[k] \in Lines
         /\ DOMAIN LinesOf(d) \subseteq Nat
         /\ \E k \in DOMAIN LinesOf(d) : LinesOf(d)[k] = FullLine[d.text]
         /\ ShortLine[d.text] # NoSummary =>
              \E k \in DOMAIN LinesOf(d) : LinesOf(d)[k] = ShortLine[d.text]
<1>1. FullLine[d.text] \in Lines /\ ShortLine[d.text] \in Lines \cup {NoSummary}
  BY LineAssumption
<1>2. CASE ShortLine[d.text] = NoSummary
  <2>1. LinesOf(d) = <<FullLine[d.text]>>  BY <1>2 DEF LinesOf
  <2>2. DOMAIN LinesOf(d) = {1} /\ LinesOf(d)[1] = FullLine[d.text]  BY <2>1
  <2>. QED BY <1>1, <1>2, <2>2
<1>3. CASE ShortLine[d.text] # NoSummary
  <2>1. LinesOf(d) = <<FullLine[d.text], ShortLine[d.text]>>  BY <1>3 DEF LinesOf
  <2>2. DOMAIN LinesOf(d) = {1, 2} /\ LinesOf(d)[1] = FullLine[d.text]
        /\ LinesOf(d)[2] = ShortLine[d.text]
    BY <2>1
  <2>. QED BY <1>1, <1>3, <2>2
<1>. QED BY <1>2, <1>3

\* A context with one more line.
LEMMA ExtendedByOne ==
  ASSUME NEW D, NEW packed \in ContextsOf(D), NEW line \in Lines
  PROVE  LET break == IF packed.lines = <<>> THEN 0 ELSE 1
             more == Extended(packed, line)
         IN  /\ more \in ContextsOf(D)
             /\ more.selected = packed.selected
             /\ more.lines = Append(packed.lines, line)
             /\ more.characters = packed.characters + Characters(line) + break
             /\ more.tokens = packed.tokens + EstimateTokens(line) + break
<1>1. Characters(line) \in Nat /\ EstimateTokens(line) \in Nat
  BY EstimateIsCeiling DEF Characters, Lines
<1>. DEFINE break == IF packed.lines = <<>> THEN 0 ELSE 1
<1>2. break \in {0, 1}  OBVIOUS
<1>3. Extended(packed, line) =
        [selected |-> packed.selected, lines |-> Append(packed.lines, line),
         characters |-> packed.characters + Characters(line) + break,
         tokens |-> packed.tokens + EstimateTokens(line) + break]
  <2>. DEFINE L == Append(packed.lines, line)
              C == packed.characters + Characters(line) + break
              T == packed.tokens + EstimateTokens(line) + break
  <2>1. Extended(packed, line) = [packed EXCEPT !.lines = L, !.characters = C, !.tokens = T]
    BY DEF Extended
  <2>2. PICK s \in Seq(D), l \in Seq(Lines), c \in Nat, t \in Nat :
          packed = [selected |-> s, lines |-> l, characters |-> c, tokens |-> t]
    BY DEF ContextsOf
  <2>. HIDE DEF L, C, T
  <2>3. [packed EXCEPT !.lines = L, !.characters = C, !.tokens = T]
          = [selected |-> packed.selected, lines |-> L, characters |-> C, tokens |-> T]
    <3>1. packed.selected = s  BY <2>2
    <3>. DEFINE p == [packed EXCEPT !.lines = L]
                q == [p EXCEPT !.characters = C]
    <3>2. p = [selected |-> s, lines |-> L, characters |-> c, tokens |-> t]  BY <2>2
    <3>. HIDE DEF p
    <3>3. q = [selected |-> s, lines |-> L, characters |-> C, tokens |-> t]  BY <3>2
    <3>. HIDE DEF q
    <3>4. [q EXCEPT !.tokens = T] = [selected |-> s, lines |-> L, characters |-> C, tokens |-> T]
      BY <3>3
    <3>. QED BY <3>1, <3>4 DEF p, q
  <2>. QED BY <2>1, <2>3 DEF L, C, T
<1>4. /\ packed.characters \in Nat /\ packed.tokens \in Nat /\ packed.selected \in Seq(D)
      /\ packed.lines \in Seq(Lines) /\ Append(packed.lines, line) \in Seq(Lines)
  BY DEF ContextsOf
<1>5. /\ packed.characters + Characters(line) + break \in Nat
      /\ packed.tokens + EstimateTokens(line) + break \in Nat
  <2>. HIDE DEF break
  <2>. QED BY <1>1, <1>2, <1>4
<1>6. Extended(packed, line) \in ContextsOf(D)
  <2>. HIDE DEF break
  <2>. QED BY <1>3, <1>4, <1>5 DEF ContextsOf
<1>. QED BY <1>3, <1>6

\* A candidate is packed with a line that fits, or the context stays as it is.
PassedOver(packed, d, budget) ==
  \/ Len(packed.selected) >= budget.atoms
  \/ \A k \in DOMAIN LinesOf(d) : ~Fits(Extended(packed, LinesOf(d)[k]), budget)

TakenWith(packed, d, line, budget, next) ==
  /\ Len(packed.selected) < budget.atoms
  /\ Fits(Extended(packed, line), budget)
  /\ next = [Extended(packed, line) EXCEPT !.selected = Append(packed.selected, d)]

PackStep(packed, d, budget, next) ==
  \/ next = packed /\ PassedOver(packed, d, budget)
  \/ \E line \in Lines : TakenWith(packed, d, line, budget, next)

LEMMA PackOneStep ==
  ASSUME NEW D, Plannable(D), NEW packed \in ContextsOf(D), NEW d \in D, NEW budget \in Budgets
  PROVE  PackStep(packed, d, budget, PackOne(packed, d, budget))
<1>. DEFINE lines == LinesOf(d)
            fitting == {k \in DOMAIN lines : Fits(Extended(packed, lines[k]), budget)}
<1>1. d.text \in Texts  BY DEF Plannable
<1>2. CASE Len(packed.selected) >= budget.atoms \/ fitting = {}
  BY <1>2 DEF PackOne, PackStep, PassedOver
<1>3. CASE ~(Len(packed.selected) >= budget.atoms) /\ fitting # {}
  <2>1. fitting \subseteq Nat /\ \A k \in DOMAIN lines : lines[k] \in Lines
    BY <1>1, LinesOfOne
  <2>2. Min(fitting) \in fitting
    <3>. HIDE DEF fitting
    <3>1. \E n \in fitting : \A m \in fitting : n <= m  BY <1>3, <2>1, LeastNatural
    <3>. QED BY <3>1 DEF Min
  <2>3. lines[Min(fitting)] \in Lines /\ Fits(Extended(packed, lines[Min(fitting)]), budget)
    BY <2>1, <2>2
  <2>4. Extended(packed, lines[Min(fitting)]).selected = packed.selected
    BY <2>3, ExtendedByOne
  <2>5. PackOne(packed, d, budget) =
          [Extended(packed, lines[Min(fitting)]) EXCEPT !.selected = Append(@, d)]
    BY <1>3 DEF PackOne
  <2>6. Len(packed.selected) < budget.atoms
    <3>1. Len(packed.selected) \in Nat /\ budget.atoms \in Nat  BY DEF ContextsOf, Budgets
    <3>. QED BY <1>3, <3>1
  <2>. HIDE DEF fitting, lines
  <2>. QED BY <2>3, <2>4, <2>5, <2>6 DEF PackStep, TakenWith
<1>. QED BY <1>2, <1>3

\* What a context of the candidates in an order is when n of them were seen.
LEMMA PackingRuns ==
  ASSUME NEW D, Plannable(D), NEW candidates, NEW budget \in Budgets,
         NEW order \in Seq(D), order = Diversified(candidates, budget)
  PROVE  \E f \in [0 .. Len(order) -> ContextsOf(D)] :
           /\ f[0] = NothingPacked
           /\ \A n \in 1 .. Len(order) : f[n] = PackOne(f[n - 1], order[n], budget)
           /\ PackContext(candidates, budget) = f[Len(order)]
<1>. DEFINE N == Len(order)
            S == ContextsOf(D)
            step == [n \in 1 .. N |-> [packed \in S |-> PackOne(packed, order[n], budget)]]
            after == CHOOSE f : f = [n \in 0 .. N |-> IF n = 0 THEN NothingPacked
                                                      ELSE PackOne(f[n - 1], order[n], budget)]
<1>1. NothingPacked \in S /\ N \in Nat /\ \A n \in 1 .. N : order[n] \in D
  BY DEF ContextsOf, NothingPacked
<1>2. ASSUME NEW n \in 1 .. N, NEW packed \in S  PROVE PackOne(packed, order[n], budget) \in S
  <2>1. order[n] \in D  BY <1>1
  <2>. DEFINE next == PackOne(packed, order[n], budget)
  <2>2. next = packed => next \in S  OBVIOUS
  <2>3. ASSUME NEW line \in Lines, TakenWith(packed, order[n], line, budget, next)
        PROVE  next \in S
    <3>1. Extended(packed, line) \in S  BY ExtendedByOne
    <3>2. Append(packed.selected, order[n]) \in Seq(D)  BY <2>1 DEF ContextsOf
    <3>. QED BY <2>3, <3>1, <3>2 DEF ContextsOf, TakenWith
  <2>4. PackStep(packed, order[n], budget, next)
    <3>1. packed \in ContextsOf(D)  BY DEF S
    <3>. HIDE DEF S
    <3>. QED BY <2>1, <3>1, PackOneStep DEF next
  <2>5. next \in S
    <3>. HIDE DEF next, S
    <3>. QED BY <2>2, <2>3, <2>4 DEF PackStep
  <2>. QED BY <2>5
<1>3. step \in [1 .. N -> [S -> S]]
  <2>. HIDE DEF S
  <2>. QED BY <1>2
<1>4. \E f \in [0 .. N -> S] : Run(f, N, NothingPacked, step)
  <2>. HIDE DEF step, N, S
  <2>. QED BY <1>1, <1>3, Iteration
<1>5. PICK f \in [0 .. N -> S] : f[0] = NothingPacked /\ \A n \in 1 .. N : f[n] = step[n][f[n - 1]]
  BY <1>4 DEF Run
<1>6. ASSUME NEW n \in 1 .. N  PROVE f[n] = PackOne(f[n - 1], order[n], budget)
  <2>. HIDE DEF S
  <2>1. n - 1 \in 0 .. N  BY <1>1
  <2>2. f[n - 1] \in S
    <3>. HIDE DEF N
    <3>. QED BY <2>1
  <2>3. step[n][f[n - 1]] = PackOne(f[n - 1], order[n], budget)  BY <2>2 DEF step
  <2>. QED BY <1>5, <2>3
<1>7. f = [n \in 0 .. N |-> IF n = 0 THEN NothingPacked ELSE PackOne(f[n - 1], order[n], budget)]
  <2>. HIDE DEF S
  <2>. QED BY <1>5, <1>6
<1>8. after = [n \in 0 .. N |-> IF n = 0 THEN NothingPacked
                                ELSE PackOne(after[n - 1], order[n], budget)]
  BY <1>7
<1>9. PackContext(candidates, budget) = after[N]  BY DEF PackContext, Through
<1>10. ASSUME NEW n \in 1 .. N, after[n - 1] = f[n - 1]  PROVE after[n] = f[n]
  <2>1. after[n] = PackOne(after[n - 1], order[n], budget)
    <3>. HIDE DEF after
    <3>. QED BY <1>1, <1>8
  <2>. HIDE DEF after
  <2>. QED BY <1>6, <1>10, <2>1
<1>11. after[N] = f[N]
  <2>1. after[0] = f[0]
    <3>. HIDE DEF after
    <3>. QED BY <1>1, <1>5, <1>8
  <2>. HIDE DEF after, N
  <2>. QED BY <1>1, <1>10, <2>1, SameValues
<1>. HIDE DEF after
<1>. QED BY <1>5, <1>6, <1>9, <1>11

NoneFits(packed, d, budget) ==
  \A k \in DOMAIN LinesOf(d) : ~Fits(Extended(packed, LinesOf(d)[k]), budget)

\* A context keeps to its budgets, and counts for its text no less than that takes.
PackedWell(packed, D, budget) ==
  /\ packed \in ContextsOf(D)
  /\ Len(packed.selected) <= budget.atoms
  /\ packed.characters = Characters(Joined(packed.lines))
  /\ EstimateTokens(Joined(packed.lines)) <= packed.tokens
  /\ Fits(packed, budget)

LEMMA NothingPackedWell ==
  ASSUME NEW D, NEW budget \in Budgets
  PROVE  PackedWell(NothingPacked, D, budget)
<1>1. Joined(<<>>) = [ascii |-> 0, other |-> 0]
  <2>1. /\ [k \in DOMAIN <<>> |-> <<>>[k].ascii] = <<>>
        /\ [k \in DOMAIN <<>> |-> <<>>[k].other] = <<>>
    OBVIOUS
  <2>2. Larger(0, Len(<<>>) - 1) = 0  BY DEF Larger
  <2>. QED BY <2>1, <2>2, TotalOfNone DEF Joined
<1>2. Characters(Joined(<<>>)) = 0 /\ EstimateTokens(Joined(<<>>)) = 0
  BY <1>1 DEF Characters, EstimateTokens
<1>. QED BY <1>2 DEF NothingPacked, PackedWell, ContextsOf, Fits, Budgets

LEMMA PackedMoreWell ==
  ASSUME NEW D, NEW d \in D, NEW budget \in Budgets, NEW packed, PackedWell(packed, D, budget),
         NEW line \in Lines, NEW next, TakenWith(packed, d, line, budget, next)
  PROVE  /\ PackedWell(next, D, budget)
         /\ next.selected = Append(packed.selected, d)
         /\ next.lines # <<>>
         /\ next.characters >= packed.characters + (IF packed.lines = <<>> THEN 0 ELSE 1)
         /\ next.tokens >= packed.tokens + (IF packed.lines = <<>> THEN 0 ELSE 1)
<1>. DEFINE break == IF packed.lines = <<>> THEN 0 ELSE 1
            more == Extended(packed, line)
<1>1. packed \in ContextsOf(D)  BY DEF PackedWell
<1>2. /\ more \in ContextsOf(D)
      /\ more.selected = packed.selected
      /\ more.lines = Append(packed.lines, line)
      /\ more.characters = packed.characters + Characters(line) + break
      /\ more.tokens = packed.tokens + EstimateTokens(line) + break
  BY <1>1, ExtendedByOne
<1>3. /\ next = [more EXCEPT !.selected = Append(packed.selected, d)]
      /\ Len(packed.selected) < budget.atoms /\ Fits(more, budget)
  BY DEF TakenWith
<1>4. Append(packed.selected, d) \in Seq(D)
      /\ Len(Append(packed.selected, d)) = Len(packed.selected) + 1
  BY <1>1 DEF ContextsOf
<1>. HIDE DEF more
<1>5. /\ next \in ContextsOf(D)
      /\ next.selected = Append(packed.selected, d)
      /\ next.lines = Append(packed.lines, line)
      /\ next.characters = packed.characters + Characters(line) + break
      /\ next.tokens = packed.tokens + EstimateTokens(line) + break
      /\ Fits(next, budget)
  BY <1>2, <1>3, <1>4 DEF ContextsOf, Fits
<1>6. Len(next.selected) <= budget.atoms
  <2>1. Len(packed.selected) \in Nat /\ budget.atoms \in Nat  BY <1>1 DEF ContextsOf, Budgets
  <2>. QED BY <1>3, <1>4, <1>5, <2>1
<1>7. /\ packed.lines \in Seq(Lines) /\ packed.characters \in Nat /\ packed.tokens \in Nat
      /\ break \in {0, 1}
      /\ EstimateTokens(line) \in Nat /\ Characters(line) \in Nat
  BY <1>1, EstimateIsCeiling DEF ContextsOf, Characters, Lines
<1>8. /\ Joined(packed.lines) \in Lines
      /\ Joined(next.lines) = [ascii |-> Joined(packed.lines).ascii + line.ascii + break,
                               other |-> Joined(packed.lines).other + line.other]
  BY <1>5, <1>7, JoinedAppend
<1>. HIDE DEF break
<1>9. EstimateTokens(Joined(next.lines))
        <= EstimateTokens(Joined(packed.lines)) + EstimateTokens(line) + break
  BY <1>7, <1>8, EstimateOfJoined
<1>10. /\ packed.characters = Characters(Joined(packed.lines))
       /\ EstimateTokens(Joined(packed.lines)) <= packed.tokens
  BY DEF PackedWell
<1>11. EstimateTokens(Joined(next.lines)) <= next.tokens
  <2>1. EstimateTokens(Joined(packed.lines)) \in Nat  BY <1>8, EstimateIsCeiling
  <2>2. Joined(next.lines) \in Lines
    BY <1>7, <1>8 DEF Lines
  <2>3. EstimateTokens(Joined(next.lines)) \in Nat  BY <2>2, EstimateIsCeiling
  <2>. QED BY <1>5, <1>7, <1>9, <1>10, <2>1, <2>3
<1>12. next.characters = Characters(Joined(next.lines))
  <2>1. /\ Joined(next.lines).ascii = Joined(packed.lines).ascii + line.ascii + break
        /\ Joined(next.lines).other = Joined(packed.lines).other + line.other
    BY <1>8
  <2>2. /\ Joined(packed.lines).ascii \in Nat /\ Joined(packed.lines).other \in Nat
        /\ line.ascii \in Nat /\ line.other \in Nat
    BY <1>8 DEF Lines
  <2>3. /\ Characters(line) = line.ascii + line.other
        /\ packed.characters = Joined(packed.lines).ascii + Joined(packed.lines).other
    BY <1>10 DEF Characters
  <2>4. break \in Int /\ next.characters = packed.characters + Characters(line) + break
    BY <1>5, <1>7
  <2>5. next.characters = Joined(next.lines).ascii + Joined(next.lines).other
    BY <2>1, <2>2, <2>3, <2>4
  <2>. QED BY <2>5 DEF Characters
<1>13. next.lines # <<>>  BY <1>5, <1>7
<1>14. /\ next.characters >= packed.characters + break
       /\ next.tokens >= packed.tokens + break
  BY <1>5, <1>7
<1>15. PackedWell(next, D, budget)  BY <1>5, <1>6, <1>11, <1>12 DEF PackedWell
<1>. QED BY <1>5, <1>13, <1>14, <1>15 DEF break

\* What does not fit a context does not fit it later.
LEMMA StillTooLong ==
  ASSUME NEW D, Plannable(D), NEW d \in D, NEW budget \in Budgets,
         NEW packed \in ContextsOf(D), NEW next \in ContextsOf(D),
         next.lines # <<>>,
         next.characters >= packed.characters + (IF packed.lines = <<>> THEN 0 ELSE 1),
         next.tokens >= packed.tokens + (IF packed.lines = <<>> THEN 0 ELSE 1),
         NoneFits(packed, d, budget)
  PROVE  NoneFits(next, d, budget)
<1>1. SUFFICES ASSUME NEW line \in Lines, ~Fits(Extended(packed, line), budget)
               PROVE  ~Fits(Extended(next, line), budget)
  <2>1. d.text \in Texts  BY DEF Plannable
  <2>2. \A k \in DOMAIN LinesOf(d) : LinesOf(d)[k] \in Lines  BY <2>1, LinesOfOne
  <2>. QED BY <1>1, <2>2 DEF NoneFits
<1>. DEFINE break == IF packed.lines = <<>> THEN 0 ELSE 1
<1>2. /\ Extended(packed, line).characters = packed.characters + Characters(line) + break
      /\ Extended(packed, line).tokens = packed.tokens + EstimateTokens(line) + break
  BY ExtendedByOne
<1>3. /\ Extended(next, line).characters = next.characters + Characters(line) + 1
      /\ Extended(next, line).tokens = next.tokens + EstimateTokens(line) + 1
  <2>1. (IF next.lines = <<>> THEN 0 ELSE 1) = 1  OBVIOUS
  <2>. QED BY <2>1, ExtendedByOne
<1>4. /\ packed.characters \in Nat /\ packed.tokens \in Nat
      /\ next.characters \in Nat /\ next.tokens \in Nat /\ break \in {0, 1}
      /\ EstimateTokens(line) \in Nat /\ Characters(line) \in Nat
      /\ budget.characters \in Nat /\ budget.tokens \in Nat
  <2>1. EstimateTokens(line) \in Nat  BY EstimateIsCeiling
  <2>2. Characters(line) \in Nat  BY DEF Characters, Lines
  <2>. QED BY <2>1, <2>2 DEF ContextsOf, Budgets
<1>5. next.characters >= packed.characters + break /\ next.tokens >= packed.tokens + break
  OBVIOUS
<1>. HIDE DEF break
<1>6. \/ ~(Extended(packed, line).characters <= budget.characters)
      \/ ~(Extended(packed, line).tokens <= budget.tokens)
  BY <1>1 DEF Fits
<1>7. /\ Extended(packed, line).characters <= Extended(next, line).characters
      /\ Extended(packed, line).tokens <= Extended(next, line).tokens
      /\ Extended(packed, line).characters \in Nat /\ Extended(next, line).characters \in Nat
      /\ Extended(packed, line).tokens \in Nat /\ Extended(next, line).tokens \in Nat
  <2>1. \A m, n, k \in Nat, b \in {0, 1} : n >= m + b =>
          m + k + b <= n + k + 1 /\ m + k + b \in Nat /\ n + k + 1 \in Nat
    OBVIOUS
  <2>2. /\ packed.characters + Characters(line) + break <= next.characters + Characters(line) + 1
        /\ packed.characters + Characters(line) + break \in Nat
        /\ next.characters + Characters(line) + 1 \in Nat
    BY <1>4, <1>5, <2>1, Zenon
  <2>3. /\ packed.tokens + EstimateTokens(line) + break <= next.tokens + EstimateTokens(line) + 1
        /\ packed.tokens + EstimateTokens(line) + break \in Nat
        /\ next.tokens + EstimateTokens(line) + 1 \in Nat
    BY <1>4, <1>5, <2>1, Zenon
  <2>. QED BY <1>2, <1>3, <2>2, <2>3, Zenon
<1>. QED BY <1>4, <1>6, <1>7 DEF Fits

LEMMA RangeOfAppend ==
  ASSUME NEW S, NEW s \in Seq(S), NEW x \in S
  PROVE  Range(Append(s, x)) = Range(s) \cup {x} /\ Range(s) \subseteq S
<1>. DEFINE more == Append(s, x)
            N == Len(s)
<1>1. /\ DOMAIN s = 1 .. N /\ DOMAIN more = 1 .. N + 1 /\ N \in Nat
      /\ more[N + 1] = x /\ \A k \in 1 .. N : more[k] = s[k] /\ s[k] \in S
  OBVIOUS
<1>. HIDE DEF more, N
<1>2. Range(s) = {s[k] : k \in 1 .. N} /\ Range(more) = {more[k] : k \in 1 .. N + 1}
  BY <1>1 DEF Range
<1>3. ASSUME NEW e \in Range(more)  PROVE e \in Range(s) \cup {x}
  <2>1. PICK k \in 1 .. N + 1 : e = more[k]  BY <1>2
  <2>2. k \in 1 .. N \/ k = N + 1  BY <1>1
  <2>. QED BY <1>1, <1>2, <2>1, <2>2
<1>4. ASSUME NEW e \in Range(s) \cup {x}  PROVE e \in Range(more)
  <2>1. N + 1 \in 1 .. N + 1 /\ \A k \in 1 .. N : k \in 1 .. N + 1  BY <1>1
  <2>. QED BY <1>1, <1>2, <2>1
<1>5. Range(s) \subseteq S  BY <1>1, <1>2
<1>. QED BY <1>3, <1>4, <1>5 DEF more

\* Of the first n candidates of an order, which are in a context, and why the others are not.
SeenBy(packed, order, n, budget) ==
  /\ Range(packed.selected) \subseteq {order[m] : m \in 1 .. n}
  /\ \/ Len(packed.selected) >= budget.atoms
     \/ \A m \in 1 .. n : \/ order[m] \in Range(packed.selected)
                          \/ NoneFits(packed, order[m], budget)

\* The context of an order of candidates keeps to its budgets and passes over
\* only what did not fit.
LEMMA PackedContext ==
  ASSUME NEW D, Plannable(D), NEW candidates, NEW budget \in Budgets,
         NEW order \in Seq(D), order = Diversified(candidates, budget)
  PROVE  /\ PackedWell(PackContext(candidates, budget), D, budget)
         /\ SeenBy(PackContext(candidates, budget), order, Len(order), budget)
<1>. DEFINE N == Len(order)
<1>1. PICK f \in [0 .. N -> ContextsOf(D)] :
        /\ f[0] = NothingPacked
        /\ \A n \in 1 .. N : f[n] = PackOne(f[n - 1], order[n], budget)
        /\ PackContext(candidates, budget) = f[N]
  BY PackingRuns
<1>2. N \in Nat /\ \A n \in 1 .. N : order[n] \in D  OBVIOUS
<1>. DEFINE T == {n \in 0 .. N : PackedWell(f[n], D, budget) /\ SeenBy(f[n], order, n, budget)}
<1>. HIDE DEF N
<1>3. 0 \in T
  <2>1. SeenBy(NothingPacked, order, 0, budget)  BY DEF SeenBy, NothingPacked, Range
  <2>. QED BY <1>1, <1>2, <2>1, NothingPackedWell
<1>4. ASSUME NEW n \in 0 .. N - 1, n \in T  PROVE n + 1 \in T
  <2>. DEFINE packed == f[n]
              next == f[n + 1]
              d == order[n + 1]
  <2>1. n + 1 \in 1 .. N /\ n + 1 - 1 = n /\ n \in Nat /\ n + 1 \in 0 .. N  BY <1>2
  <2>2. PackedWell(packed, D, budget) /\ SeenBy(packed, order, n, budget)  BY <1>4
  <2>3. d \in D /\ next = PackOne(packed, d, budget)  BY <1>1, <1>2, <2>1
  <2>4. {order[m] : m \in 1 .. n + 1} = {order[m] : m \in 1 .. n} \cup {d}
    BY <2>1
  <2>. HIDE DEF packed, next, d
  <2>5. packed \in ContextsOf(D)  BY <2>2 DEF PackedWell
  <2>6. PackStep(packed, d, budget, next)  BY <2>3, <2>5, PackOneStep
  <2>7. CASE next = packed /\ PassedOver(packed, d, budget)
    <3>1. \A m \in 1 .. n + 1 : m \in 1 .. n \/ order[m] = d
      BY <2>1 DEF d
    <3>2. SeenBy(next, order, n + 1, budget)
      BY <2>2, <2>4, <2>7, <3>1 DEF SeenBy, PassedOver, NoneFits
    <3>. QED BY <2>1, <2>2, <2>7, <3>2 DEF next
  <2>8. ASSUME NEW line \in Lines, TakenWith(packed, d, line, budget, next)
        PROVE  n + 1 \in T
    <3>1. /\ PackedWell(next, D, budget)
          /\ next.selected = Append(packed.selected, d)
          /\ next.lines # <<>>
          /\ next.characters >= packed.characters + (IF packed.lines = <<>> THEN 0 ELSE 1)
          /\ next.tokens >= packed.tokens + (IF packed.lines = <<>> THEN 0 ELSE 1)
      BY <2>2, <2>3, <2>8, PackedMoreWell
    <3>2. next \in ContextsOf(D)  BY <3>1 DEF PackedWell
    <3>3. packed.selected \in Seq(D) /\ Len(packed.selected) \in Nat /\ budget.atoms \in Nat
      BY <2>5 DEF ContextsOf, Budgets
    <3>4. Range(next.selected) = Range(packed.selected) \cup {d}
      BY <2>3, <3>1, <3>3, RangeOfAppend
    <3>5. ~(Len(packed.selected) >= budget.atoms)
      BY <2>8, <3>3 DEF TakenWith
    <3>6. \A m \in 1 .. n : \/ order[m] \in Range(packed.selected)
                            \/ NoneFits(packed, order[m], budget)
      BY <2>2, <3>5 DEF SeenBy
    <3>7. ASSUME NEW m \in 1 .. n + 1
          PROVE  order[m] \in Range(next.selected) \/ NoneFits(next, order[m], budget)
      <4>1. CASE m \in 1 .. n
        <5>1. order[m] \in D  BY <1>2, <2>1
        <5>2. NoneFits(packed, order[m], budget) => NoneFits(next, order[m], budget)
          BY <2>5, <3>1, <3>2, <5>1, StillTooLong
        <5>. QED BY <3>4, <3>6, <4>1, <5>2
      <4>2. CASE m = n + 1  BY <3>4, <4>2 DEF d
      <4>. QED BY <2>1, <4>1, <4>2
    <3>8. SeenBy(next, order, n + 1, budget)
      BY <2>2, <2>4, <3>4, <3>7 DEF SeenBy
    <3>. QED BY <2>1, <3>1, <3>8 DEF next
  <2>. QED BY <2>6, <2>7, <2>8 DEF PackStep
<1>5. N \in T
  <2>. HIDE DEF T
  <2>1. 0 .. N \subseteq T  BY <1>2, <1>3, <1>4, Inductive
  <2>. QED BY <1>2, <2>1
<1>. QED BY <1>1, <1>5 DEF N

----------------------------------------------------------------------------
(* Picking *)

\* Among finitely many numbers there is a largest, and a first one that is.
LEMMA FirstLargest ==
  ASSUME NEW N \in Nat, N # 0, NEW v \in [1 .. N -> Int]
  PROVE  \E k \in 1 .. N : \A j \in 1 .. N : v[k] > v[j] \/ (v[k] = v[j] /\ k <= j)
<1>. DEFINE Leads(k, n) == \A j \in 1 .. n : v[k] > v[j] \/ (v[k] = v[j] /\ k <= j)
            T == {n \in 0 .. N : n = 0 \/ \E k \in 1 .. n : Leads(k, n)}
<1>1. 0 \in T  OBVIOUS
<1>2. ASSUME NEW n \in 0 .. N - 1, n \in T  PROVE n + 1 \in T
  <2>1. n \in Nat /\ n + 1 \in 0 .. N /\ n + 1 \in 1 .. n + 1 /\ v[n + 1] \in Int  OBVIOUS
  <2>2. CASE n = 0
    <3>1. Leads(n + 1, n + 1)  BY <2>1, <2>2
    <3>. HIDE DEF Leads
    <3>. QED BY <2>1, <3>1
  <2>3. CASE n # 0
    <3>1. PICK k \in 1 .. n : Leads(k, n)  BY <1>2, <2>3
    <3>2. v[k] \in Int /\ k \in 1 .. n + 1 /\ \A j \in 1 .. n + 1 : j \in 1 .. n \/ j = n + 1
      BY <2>1
    <3>3. CASE v[k] >= v[n + 1]
      <4>1. Leads(k, n + 1)  BY <2>1, <3>1, <3>2, <3>3
      <4>. HIDE DEF Leads
      <4>. QED BY <2>1, <3>2, <4>1
    <3>4. CASE ~(v[k] >= v[n + 1])
      <4>1. v[n + 1] > v[k]  BY <2>1, <3>2, <3>4
      <4>2. \A j \in 1 .. n : v[j] \in Int  BY <2>1
      <4>3. \A j \in 1 .. n : v[n + 1] > v[j]  BY <2>1, <3>1, <3>2, <4>1, <4>2
      <4>4. Leads(n + 1, n + 1)  BY <2>1, <3>2, <4>3
      <4>. HIDE DEF Leads
      <4>. QED BY <2>1, <4>4
    <3>. QED BY <3>3, <3>4
  <2>. QED BY <2>2, <2>3
<1>3. N \in T
  <2>. HIDE DEF T
  <2>1. 0 .. N \subseteq T  BY <1>1, <1>2, Inductive
  <2>. QED BY <2>1
<1>. QED BY <1>3

LEMMA LargestPercent ==
  ASSUME NEW P, P \subseteq 0 .. 100, P # {}
  PROVE  Max(P) \in P /\ \A p \in P : Max(P) >= p
<1>. DEFINE T == {n \in Nat : \E p \in P : n = 100 - p}
<1>1. T \subseteq Nat /\ T # {}
  <2>1. PICK p \in P : TRUE  OBVIOUS
  <2>2. 100 - p \in T  OBVIOUS
  <2>. QED BY <2>2
<1>2. PICK n \in T : \A m \in T : n <= m
  <2>. HIDE DEF T
  <2>. QED BY <1>1, LeastNatural
<1>3. PICK x \in P : n = 100 - x  OBVIOUS
<1>4. \A p \in P : x >= p
  <2>. TAKE p \in P
  <2>1. 100 - p \in T /\ p \in Int /\ x \in Int  OBVIOUS
  <2>2. 100 - x <= 100 - p  BY <1>2, <1>3, <2>1
  <2>. QED BY <2>1, <2>2
<1>. QED BY <1>4 DEF Max

LEMMA BestScoreIsNumber ==
  ASSUME NEW D, Plannable(D), NEW candidates \in Seq(D)
  PROVE  BestScore(candidates) \in Nat
<1>. DEFINE N == Len(candidates) + 1
            v == [k \in 1 .. N |-> IF k = N THEN 1 ELSE candidates[k].score]
            scores == {1} \cup {candidates[k].score : k \in DOMAIN candidates}
<1>1. N \in Nat /\ N # 0 /\ N \in 1 .. N /\ DOMAIN candidates = 1 .. N - 1
  OBVIOUS
<1>2. \A k \in 1 .. N - 1 : candidates[k].score \in Nat
  BY <1>1 DEF Plannable
<1>3. v \in [1 .. N -> Int]
  <2>. HIDE DEF N
  <2>. QED BY <1>1, <1>2
<1>4. PICK k \in 1 .. N : \A j \in 1 .. N : v[k] > v[j] \/ (v[k] = v[j] /\ k <= j)
  <2>. HIDE DEF N, v
  <2>. QED BY <1>1, <1>3, FirstLargest
<1>5. v[N] = 1 /\ \A j \in 1 .. N - 1 : v[j] = candidates[j].score  OBVIOUS
<1>6. \A j \in 1 .. N : v[k] >= v[j] /\ v[j] \in Nat
  <2>. TAKE j \in 1 .. N
  <2>1. v[j] \in Int /\ v[k] \in Int  BY <1>3
  <2>2. v[k] >= v[j]  BY <1>4, <2>1
  <2>3. v[j] \in Nat
    <3>. HIDE DEF v, N
    <3>. QED BY <1>1, <1>2, <1>5
  <2>. QED BY <2>2, <2>3
<1>. HIDE DEF N, v
<1>7. v[k] \in scores  BY <1>1, <1>5
<1>8. \A s \in scores : v[k] >= s
  <2>. TAKE s \in scores
  <2>1. s = 1 \/ \E j \in 1 .. N - 1 : s = candidates[j].score  BY <1>1
  <2>2. \E j \in 1 .. N : s = v[j]  BY <1>1, <1>5, <2>1
  <2>. QED BY <1>6, <2>2
<1>9. scores \subseteq Nat  BY <1>1, <1>2
<1>10. Max(scores) \in scores
  <2>. HIDE DEF scores
  <2>. QED BY <1>7, <1>8 DEF Max
<1>11. BestScore(candidates) = Max(scores)  BY DEF BestScore
<1>. HIDE DEF scores
<1>. QED BY <1>9, <1>10, <1>11

\* The redundancy against one more text is the larger of two.
GrowsBy(k, others, p) ==
  /\ Redundancy(k, others) \in 0 .. 100
  /\ Redundancy(k, others \cup {p}) = Larger(Redundancy(k, others), Similarity[k.text, p.text])

LEMMA RedundancyGrows ==
  ASSUME NEW D, Plannable(D), NEW k \in D, NEW p \in D, NEW others, others \subseteq D
  PROVE  GrowsBy(k, others, p)
<1>. DEFINE sim == [q \in D |-> Similarity[k.text, q.text]]
            P(Q) == {0} \cup {sim[q] : q \in Q}
<1>1. \A q \in D : sim[q] \in 0 .. 100 /\ sim[q] = Similarity[k.text, q.text]
  <2>. TAKE q \in D
  <2>1. k.text \in Texts /\ q.text \in Texts  BY DEF Plannable
  <2>2. <<k.text, q.text>> \in Texts \X Texts  BY <2>1
  <2>. QED BY <2>2, SimilarityAssumption
<1>. HIDE DEF sim
<1>2. ASSUME NEW Q, Q \subseteq D  PROVE Redundancy(k, Q) = Max(P(Q))
  <2>1. {sim[q] : q \in Q} = {Similarity[k.text, other.text] : other \in Q}  BY <1>1, <1>2
  <2>. QED BY <2>1 DEF Redundancy
<1>3. ASSUME NEW Q, Q \subseteq D
      PROVE  /\ Max(P(Q)) \in P(Q) /\ Max(P(Q)) \in 0 .. 100
             /\ \A x \in P(Q) : Max(P(Q)) >= x
  <2>1. ASSUME NEW x \in P(Q)  PROVE x \in 0 .. 100
    <3>1. x = 0 \/ \E q \in Q : x = sim[q]  OBVIOUS
    <3>2. CASE x = 0  BY <3>2
    <3>3. CASE \E q \in Q : x = sim[q]
      <4>1. PICK q \in Q : x = sim[q]  BY <3>3
      <4>2. sim[q] \in 0 .. 100  BY <1>1, <1>3
      <4>. QED BY <4>1, <4>2, Zenon
    <3>. QED BY <3>1, <3>2, <3>3
  <2>2. P(Q) # {} /\ P(Q) \subseteq 0 .. 100  BY <2>1
  <2>. HIDE DEF P
  <2>. QED BY <2>2, LargestPercent
<1>. DEFINE more == others \cup {p}
<1>4. P(more) = P(others) \cup {sim[p]}  OBVIOUS
<1>5. more \subseteq D  OBVIOUS
<1>6. /\ Redundancy(k, others) = Max(P(others)) /\ Redundancy(k, more) = Max(P(more))
      /\ sim[p] \in 0 .. 100 /\ sim[p] = Similarity[k.text, p.text]
  BY <1>1, <1>2, <1>5
<1>7. /\ Max(P(others)) \in P(others) /\ Max(P(others)) \in 0 .. 100
      /\ \A x \in P(others) : Max(P(others)) >= x
      /\ Max(P(more)) \in P(more) /\ Max(P(more)) \in 0 .. 100
      /\ \A x \in P(more) : Max(P(more)) >= x
  <2>. HIDE DEF P, more
  <2>. QED BY <1>3, <1>5
<1>. HIDE DEF P, more
<1>8. Max(P(more)) = Larger(Max(P(others)), sim[p])
  <2>1. Max(P(more)) >= Max(P(others)) /\ Max(P(more)) >= sim[p]  BY <1>4, <1>7
  <2>2. Max(P(more)) = sim[p] \/ Max(P(others)) >= Max(P(more))  BY <1>4, <1>7
  <2>3. \A m, n, s \in 0 .. 100 : m >= n /\ m >= s /\ (m = s \/ n >= m) =>
          m = IF n > s THEN n ELSE s
    OBVIOUS
  <2>4. Max(P(more)) = IF Max(P(others)) > sim[p] THEN Max(P(others)) ELSE sim[p]
    BY <1>6, <1>7, <2>1, <2>2, <2>3, Zenon
  <2>. QED BY <2>4 DEF Larger
<1>. QED BY <1>6, <1>7, <1>8 DEF more, GrowsBy

EntriesOf(D) == [of : D, redundancy : 0 .. 100]
Pickings(D) == [selected : Seq(D), available : Seq(EntriesOf(D))]

LEMMA ValueIsNumber ==
  ASSUME NEW score \in Nat, NEW redundancy \in 0 .. 100, NEW best \in Nat
  PROVE  Value(score, redundancy, best) \in Int
<1>1. Lambda \in Int /\ Larger(0, score) \in Int  BY LambdaAssumption DEF Larger
<1>2. \A l, s, r, b \in Int : l * 100 * s - (100 - l) * r * b \in Int  OBVIOUS
<1>3. redundancy \in Int /\ best \in Int  OBVIOUS
<1>4. Lambda * 100 * Larger(0, score) - (100 - Lambda) * redundancy * best \in Int
  BY <1>1, <1>2, <1>3, Zenon
<1>. QED BY <1>4 DEF Value

\* No entry has a larger value than the k-th.
BestAt(entries, k, best) ==
  \A j \in DOMAIN entries : Value(entries[k].of.score, entries[k].redundancy, best)
                              >= Value(entries[j].of.score, entries[j].redundancy, best)

LEMMA BestIndexIsBest ==
  ASSUME NEW D, Plannable(D), NEW entries \in Seq(EntriesOf(D)), entries # <<>>, NEW best \in Nat
  PROVE  BestIndex(entries, best) \in DOMAIN entries
         /\ BestAt(entries, BestIndex(entries, best), best)
<1>. DEFINE N == Len(entries)
            v == [k \in 1 .. N |-> Value(entries[k].of.score, entries[k].redundancy, best)]
            Leads(k) == \A j \in DOMAIN entries : v[k] > v[j] \/ (v[k] = v[j] /\ k <= j)
<1>1. N \in Nat /\ N # 0 /\ DOMAIN entries = 1 .. N  OBVIOUS
<1>2. ASSUME NEW k \in 1 .. N  PROVE v[k] \in Int
  <2>1. entries[k] \in EntriesOf(D)  BY <1>1
  <2>2. entries[k].of.score \in Nat /\ entries[k].redundancy \in 0 .. 100
    BY <2>1 DEF EntriesOf, Plannable
  <2>. QED BY <2>2, ValueIsNumber
<1>3. v \in [1 .. N -> Int]
  <2>. HIDE DEF N
  <2>1. v = [k \in 1 .. N |-> v[k]]  OBVIOUS
  <2>. HIDE DEF v
  <2>. QED BY <1>2, <2>1
<1>4. \E k \in 1 .. N : \A j \in 1 .. N : v[k] > v[j] \/ (v[k] = v[j] /\ k <= j)
  <2>. HIDE DEF N, v
  <2>. QED BY <1>1, <1>3, FirstLargest
<1>5. \E k \in DOMAIN entries : Leads(k)  BY <1>1, <1>4
<1>. DEFINE value(k) == Value(entries[k].of.score, entries[k].redundancy, best)
<1>6. \A k \in DOMAIN entries : v[k] = value(k)  BY <1>1
<1>7. BestIndex(entries, best) =
        CHOOSE k \in DOMAIN entries :
          \A j \in DOMAIN entries : value(k) > value(j) \/ (value(k) = value(j) /\ k <= j)
  BY DEF BestIndex
<1>8. \E k \in DOMAIN entries :
        \A j \in DOMAIN entries : value(k) > value(j) \/ (value(k) = value(j) /\ k <= j)
  <2>1. PICK k \in DOMAIN entries : Leads(k)  BY <1>5
  <2>2. \A j \in DOMAIN entries : v[k] > v[j] \/ (v[k] = v[j] /\ k <= j)  BY <2>1
  <2>. HIDE DEF v, value
  <2>3. \A j \in DOMAIN entries : value(k) > value(j) \/ (value(k) = value(j) /\ k <= j)
    BY <1>6, <2>2
  <2>. QED BY <2>3
<1>. DEFINE b == BestIndex(entries, best)
<1>9. b \in DOMAIN entries
      /\ \A j \in DOMAIN entries : value(b) > value(j) \/ (value(b) = value(j) /\ b <= j)
  <2>. HIDE DEF value
  <2>. QED BY <1>7, <1>8, Zenon
<1>10. \A j \in DOMAIN entries : value(j) \in Int
  <2>. HIDE DEF v, value, N
  <2>. QED BY <1>1, <1>2, <1>6
<1>11. \A j \in DOMAIN entries : value(b) >= value(j)
  <2>. HIDE DEF v, value, N, b
  <2>. QED BY <1>9, <1>10
<1>. QED BY <1>9, <1>11 DEF BestAt

\* What is left after a pick: every other entry, its redundancy brought up to date.
LEMMA LeftAfterPick ==
  ASSUME NEW D, Plannable(D), NEW available \in Seq(EntriesOf(D)), NEW k \in DOMAIN available
  PROVE  LET left == LeftAfter(available, k)
         IN  /\ left \in Seq(EntriesOf(D)) /\ Len(left) = Len(available) - 1
             /\ \A j \in DOMAIN left : \E i \in DOMAIN available :
                  /\ left[j].of = available[i].of
                  /\ left[j].redundancy = RedundantAfter(available[i], available[k].of)
             /\ \A i \in DOMAIN available : i # k =>
                  \E j \in DOMAIN left : left[j].of = available[i].of
<1>. DEFINE N == Len(available)
            left == LeftAfter(available, k)
            p == available[k].of
            at(j) == IF j < k THEN j ELSE j + 1
            entry(i) == [available[i] EXCEPT !.redundancy = RedundantAfter(available[i], p)]
<1>1. N \in Nat /\ DOMAIN available = 1 .. N /\ k \in 1 .. N /\ N - 1 \in Nat  OBVIOUS
<1>2. ASSUME NEW i \in 1 .. N
      PROVE  /\ entry(i) \in EntriesOf(D)
             /\ entry(i).of = available[i].of
             /\ entry(i).redundancy = RedundantAfter(available[i], p)
  <2>1. available[i] \in EntriesOf(D) /\ available[k] \in EntriesOf(D)  BY <1>1
  <2>2. available[i].of.text \in Texts /\ p.text \in Texts
        /\ available[i].redundancy \in 0 .. 100
    BY <2>1 DEF EntriesOf, Plannable
  <2>3. Similarity[available[i].of.text, p.text] \in 0 .. 100
    <3>. HIDE DEF p
    <3>1. <<available[i].of.text, p.text>> \in Texts \X Texts  BY <2>2
    <3>. QED BY <3>1, SimilarityAssumption
  <2>4. RedundantAfter(available[i], p) \in 0 .. 100
    <3>. HIDE DEF p
    <3>. QED BY <2>2, <2>3 DEF RedundantAfter, Larger
  <2>. HIDE DEF p
  <2>. QED BY <2>1, <2>4 DEF EntriesOf
<1>3. left = [j \in 1 .. N - 1 |-> entry(at(j))]
  <2>1. \A j \in 1 .. N - 1 : (IF j < k THEN available[j] ELSE available[j + 1]) = available[at(j)]
    OBVIOUS
  <2>. HIDE DEF at
  <2>. QED BY <2>1 DEF LeftAfter
<1>. HIDE DEF N, left, entry, p
<1>4. \A j \in 1 .. N - 1 : at(j) \in 1 .. N  BY <1>1
<1>5. \A i \in 1 .. N : i # k => \E j \in 1 .. N - 1 : at(j) = i
  <2>. SUFFICES ASSUME NEW i \in 1 .. N, i # k  PROVE \E j \in 1 .. N - 1 : at(j) = i
    OBVIOUS
  <2>1. CASE i < k
    <3>1. i \in 1 .. N - 1 /\ at(i) = i  BY <1>1, <2>1
    <3>. HIDE DEF at
    <3>. QED BY <3>1
  <2>2. CASE ~(i < k)
    <3>1. i - 1 \in 1 .. N - 1 /\ at(i - 1) = i  BY <1>1, <2>2
    <3>. HIDE DEF at
    <3>. QED BY <3>1
  <2>. QED BY <2>1, <2>2
<1>. HIDE DEF at
<1>6. left \in [1 .. N - 1 -> EntriesOf(D)]  BY <1>2, <1>3, <1>4
<1>7. left \in Seq(EntriesOf(D)) /\ DOMAIN left = 1 .. N - 1 /\ Len(left) = N - 1
  BY <1>1, <1>6, FunctionIsSequence
<1>8. ASSUME NEW j \in DOMAIN left
      PROVE  \E i \in DOMAIN available :
               /\ left[j].of = available[i].of
               /\ left[j].redundancy = RedundantAfter(available[i], p)
  <2>1. at(j) \in 1 .. N /\ left[j] = entry(at(j))  BY <1>3, <1>4, <1>7
  <2>2. left[j].of = available[at(j)].of
        /\ left[j].redundancy = RedundantAfter(available[at(j)], p)
    BY <1>2, <2>1
  <2>. QED BY <1>1, <2>1, <2>2
<1>9. ASSUME NEW i \in DOMAIN available, i # k
      PROVE  \E j \in DOMAIN left : left[j].of = available[i].of
  <2>1. PICK j \in 1 .. N - 1 : at(j) = i  BY <1>1, <1>5, <1>9
  <2>2. left[j] = entry(i)  BY <1>3, <2>1
  <2>. QED BY <1>1, <1>2, <1>7, <2>2
<1>. QED BY <1>7, <1>8, <1>9 DEF left, p, N

Worth(k, others, best) == Value(k.score, Redundancy(k, others), best)
Before(picks, n) == {picks[m] : m \in 1 .. n - 1}

\* Every pick is the best of those left, against all that were picked before it.
Greedy(picks, candidates, best) ==
  \A n \in DOMAIN picks : \A k \in Range(candidates) \ Before(picks, n) :
    Worth(picks[n], Before(picks, n), best) >= Worth(k, Before(picks, n), best)

\* The picks are candidates, the other candidates are still there, each with
\* its redundancy against all picks.
PickedWell(state, D, candidates, best) ==
  /\ state \in Pickings(D)
  /\ Len(state.selected) + Len(state.available) = Len(candidates)
  /\ Range(state.selected) \subseteq Range(candidates)
  /\ \A j \in DOMAIN state.available :
       /\ state.available[j].of \in Range(candidates)
       /\ state.available[j].redundancy = Redundancy(state.available[j].of, Range(state.selected))
  /\ \A d \in Range(candidates) : \/ d \in Range(state.selected)
                                  \/ \E j \in DOMAIN state.available : state.available[j].of = d
  /\ Greedy(state.selected, candidates, best)

NothingPicked(candidates) == [selected |-> <<>>, available |-> Entries(candidates)]

LEMMA NothingPickedWell ==
  ASSUME NEW D, Plannable(D), NEW candidates \in Seq(D), NEW best \in Nat
  PROVE  PickedWell(NothingPicked(candidates), D, candidates, best)
<1>. DEFINE N == Len(candidates)
            entries == Entries(candidates)
<1>1. N \in Nat /\ DOMAIN candidates = 1 .. N /\ \A k \in 1 .. N : candidates[k] \in D
  OBVIOUS
<1>. HIDE DEF N
<1>2. entries = [k \in 1 .. N |-> [of |-> candidates[k], redundancy |-> 0]]
  BY <1>1 DEF Entries
<1>3. entries \in [1 .. N -> EntriesOf(D)]  BY <1>1, <1>2 DEF EntriesOf
<1>. HIDE DEF entries
<1>4. entries \in Seq(EntriesOf(D)) /\ DOMAIN entries = 1 .. N /\ Len(entries) = N
  BY <1>1, <1>3, FunctionIsSequence
<1>5. \A d \in D : Redundancy(d, {}) = 0
  <2>. TAKE d \in D
  <2>1. {0} \cup {Similarity[d.text, other.text] : other \in {}} = {0}  OBVIOUS
  <2>2. Max({0}) = 0
    <3>1. {0} \subseteq 0 .. 100 /\ {0} # {}  OBVIOUS
    <3>2. Max({0}) \in {0}  BY <3>1, LargestPercent
    <3>. QED BY <3>2
  <2>. QED BY <2>1, <2>2 DEF Redundancy
<1>6. \A k \in 1 .. N : entries[k].of = candidates[k] /\ entries[k].redundancy = 0
  BY <1>2
<1>7. Range(<<>>) = {} /\ Range(candidates) = {candidates[k] : k \in 1 .. N}
  BY <1>1 DEF Range
<1>8. Greedy(<<>>, candidates, best)  BY DEF Greedy
<1>9. NothingPicked(candidates) = [selected |-> <<>>, available |-> entries]
  BY DEF NothingPicked, entries
<1>10. NothingPicked(candidates) \in Pickings(D)  BY <1>4, <1>9 DEF Pickings
<1>. DEFINE state == NothingPicked(candidates)
<1>11. state.selected = <<>> /\ state.available = entries  BY <1>9
<1>. HIDE DEF state
<1>12. ASSUME NEW j \in 1 .. N
       PROVE  /\ entries[j].of \in Range(candidates)
              /\ entries[j].redundancy = Redundancy(entries[j].of, Range(<<>>))
  BY <1>1, <1>5, <1>6, <1>7
<1>13. ASSUME NEW d \in Range(candidates)  PROVE \E j \in 1 .. N : entries[j].of = d
  BY <1>6, <1>7
<1>14. PickedWell(state, D, candidates, best)
  <2>1. state \in Pickings(D)  BY <1>10 DEF state
  <2>2. Len(<<>>) + Len(entries) = Len(candidates)  BY <1>1, <1>4 DEF N
  <2>. QED BY <1>4, <1>7, <1>8, <1>11, <1>12, <1>13, <2>1, <2>2 DEF PickedWell
<1>. QED BY <1>14 DEF state

\* One more pick.
LEMMA PickedMoreWell ==
  ASSUME NEW D, Plannable(D), NEW candidates \in Seq(D), NEW best \in Nat,
         NEW state, PickedWell(state, D, candidates, best)
  PROVE  PickedWell(PickOne(state, best), D, candidates, best)
<1>1. CASE state.available = <<>>  BY <1>1 DEF PickOne
<1>2. CASE state.available # <<>>
  <2>. DEFINE available == state.available
              selected == state.selected
              k == BestIndex(available, best)
              p == available[k].of
              left == LeftAfter(available, k)
              now == Append(selected, p)
              next == [selected |-> now, available |-> left]
  <2>1. PickOne(state, best) = next  BY <1>2 DEF PickOne
  <2>2. state \in Pickings(D) /\ available \in Seq(EntriesOf(D)) /\ selected \in Seq(D)
    BY DEF PickedWell, Pickings
  <2>. DEFINE done == Range(selected)
  <2>3. /\ done \subseteq Range(candidates)
        /\ \A j \in DOMAIN available : /\ available[j].of \in Range(candidates)
                                       /\ available[j].redundancy = Redundancy(available[j].of, done)
        /\ \A d \in Range(candidates) : \/ d \in done
                                        \/ \E j \in DOMAIN available : available[j].of = d
        /\ Greedy(selected, candidates, best)
    BY DEF PickedWell
  <2>. HIDE DEF available, selected
  <2>4. k \in DOMAIN available /\ BestAt(available, k, best)
    BY <1>2, <2>2, BestIndexIsBest DEF available
  <2>. HIDE DEF k
  <2>5. /\ left \in Seq(EntriesOf(D)) /\ Len(left) = Len(available) - 1
        /\ \A j \in DOMAIN left : \E i \in DOMAIN available :
             /\ left[j].of = available[i].of
             /\ left[j].redundancy = RedundantAfter(available[i], p)
        /\ \A i \in DOMAIN available : i # k => \E j \in DOMAIN left : left[j].of = available[i].of
    BY <2>2, <2>4, LeftAfterPick
  <2>6. p \in D /\ p \in Range(candidates)
    <3>1. available[k] \in EntriesOf(D)  BY <2>2, <2>4
    <3>. QED BY <2>3, <2>4, <3>1 DEF EntriesOf
  <2>7. done \subseteq D /\ Range(now) = done \cup {p} /\ now \in Seq(D)
    <3>. HIDE DEF p
    <3>. QED BY <2>2, <2>6, RangeOfAppend
  <2>8. Range(now) \subseteq Range(candidates)  BY <2>3, <2>6, <2>7
  <2>. HIDE DEF left, now, p, done
  <2>9. ASSUME NEW j \in DOMAIN left
        PROVE  left[j].of \in Range(candidates) /\ left[j].redundancy = Redundancy(left[j].of, Range(now))
    <3>1. PICK i \in DOMAIN available : /\ left[j].of = available[i].of
                                        /\ left[j].redundancy = RedundantAfter(available[i], p)
      BY <2>5
    <3>2. available[i] \in EntriesOf(D)  BY <2>2
    <3>3. available[i].of \in D  BY <3>2 DEF EntriesOf
    <3>4. Redundancy(available[i].of, done \cup {p})
            = Larger(Redundancy(available[i].of, done), Similarity[available[i].of.text, p.text])
      <4>. DEFINE q == available[i].of
      <4>1. q \in D  BY <3>3
      <4>. HIDE DEF q
      <4>2. Redundancy(q, done \cup {p}) = Larger(Redundancy(q, done), Similarity[q.text, p.text])
        <5>1. GrowsBy(q, done, p)  BY <2>6, <2>7, <4>1, RedundancyGrows
        <5>. QED BY <5>1 DEF GrowsBy
      <4>. QED BY <4>2 DEF q
    <3>. QED BY <2>3, <2>7, <3>1, <3>4 DEF RedundantAfter
  <2>10. ASSUME NEW d \in Range(candidates)
         PROVE  d \in Range(now) \/ \E j \in DOMAIN left : left[j].of = d
    BY <2>3, <2>5, <2>7 DEF p
  <2>. DEFINE N == Len(selected)
  <2>11. /\ N \in Nat /\ DOMAIN selected = 1 .. N /\ DOMAIN now = 1 .. N + 1 /\ Len(now) = N + 1
         /\ now[N + 1] = p /\ \A m \in 1 .. N : now[m] = selected[m]
    BY <2>2, <2>6 DEF now
  <2>19. Len(now) + Len(left) = Len(candidates)
    <3>1. N + Len(available) = Len(candidates)  BY DEF PickedWell, N, selected, available
    <3>2. Len(available) \in Nat /\ Len(candidates) \in Nat  BY <2>2
    <3>. HIDE DEF N
    <3>. QED BY <2>5, <2>11, <3>1, <3>2
  <2>. HIDE DEF N
  <2>12. Before(now, N + 1) = done
    BY <2>11 DEF Before, done, Range
  <2>13. ASSUME NEW d \in Range(candidates) \ done
         PROVE  Worth(p, done, best) >= Worth(d, done, best)
    <3>1. PICK j \in DOMAIN available : available[j].of = d  BY <2>3
    <3>2. available[j].redundancy = Redundancy(d, done) /\ available[k].redundancy = Redundancy(p, done)
      BY <2>3, <2>4, <3>1 DEF p
    <3>. QED BY <2>4, <3>1, <3>2 DEF BestAt, Worth, p
  <2>14. ASSUME NEW n \in DOMAIN now
         PROVE  \A d \in Range(candidates) \ Before(now, n) :
                  Worth(now[n], Before(now, n), best) >= Worth(d, Before(now, n), best)
    <3>1. CASE n = N + 1  BY <2>11, <2>12, <2>13, <3>1
    <3>2. CASE n # N + 1
      <4>1. n \in DOMAIN selected /\ now[n] = selected[n] /\ n \in 1 .. N  BY <2>11, <3>2
      <4>2. \A m \in 1 .. n - 1 : now[m] = selected[m]  BY <2>11, <4>1
      <4>3. Before(now, n) = Before(selected, n)  BY <4>2 DEF Before
      <4>. QED BY <2>3, <4>1, <4>3 DEF Greedy
    <3>. QED BY <3>1, <3>2
  <2>15. Greedy(now, candidates, best)  BY <2>14 DEF Greedy
  <2>16. next \in Pickings(D)  BY <2>5, <2>7 DEF Pickings
  <2>17. next.selected = now /\ next.available = left  OBVIOUS
  <2>. HIDE DEF next
  <2>18. PickedWell(next, D, candidates, best)
    BY <2>8, <2>9, <2>10, <2>15, <2>16, <2>17, <2>19 DEF PickedWell
  <2>. QED BY <2>1, <2>18
<1>. QED BY <1>1, <1>2

\* The picks of a number of rounds.
LEMMA PicksAreWell ==
  ASSUME NEW D, Plannable(D), NEW candidates \in Seq(D), NEW limit \in Nat
  PROVE  \E state : /\ PickedWell(state, D, candidates, BestScore(candidates))
                    /\ DiversifyCandidates(candidates, limit) = state.selected
                    /\ state.available = <<>> \/ Len(state.selected) = limit
<1>. DEFINE best == BestScore(candidates)
            start == NothingPicked(candidates)
            rounds == [n \in 1 .. limit |-> n]
            S == {state \in Pickings(D) : PickedWell(state, D, candidates, best)}
            step == [n \in 1 .. limit |-> [state \in S |-> PickOne(state, best)]]
            after == CHOOSE f : f = [n \in 0 .. limit |-> IF n = 0 THEN start
                                                          ELSE PickOne(f[n - 1], best)]
<1>1. best \in Nat  BY BestScoreIsNumber
<1>2. start \in S
  <2>1. PickedWell(start, D, candidates, best)
    <3>. HIDE DEF best
    <3>. QED BY <1>1, NothingPickedWell
  <2>2. start \in Pickings(D)  BY <2>1 DEF PickedWell
  <2>. QED BY <2>1, <2>2
<1>. HIDE DEF best, start
<1>3. ASSUME NEW state \in S  PROVE PickOne(state, best) \in S
  <2>1. PickedWell(state, D, candidates, best)  OBVIOUS
  <2>2. PickedWell(PickOne(state, best), D, candidates, best)  BY <1>1, <2>1, PickedMoreWell
  <2>3. PickOne(state, best) \in Pickings(D)  BY <2>2 DEF PickedWell
  <2>. QED BY <2>2, <2>3
<1>. HIDE DEF S
<1>4. step \in [1 .. limit -> [S -> S]]  BY <1>3
<1>5. \E f \in [0 .. limit -> S] : Run(f, limit, start, step)
  <2>. HIDE DEF step
  <2>. QED BY <1>2, <1>4, Iteration
<1>6. PICK f \in [0 .. limit -> S] : f[0] = start /\ \A n \in 1 .. limit : f[n] = step[n][f[n - 1]]
  BY <1>5 DEF Run
<1>7. ASSUME NEW n \in 1 .. limit  PROVE f[n] = PickOne(f[n - 1], best)
  <2>1. n - 1 \in 0 .. limit  OBVIOUS
  <2>2. f[n - 1] \in S  BY <2>1
  <2>3. step[n][f[n - 1]] = PickOne(f[n - 1], best)  BY <2>2 DEF step
  <2>. QED BY <1>6, <2>3
<1>8. f = [n \in 0 .. limit |-> IF n = 0 THEN start ELSE PickOne(f[n - 1], best)]
  BY <1>6, <1>7
<1>9. after = [n \in 0 .. limit |-> IF n = 0 THEN start ELSE PickOne(after[n - 1], best)]
  BY <1>8
<1>10. Len(rounds) = limit  BY FunctionIsSequence
<1>11. DiversifyCandidates(candidates, limit) = after[limit].selected
  <2>. DEFINE run == Through(LAMBDA state, n : PickOne(state, best), start, rounds)
  <2>1. DiversifyCandidates(candidates, limit) = run.selected
    BY DEF DiversifyCandidates, best, start, NothingPicked
  <2>2. run = after[limit]
    <3>. HIDE DEF rounds
    <3>. QED BY <1>10 DEF Through
  <2>. QED BY <2>1, <2>2
<1>12. ASSUME NEW n \in 1 .. limit, after[n - 1] = f[n - 1]  PROVE after[n] = f[n]
  <2>1. after[n] = PickOne(after[n - 1], best)
    <3>. HIDE DEF after
    <3>. QED BY <1>9
  <2>. HIDE DEF after
  <2>. QED BY <1>7, <1>12, <2>1
<1>13. after[limit] = f[limit]
  <2>1. after[0] = f[0]
    <3>. HIDE DEF after
    <3>. QED BY <1>6, <1>9
  <2>. HIDE DEF after
  <2>. QED BY <1>12, <2>1, SameValues
<1>. HIDE DEF after
<1>14. f[limit] \in S  OBVIOUS
<1>15. PickedWell(f[limit], D, candidates, best)  BY <1>14 DEF S
<1>16. f[limit].available = <<>> \/ Len(f[limit].selected) = limit
  <2>. DEFINE Counted(n) == f[n].available = <<>> \/ Len(f[n].selected) = n
              T == {n \in 0 .. limit : Counted(n)}
  <2>1. Counted(0)
    <3>1. f[0].selected = <<>>  BY <1>6 DEF start, NothingPicked
    <3>. QED BY <3>1
  <2>2. ASSUME NEW n \in 0 .. limit - 1, Counted(n)  PROVE Counted(n + 1)
    <3>1. n + 1 \in 1 .. limit /\ n \in 0 .. limit /\ (n + 1) - 1 = n  OBVIOUS
    <3>2. f[n + 1] = PickOne(f[n], best)  BY <1>7, <3>1
    <3>3. f[n] \in S  BY <3>1
    <3>4. f[n] \in Pickings(D)  BY <3>3 DEF S
    <3>5. CASE f[n].available = <<>>  BY <3>2, <3>5 DEF PickOne
    <3>6. CASE f[n].available # <<>>
      <4>1. PICK p : PickOne(f[n], best).selected = Append(f[n].selected, p)
        BY <3>6 DEF PickOne
      <4>2. f[n].selected \in Seq(D)  BY <3>4 DEF Pickings
      <4>3. Len(f[n].selected) = n  BY <2>2, <3>6
      <4>4. Len(f[n + 1].selected) = n + 1  BY <3>2, <4>1, <4>2, <4>3
      <4>. QED BY <4>4
    <3>. QED BY <3>5, <3>6
  <2>. HIDE DEF Counted
  <2>3. 0 \in T /\ \A n \in 0 .. limit - 1 : n \in T => n + 1 \in T  BY <2>1, <2>2
  <2>4. 0 .. limit \subseteq T
    <3>. HIDE DEF T
    <3>. QED BY <2>3, Inductive
  <2>. QED BY <2>4 DEF Counted
<1>. QED BY <1>11, <1>13, <1>15, <1>16 DEF best

\* The picks are candidates, as many as asked for or all of them, and each is the
\* best of those left.
LEMMA DiversifiedPicks ==
  ASSUME NEW D, Plannable(D), NEW candidates \in Seq(D), NEW limit \in Nat
  PROVE  LET picks == DiversifyCandidates(candidates, limit)
         IN  /\ picks \in Seq(D) /\ Range(picks) \subseteq Range(candidates)
             /\ Greedy(picks, candidates, BestScore(candidates))
             /\ \/ Range(candidates) \subseteq Range(picks)
                \/ Len(picks) = limit /\ limit # Len(candidates)
<1>. DEFINE picks == DiversifyCandidates(candidates, limit)
<1>1. PICK state : /\ PickedWell(state, D, candidates, BestScore(candidates))
                   /\ picks = state.selected
                   /\ state.available = <<>> \/ Len(state.selected) = limit
  BY PicksAreWell
<1>. HIDE DEF picks
<1>2. picks \in Seq(D) /\ state.available \in Seq(EntriesOf(D))
  BY <1>1 DEF PickedWell, Pickings
<1>3. CASE state.available = <<>>
  <2>1. DOMAIN state.available = {}  BY <1>3
  <2>2. Range(candidates) \subseteq Range(picks)  BY <1>1, <2>1 DEF PickedWell
  <2>. QED BY <1>1, <1>2, <2>2 DEF PickedWell, picks
<1>4. CASE state.available # <<>>
  <2>1. Len(picks) = limit /\ Len(picks) + Len(state.available) = Len(candidates)
    BY <1>1, <1>4 DEF PickedWell
  <2>2. Len(state.available) \in Nat \ {0}  BY <1>2, <1>4
  <2>3. limit # Len(candidates)  BY <2>1, <2>2
  <2>. QED BY <1>1, <1>2, <2>1, <2>3 DEF PickedWell, picks
<1>. QED BY <1>3, <1>4

----------------------------------------------------------------------------
(* Merging and expansion *)

FoundIn(D) == [id : D, text : Texts, ns : Namespaces, score : Nat]

LEMMA FoundIsPlannable ==
  ASSUME NEW D  PROVE Plannable(FoundIn(D))
BY DEF Plannable, FoundIn

LEMMA FoundInsideItsIds ==
  ASSUME NEW D, NEW seq
  PROVE  seq \in Seq(FoundIn(D)) => IdsOf(seq) \subseteq D
<1>. SUFFICES ASSUME seq \in Seq(FoundIn(D)), NEW i \in IdsOf(seq)  PROVE i \in D
  OBVIOUS
<1>1. PICK k \in DOMAIN seq : i = seq[k].id  BY DEF IdsOf
<1>2. seq[k] \in FoundIn(D)  OBVIOUS
<1>. QED BY <1>1, <1>2 DEF FoundIn

LEMMA IdsKeepFoundInside ==
  ASSUME NEW D, NEW seq \in Seq(Found), IdsOf(seq) \subseteq D
  PROVE  seq \in Seq(FoundIn(D))
<1>1. ASSUME NEW k \in 1 .. Len(seq)  PROVE seq[k] \in FoundIn(D)
  <2>1. seq[k] \in Found /\ k \in DOMAIN seq  OBVIOUS
  <2>2. seq[k].id \in D  BY <2>1 DEF IdsOf
  <2>. QED BY <2>1, <2>2 DEF Found, FoundIn
<1>2. seq = [k \in 1 .. Len(seq) |-> seq[k]] /\ Len(seq) \in Nat  OBVIOUS
<1>3. seq \in [1 .. Len(seq) -> FoundIn(D)]
  BY <1>1, <1>2
<1>. QED BY <1>2, <1>3, FunctionIsSequence

MergedIn(D) == Seq([atom : FoundIn(D), hits : Nat \ {0}])

LEMMA MergeOneKeeps ==
  ASSUME NEW D, NEW merged \in MergedIn(D), NEW atom \in FoundIn(D)
  PROVE  MergeOne(merged, atom) \in MergedIn(D)
<1>. DEFINE M == [atom : FoundIn(D), hits : Nat \ {0}]
            more == [k \in DOMAIN merged |->
                       IF merged[k].atom.id # atom.id THEN merged[k]
                       ELSE [hits |-> merged[k].hits + 1,
                             atom |-> IF atom.score > merged[k].atom.score THEN atom
                                      ELSE merged[k].atom]]
<1>1. merged \in Seq(M) /\ Len(merged) \in Nat /\ DOMAIN merged = 1 .. Len(merged)
  BY DEF MergedIn
<1>2. [atom |-> atom, hits |-> 1] \in M  OBVIOUS
<1>3. more \in [1 .. Len(merged) -> M]
  <2>1. ASSUME NEW k \in 1 .. Len(merged)  PROVE more[k] \in M
    <3>1. merged[k] \in M
      <4>. HIDE DEF M
      <4>. QED BY <1>1
    <3>2. merged[k].hits + 1 \in Nat \ {0} /\ merged[k].atom \in FoundIn(D)  BY <3>1
    <3>. QED BY <1>1, <3>1, <3>2
  <2>2. more = [k \in 1 .. Len(merged) |-> more[k]]  BY <1>1
  <2>. HIDE DEF more, M
  <2>. QED BY <2>1, <2>2
<1>4. more \in Seq(M)
  <2>. HIDE DEF more, M
  <2>. QED BY <1>1, <1>3, FunctionIsSequence
<1>5. Append(merged, [atom |-> atom, hits |-> 1]) \in Seq(M)
  <2>. HIDE DEF M
  <2>. QED BY <1>1, <1>2
<1>. QED BY <1>4, <1>5 DEF MergeOne, MergedIn

\* The results of one search join those of others.
LEMMA MergingOneSearch ==
  ASSUME NEW D, NEW all \in MergedIn(D), NEW found \in Seq(FoundIn(D))
  PROVE  Through(MergeOne, all, found) \in MergedIn(D)
<1>. DEFINE N == Len(found)
            step == [n \in 1 .. N |-> [x \in MergedIn(D) |-> MergeOne(x, found[n])]]
            after == CHOOSE f : f = [n \in 0 .. N |-> IF n = 0 THEN all
                                                      ELSE MergeOne(f[n - 1], found[n])]
<1>1. N \in Nat /\ all \in MergedIn(D)  OBVIOUS
<1>2. ASSUME NEW n \in 1 .. N, NEW x \in MergedIn(D)  PROVE MergeOne(x, found[n]) \in MergedIn(D)
  <2>1. found[n] \in FoundIn(D)  OBVIOUS
  <2>. QED BY <2>1, MergeOneKeeps
<1>3. step \in [1 .. N -> [MergedIn(D) -> MergedIn(D)]]
  <2>. HIDE DEF N
  <2>. QED BY <1>2
<1>4. \E f \in [0 .. N -> MergedIn(D)] : Run(f, N, all, step)
  <2>. HIDE DEF step, N
  <2>. QED BY <1>1, <1>3, Iteration
<1>5. PICK f \in [0 .. N -> MergedIn(D)] : f[0] = all /\ \A n \in 1 .. N : f[n] = step[n][f[n - 1]]
  BY <1>4 DEF Run
<1>. HIDE DEF N
<1>6. ASSUME NEW n \in 1 .. N  PROVE f[n] = MergeOne(f[n - 1], found[n])
  <2>1. n - 1 \in 0 .. N  BY <1>1
  <2>2. f[n - 1] \in MergedIn(D)  BY <2>1
  <2>3. step[n][f[n - 1]] = MergeOne(f[n - 1], found[n])  BY <2>2 DEF step
  <2>. QED BY <1>5, <2>3
<1>7. f = [n \in 0 .. N |-> IF n = 0 THEN all ELSE MergeOne(f[n - 1], found[n])]
  BY <1>5, <1>6
<1>8. after = [n \in 0 .. N |-> IF n = 0 THEN all ELSE MergeOne(after[n - 1], found[n])]
  BY <1>7
<1>9. Through(MergeOne, all, found) = after[N]  BY DEF Through, N
<1>10. ASSUME NEW n \in 1 .. N, after[n - 1] = f[n - 1]  PROVE after[n] = f[n]
  <2>1. after[n] = MergeOne(after[n - 1], found[n])
    <3>. HIDE DEF after
    <3>. QED BY <1>1, <1>8
  <2>. HIDE DEF after
  <2>. QED BY <1>6, <1>10, <2>1
<1>11. after[N] = f[N]
  <2>1. after[0] = f[0]
    <3>. HIDE DEF after
    <3>. QED BY <1>1, <1>5, <1>8
  <2>. HIDE DEF after
  <2>. QED BY <1>1, <1>10, <2>1, SameValues
<1>. HIDE DEF after
<1>12. f[N] \in MergedIn(D)  BY <1>1, <1>5
<1>. QED BY <1>9, <1>11, <1>12

\* The results of all searches.
LEMMA MergingSearches ==
  ASSUME NEW D, NEW results \in Seq(Seq(FoundIn(D)))
  PROVE  AllMerged(results) \in MergedIn(D)
<1>. DEFINE N == Len(results)
            step == [n \in 1 .. N |-> [x \in MergedIn(D) |-> Through(MergeOne, x, results[n])]]
            after == CHOOSE f : f = [n \in 0 .. N |-> IF n = 0 THEN <<>>
                                                      ELSE Through(MergeOne, f[n - 1], results[n])]
<1>1. N \in Nat /\ <<>> \in MergedIn(D)  BY DEF MergedIn
<1>2. ASSUME NEW n \in 1 .. N, NEW x \in MergedIn(D)  PROVE Through(MergeOne, x, results[n]) \in MergedIn(D)
  <2>1. results[n] \in Seq(FoundIn(D))  OBVIOUS
  <2>. QED BY <2>1, MergingOneSearch
<1>3. step \in [1 .. N -> [MergedIn(D) -> MergedIn(D)]]
  <2>. HIDE DEF N
  <2>. QED BY <1>2
<1>4. \E f \in [0 .. N -> MergedIn(D)] : Run(f, N, <<>>, step)
  <2>. HIDE DEF step, N
  <2>. QED BY <1>1, <1>3, Iteration
<1>5. PICK f \in [0 .. N -> MergedIn(D)] : f[0] = <<>> /\ \A n \in 1 .. N : f[n] = step[n][f[n - 1]]
  BY <1>4 DEF Run
<1>. HIDE DEF N
<1>6. ASSUME NEW n \in 1 .. N  PROVE f[n] = Through(MergeOne, f[n - 1], results[n])
  <2>1. n - 1 \in 0 .. N  BY <1>1
  <2>2. f[n - 1] \in MergedIn(D)  BY <2>1
  <2>3. step[n][f[n - 1]] = Through(MergeOne, f[n - 1], results[n])  BY <2>2 DEF step
  <2>. QED BY <1>5, <2>3
<1>7. f = [n \in 0 .. N |-> IF n = 0 THEN <<>> ELSE Through(MergeOne, f[n - 1], results[n])]
  <2>. DEFINE After(n) == IF n = 0 THEN <<>> ELSE Through(MergeOne, f[n - 1], results[n])
  <2>1. ASSUME NEW n \in 0 .. N  PROVE f[n] = After(n)
    <3>1. CASE n = 0  BY <1>5, <3>1
    <3>2. CASE n # 0
      <4>1. n \in 1 .. N  BY <1>1, <3>2
      <4>. QED BY <1>6, <3>2, <4>1
    <3>. QED BY <3>1, <3>2
  <2>2. f = [n \in 0 .. N |-> f[n]]  BY <1>5
  <2>. HIDE DEF After
  <2>3. f = [n \in 0 .. N |-> After(n)]  BY <2>1, <2>2
  <2>. QED BY <2>3 DEF After
<1>8. after = [n \in 0 .. N |-> IF n = 0 THEN <<>> ELSE Through(MergeOne, after[n - 1], results[n])]
  BY <1>7
<1>9. AllMerged(results) = after[N]  BY DEF AllMerged, Through, N
<1>10. ASSUME NEW n \in 1 .. N, after[n - 1] = f[n - 1]  PROVE after[n] = f[n]
  <2>1. after[n] = Through(MergeOne, after[n - 1], results[n])
    <3>. HIDE DEF after
    <3>. QED BY <1>1, <1>8
  <2>. HIDE DEF after
  <2>. QED BY <1>6, <1>10, <2>1
<1>11. after[N] = f[N]
  <2>1. after[0] = f[0]
    <3>1. 0 \in 0 .. N  BY <1>1
    <3>2. after[0] = <<>>
      <4>. HIDE DEF after
      <4>. QED BY <1>8, <3>1
    <3>. QED BY <1>5, <3>2
  <2>. HIDE DEF after
  <2>. QED BY <1>1, <1>10, <2>1, SameValues
<1>. HIDE DEF after
<1>12. f[N] \in MergedIn(D)
  <2>1. N \in 0 .. N  BY <1>1
  <2>. QED BY <1>5, <2>1
<1>. QED BY <1>9, <1>11, <1>12

LEMMA MergeResultsKeeps ==
  ASSUME NEW D, NEW results \in Seq(Seq(FoundIn(D)))
  PROVE  MergeResults(results) \in Seq(FoundIn(D))
<1>. DEFINE merged == AllMerged(results)
            M == [atom : FoundIn(D), hits : Nat \ {0}]
            final == [k \in DOMAIN merged |-> [merged[k].atom EXCEPT !.score = @ + Bonus(merged[k].hits)]]
<1>1. merged \in Seq(M)  BY MergingSearches DEF MergedIn
<1>. HIDE DEF merged
<1>2. Len(merged) \in Nat /\ DOMAIN merged = 1 .. Len(merged)  BY <1>1
<1>3. ASSUME NEW k \in 1 .. Len(merged)  PROVE final[k] \in FoundIn(D)
  <2>1. merged[k] \in M
    <3>. HIDE DEF M
    <3>. QED BY <1>1
  <2>2. merged[k].atom \in FoundIn(D) /\ merged[k].hits \in Nat \ {0}  BY <2>1
  <2>3. Bonus(merged[k].hits) \in Nat  BY <2>2 DEF Bonus
  <2>4. merged[k].atom.score + Bonus(merged[k].hits) \in Nat  BY <2>2, <2>3 DEF FoundIn
  <2>. QED BY <1>2, <2>2, <2>4 DEF FoundIn
<1>4. final \in [1 .. Len(merged) -> FoundIn(D)]
  <2>1. final = [k \in 1 .. Len(merged) |-> final[k]]  BY <1>2
  <2>. HIDE DEF final
  <2>. QED BY <1>3, <2>1
<1>5. final \in Seq(FoundIn(D))
  <2>. HIDE DEF final
  <2>. QED BY <1>2, <1>4, FunctionIsSequence
<1>6. MergeResults(results) = final  BY DEF MergeResults, merged
<1>. QED BY <1>5, <1>6

LEMMA JoinOneKeeps ==
  ASSUME NEW D, NEW all \in Seq(FoundIn(D)), NEW atom \in FoundIn(D)
  PROVE  JoinOne(all, atom) \in Seq(FoundIn(D))
BY DEF JoinOne

\* Related atoms join the candidates.
LEMMA JoinKeeps ==
  ASSUME NEW D, NEW candidates \in Seq(FoundIn(D)), NEW related \in Seq(FoundIn(D))
  PROVE  Join(candidates, related) \in Seq(FoundIn(D))
<1>. DEFINE N == Len(related)
            step == [n \in 1 .. N |-> [x \in Seq(FoundIn(D)) |-> JoinOne(x, related[n])]]
            after == CHOOSE f : f = [n \in 0 .. N |-> IF n = 0 THEN candidates
                                                      ELSE JoinOne(f[n - 1], related[n])]
<1>1. N \in Nat /\ candidates \in Seq(FoundIn(D))  OBVIOUS
<1>2. ASSUME NEW n \in 1 .. N, NEW x \in Seq(FoundIn(D))  PROVE JoinOne(x, related[n]) \in Seq(FoundIn(D))
  <2>1. related[n] \in FoundIn(D)  OBVIOUS
  <2>. QED BY <2>1, JoinOneKeeps
<1>3. step \in [1 .. N -> [Seq(FoundIn(D)) -> Seq(FoundIn(D))]]
  <2>. HIDE DEF N
  <2>. QED BY <1>2
<1>4. \E f \in [0 .. N -> Seq(FoundIn(D))] : Run(f, N, candidates, step)
  <2>. HIDE DEF step, N
  <2>. QED BY <1>1, <1>3, Iteration
<1>5. PICK f \in [0 .. N -> Seq(FoundIn(D))] : f[0] = candidates /\ \A n \in 1 .. N : f[n] = step[n][f[n - 1]]
  BY <1>4 DEF Run
<1>. HIDE DEF N
<1>6. ASSUME NEW n \in 1 .. N  PROVE f[n] = JoinOne(f[n - 1], related[n])
  <2>1. n - 1 \in 0 .. N  BY <1>1
  <2>2. f[n - 1] \in Seq(FoundIn(D))  BY <2>1
  <2>3. step[n][f[n - 1]] = JoinOne(f[n - 1], related[n])  BY <2>2 DEF step
  <2>. QED BY <1>5, <2>3
<1>7. f = [n \in 0 .. N |-> IF n = 0 THEN candidates ELSE JoinOne(f[n - 1], related[n])]
  BY <1>5, <1>6
<1>8. after = [n \in 0 .. N |-> IF n = 0 THEN candidates ELSE JoinOne(after[n - 1], related[n])]
  BY <1>7
<1>9. Join(candidates, related) = after[N]  BY DEF Join, Through, N
<1>10. ASSUME NEW n \in 1 .. N, after[n - 1] = f[n - 1]  PROVE after[n] = f[n]
  <2>1. after[n] = JoinOne(after[n - 1], related[n])
    <3>. HIDE DEF after
    <3>. QED BY <1>1, <1>8
  <2>. HIDE DEF after
  <2>. QED BY <1>6, <1>10, <2>1
<1>11. after[N] = f[N]
  <2>1. after[0] = f[0]
    <3>. HIDE DEF after
    <3>. QED BY <1>1, <1>5, <1>8
  <2>. HIDE DEF after
  <2>. QED BY <1>1, <1>10, <2>1, SameValues
<1>. HIDE DEF after
<1>12. f[N] \in Seq(FoundIn(D))  BY <1>1, <1>5
<1>. QED BY <1>9, <1>11, <1>12

\* The atoms of D are related only to atoms of D: those that may join one.
ClosedUnderJoining(D) ==
  D \subseteq Ids /\ \A i \in D, j \in Ids : MayJoin(j, i) => j \in D

LEMMA FoundThroughKeeps ==
  ASSUME TypeOK, NEW D, ClosedUnderJoining(D), NEW found \in Seq(FoundIn(D)),
         NEW k \in JoiningRelations(IdsOf(found))
  PROVE  FoundThrough(Relations[k], found) \in FoundIn(D)
<1>. DEFINE r == Relations[k]
            ids == IdsOf(found)
            seed == SeedOf(r, ids)
            neighbor == NeighborOf(r, ids)
            first == CHOOSE f \in Range(found) : f.id = seed
            score == (first.score * r.weight * 72) \div 10000
<1>1. k \in RankedRelations(ids) /\ MayJoin(neighbor, seed)  BY DEF JoiningRelations
<1>2. k \in DOMAIN Relations /\ {r.from, r.to} \cap ids # {}  BY <1>1 DEF RankedRelations
<1>3. r \in [from : Ids, to : Ids, weight : 0 .. 100]
  <2>. DEFINE R == [from : Ids, to : Ids, weight : 0 .. 100]
  <2>1. Relations \in Seq(R)  BY RelationAssumption
  <2>. HIDE DEF R
  <2>2. Relations[k] \in R  BY <1>2, <2>1
  <2>. QED BY <2>2 DEF R
<1>. HIDE DEF r
<1>4. seed \in ids /\ neighbor \in Ids  BY <1>2, <1>3 DEF SeedOf, NeighborOf
<1>. HIDE DEF seed, neighbor
<1>5. ids \subseteq D  BY FoundInsideItsIds
<1>6. neighbor \in D  BY <1>1, <1>4, <1>5 DEF ClosedUnderJoining
<1>7. \E f \in Range(found) : f.id = seed  BY <1>4 DEF IdsOf, Range
<1>8. first \in Range(found)  BY <1>7
<1>. HIDE DEF first
<1>9. first.score \in Nat
  <2>1. PICK j \in DOMAIN found : first = found[j]  BY <1>8 DEF Range
  <2>2. found[j] \in FoundIn(D)  OBVIOUS
  <2>. QED BY <2>1, <2>2 DEF FoundIn
<1>10. score \in Nat
  <2>1. \A m, n \in Nat : m * n \in Nat  OBVIOUS
  <2>2. first.score * r.weight \in Nat
    <3>1. r.weight \in 0 .. 100 /\ \A m \in 0 .. 100 : m \in Nat  BY <1>3
    <3>2. r.weight \in Nat  BY <3>1, Zenon
    <3>. QED BY <1>9, <2>1, <3>2, Zenon
  <2>3. \A n \in Nat : (n * 72) \div 10000 \in Nat  OBVIOUS
  <2>. DEFINE m == first.score * r.weight
  <2>4. (m * 72) \div 10000 \in Nat
    <3>1. m \in Nat  BY <2>2
    <3>. HIDE DEF m
    <3>. QED BY <2>3, <3>1
  <2>. QED BY <2>4 DEF score
<1>. HIDE DEF score
<1>11. TextOf[neighbor] \in Texts /\ atoms[neighbor].ns \in Namespaces
  BY <1>4, AtomAssumption DEF TypeOK, Rows
<1>12. FoundThrough(r, found)
         = [id |-> neighbor, text |-> TextOf[neighbor], ns |-> atoms[neighbor].ns, score |-> score]
  BY DEF FoundThrough, ids, seed, neighbor, first, score
<1>. QED BY <1>6, <1>10, <1>11, <1>12 DEF FoundIn, r

\* What is found through the relations.
LEMMA RelatedKeeps ==
  ASSUME TypeOK, NEW D, ClosedUnderJoining(D), NEW found \in Seq(FoundIn(D))
  PROVE  Related(found) \in Seq(FoundIn(D))
<1>. DEFINE Joining == JoiningRelations(IdsOf(found))
            Order == [k \in DOMAIN Relations |-> k]
            More(rows, n) == IF Order[n] \in Joining
                             THEN Append(rows, FoundThrough(Relations[Order[n]], found)) ELSE rows
<1>. HIDE DEF Joining, Order, More
<1>. DEFINE N == Len(Order)
            step == [n \in 1 .. N |-> [x \in Seq(FoundIn(D)) |-> More(x, n)]]
            after == CHOOSE f : f = [n \in 0 .. N |-> IF n = 0 THEN <<>>
                                                      ELSE More(f[n - 1], n)]
<1>1. N \in Nat /\ <<>> \in Seq(FoundIn(D))  
  <2>1. Order \in [1 .. Len(Relations) -> Nat] /\ Len(Relations) \in Nat
    BY RelationAssumption DEF Order
  <2>2. Len(Order) \in Nat  BY <2>1, FunctionIsSequence
  <2>. QED BY <2>2
<1>2. ASSUME NEW n \in 1 .. N, NEW x \in Seq(FoundIn(D))  PROVE More(x, n) \in Seq(FoundIn(D))
  <2>1. CASE Order[n] \in Joining
    <3>1. FoundThrough(Relations[Order[n]], found) \in FoundIn(D)
      BY <2>1, FoundThroughKeeps DEF Joining
    <3>. QED BY <2>1, <3>1 DEF More
  <2>. QED BY <2>1 DEF More
<1>3. step \in [1 .. N -> [Seq(FoundIn(D)) -> Seq(FoundIn(D))]]
  <2>. HIDE DEF N
  <2>. QED BY <1>2
<1>4. \E f \in [0 .. N -> Seq(FoundIn(D))] : Run(f, N, <<>>, step)
  <2>. HIDE DEF step, N
  <2>. QED BY <1>1, <1>3, Iteration
<1>5. PICK f \in [0 .. N -> Seq(FoundIn(D))] : f[0] = <<>> /\ \A n \in 1 .. N : f[n] = step[n][f[n - 1]]
  BY <1>4 DEF Run
<1>. HIDE DEF N
<1>6. ASSUME NEW n \in 1 .. N  PROVE f[n] = More(f[n - 1], n)
  <2>1. n - 1 \in 0 .. N  BY <1>1
  <2>2. f[n - 1] \in Seq(FoundIn(D))  BY <2>1
  <2>3. step[n][f[n - 1]] = More(f[n - 1], n)  BY <2>2 DEF step
  <2>. QED BY <1>5, <2>3
<1>7. f = [n \in 0 .. N |-> IF n = 0 THEN <<>> ELSE More(f[n - 1], n)]
  BY <1>5, <1>6
<1>8. after = [n \in 0 .. N |-> IF n = 0 THEN <<>> ELSE More(after[n - 1], n)]
  BY <1>7
<1>9. Related(found) = after[N]  BY DEF Related, Through, Joining, Order, More, N
<1>10. ASSUME NEW n \in 1 .. N, after[n - 1] = f[n - 1]  PROVE after[n] = f[n]
  <2>1. after[n] = More(after[n - 1], n)
    <3>. HIDE DEF after
    <3>. QED BY <1>1, <1>8
  <2>. HIDE DEF after
  <2>. QED BY <1>6, <1>10, <2>1
<1>11. after[N] = f[N]
  <2>1. after[0] = f[0]
    <3>. HIDE DEF after
    <3>. QED BY <1>1, <1>5, <1>8
  <2>. HIDE DEF after
  <2>. QED BY <1>1, <1>10, <2>1, SameValues
<1>. HIDE DEF after
<1>12. f[N] \in Seq(FoundIn(D))  BY <1>1, <1>5
<1>. QED BY <1>9, <1>11, <1>12

LEMMA ExpandKeeps ==
  ASSUME TypeOK, NEW D, ClosedUnderJoining(D), NEW candidates \in Seq(FoundIn(D)), NEW limit \in Nat
  PROVE  Expand(candidates, limit) \in Seq(FoundIn(D))
<1>1. DiversifyCandidates(candidates, limit) \in Seq(FoundIn(D))
  BY FoundIsPlannable, DiversifiedPicks
<1>2. Related(DiversifyCandidates(candidates, limit)) \in Seq(FoundIn(D))
  BY <1>1, RelatedKeeps
<1>3. Join(candidates, Related(DiversifyCandidates(candidates, limit))) \in Seq(FoundIn(D))
  BY <1>2, JoinKeeps
<1>. QED BY <1>3 DEF Expand

\* An order has all candidates, or three times as many as asked for.
AllOrCut(order, candidates, budget) ==
  Range(candidates) \subseteq Range(order) \/ Len(order) = 3 * budget.atoms

\* The order of the candidates, and the context that is made of them.
LEMMA ContextOfCandidates ==
  ASSUME NEW D, Plannable(D), NEW candidates \in Seq(D), NEW budget \in Budgets
  PROVE  LET order == Diversified(candidates, budget)
             packed == PackContext(candidates, budget)
         IN  /\ order \in Seq(D)
             /\ Greedy(order, candidates, BestScore(candidates))
             /\ AllOrCut(order, candidates, budget)
             /\ PackedWell(packed, D, budget) /\ SeenBy(packed, order, Len(order), budget)
<1>. DEFINE limit == IF budget.atoms * 3 < Len(candidates) THEN budget.atoms * 3 ELSE Len(candidates)
            order == Diversified(candidates, budget)
<1>1. limit \in Nat  BY DEF Budgets
<1>2. order = DiversifyCandidates(candidates, limit)  BY DEF Diversified
<1>5. limit # Len(candidates) => limit = 3 * budget.atoms  BY DEF Budgets
<1>. HIDE DEF limit, order
<1>3. /\ order \in Seq(D) /\ Greedy(order, candidates, BestScore(candidates))
      /\ \/ Range(candidates) \subseteq Range(order)
         \/ Len(order) = limit /\ limit # Len(candidates)
  BY <1>1, <1>2, DiversifiedPicks
<1>6. AllOrCut(order, candidates, budget)  BY <1>3, <1>5 DEF AllOrCut
<1>4. /\ PackedWell(PackContext(candidates, budget), D, budget)
      /\ SeenBy(PackContext(candidates, budget), order, Len(order), budget)
  BY <1>3, PackedContext DEF order
<1>. QED BY <1>3, <1>4, <1>6 DEF order

LEMMA FoundIsFoundIn == Found = FoundIn(Ids) /\ Contexts = ContextsOf(FoundIn(Ids))
BY DEF Found, FoundIn, Contexts, ContextsOf

LEMMA InputTypes ==
  ASSUME NEW input \in Inputs
  PROVE  /\ input.query \in Queries /\ input.budget \in Budgets /\ input.ns \in Namespaces
         /\ PartsOf[input.query] \in Seq(STRING)
<1>1. PICK q \in Requests, ns \in Namespaces :
        input = [query |-> q[1], budget |-> q[2], ns |-> ns]
  BY DEF Inputs
<1>2. q \in Queries \X Budgets  BY RequestAssumption
<1>3. q[1] \in Queries /\ q[2] \in Budgets  BY <1>2
<1>. QED BY <1>1, <1>3, QueryAssumption

LEMMA LesserNatural ==
  ASSUME NEW m \in Nat, NEW n \in Nat
  PROVE  Min({m, n}) \in Nat
<1>1. \E x \in {m, n} : \A y \in {m, n} : x <= y  OBVIOUS
<1>2. Min({m, n}) \in {m, n}  BY <1>1 DEF Min
<1>. QED BY <1>2

LEMMA OverfetchIsNumber ==
  ASSUME NEW asked \in Nat
  PROVE  Overfetch(asked) \in Nat
<1>. DEFINE atLeast == Max({20, asked * 4})
<1>1. atLeast \in Nat
  <2>1. \E x \in {20, asked * 4} : \A y \in {20, asked * 4} : x >= y  OBVIOUS
  <2>2. atLeast \in {20, asked * 4}  BY <2>1 DEF Max
  <2>. QED BY <2>2
<1>. HIDE DEF atLeast
<1>2. Min({100, atLeast}) \in Nat  BY <1>1, LesserNatural
<1>. QED BY <1>2 DEF Overfetch, atLeast

\* A search finds atoms that are active in its namespace.
LEMMA ResultsAreInside ==
  ASSUME TypeOK, NEW mode \in Modes, NEW q \in Queries, NEW n \in DOMAIN PartsOf[q],
         NEW ns \in Namespaces, NEW limit \in Nat,
         NEW results \in Results(mode, PartsOf[q][n], ns, limit)
  PROVE  results \in Seq(FoundIn(Inside(atoms, ns)))
<1>. DEFINE D == Inside(atoms, ns)
            part == PartsOf[q][n]
            found == {i \in D : Score[mode, part, TextOf[i]] > 0}
            asFound == {[id |-> i, text |-> TextOf[i], ns |-> ns, score |-> Score[mode, part, TextOf[i]]] :
                          i \in found}
<1>1. D \subseteq Ids /\ found \subseteq D  BY DEF Inside
<1>2. asFound \subseteq FoundIn(D)
  <2>. SUFFICES ASSUME NEW i \in found
                PROVE  [id |-> i, text |-> TextOf[i], ns |-> ns, score |-> Score[mode, part, TextOf[i]]]
                         \in FoundIn(D)
    OBVIOUS
  <2>. HIDE DEF found, D
  <2>1. i \in D /\ TextOf[i] \in Texts  BY <1>1, AtomAssumption
  <2>2. Score[mode, part, TextOf[i]] \in Nat  BY <2>1, QueryAssumption
  <2>. QED BY <2>1, <2>2 DEF FoundIn
<1>. DEFINE length == Min({limit, Cardinality(found)})
<1>3. results \in [1 .. length -> asFound]  BY DEF Results
<1>4. length \in Nat
  <2>1. IsFiniteSet(found)
    <3>. HIDE DEF found, D
    <3>. QED BY <1>1, AtomAssumption, FS_Subset
  <2>. HIDE DEF found
  <2>2. Cardinality(found) \in Nat  BY <2>1, FS_CardinalityType
  <2>. QED BY <2>2, LesserNatural
<1>. HIDE DEF found, asFound, D, length
<1>5. results \in [1 .. length -> FoundIn(D)]  BY <1>2, <1>3
<1>6. results \in Seq(FoundIn(D))  BY <1>4, <1>5, FunctionIsSequence
<1>. QED BY <1>6 DEF D

----------------------------------------------------------------------------
(* The invariant *)

\* What a call notes of the table: it misses no atom that is in its namespace,
\* and knows of no other unless one was moved.
Noting(call, rows) ==
  /\ Inside(rows, call.input.ns) \subseteq call.inside
  /\ ~call.moved => \A i \in call.inside : rows[i].ns = call.input.ns

Searching(call) ==
  /\ DOMAIN call.results = DOMAIN PartsOf[call.input.query]
  /\ \A n \in DOMAIN call.results :
       call.results[n] # Pending => IdsOf(call.results[n]) \subseteq call.inside

Recording(call) ==
  /\ call.packed = PackContext(call.candidates, call.input.budget)
  /\ ~call.moved => IdsOf(call.packed.selected) \subseteq call.inside

CallFits(call, rows) ==
  call # Idle => /\ Noting(call, rows)
                 /\ call.op = "search" => Searching(call)
                 /\ call.op = "record" => Recording(call)

RecallInv == TypeOK /\ \A c \in Callers : CallFits(calls[c], atoms)

SearchCalls == [op : {"search"}, input : Inputs, results : Seq(Seq(Found) \cup {Pending}),
                inside : SUBSET Ids, moved : BOOLEAN]
RecordCalls == [op : {"record"}, input : Inputs, candidates : Seq(Found), packed : Contexts,
                inside : SUBSET Ids, moved : BOOLEAN]

\* A call that is not idle searches or records.
LEMMA CallKinds ==
  ASSUME NEW call \in Calls
  PROVE  /\ call.op = "search" => call \in SearchCalls
         /\ call.op = "record" => call \in RecordCalls
         /\ call # Idle => call \in SearchCalls \/ call \in RecordCalls
<1>1. call = Idle \/ call \in SearchCalls \/ call \in RecordCalls
  BY DEF Calls, SearchCalls, RecordCalls
<1>2. Idle.op = "idle"  BY DEF Idle
<1>3. (call \in SearchCalls => call.op = "search") /\ (call \in RecordCalls => call.op = "record")
  BY DEF SearchCalls, RecordCalls
<1>. QED BY <1>1, <1>2, <1>3

LEMMA RecallInit == Init => RecallInv
<1>. SUFFICES ASSUME Init  PROVE RecallInv  OBVIOUS
<1>1. atoms \in [Ids -> Rows] /\ recorded \subseteq Ids  BY DEF Init
<1>2. calls \in [Callers -> Calls]  BY DEF Init, Calls
<1>3. \A c \in Callers : CallFits(calls[c], atoms)  BY DEF Init, CallFits
<1>. QED BY <1>1, <1>2, <1>3 DEF RecallInv, TypeOK

\* A step that changes one call only.
LEMMA OneCallChanges ==
  ASSUME RecallInv, NEW c \in Callers, NEW call \in Calls, CallFits(call, atoms),
         calls' = [calls EXCEPT ![c] = call], atoms' = atoms, recorded' \subseteq Ids
  PROVE  RecallInv'
<1>1. calls' \in [Callers -> Calls] /\ \A d \in Callers : calls'[d] = call \/ calls'[d] = calls[d]
  BY DEF RecallInv, TypeOK
<1>2. TypeOK'  BY <1>1 DEF RecallInv, TypeOK
<1>3. \A d \in Callers : CallFits(calls'[d], atoms')
  BY <1>1 DEF RecallInv
<1>. QED BY <1>2, <1>3 DEF RecallInv

LEMMA IdleFits == Idle \in Calls /\ \A rows : CallFits(Idle, rows)
BY DEF Calls, CallFits

LEMMA RecallBegin ==
  ASSUME RecallInv, NEW c \in Callers, NEW input \in Inputs, Begin(c, input)
  PROVE  RecallInv'
<1>. DEFINE parts == PartsOf[input.query]
            results == [n \in DOMAIN parts |-> Pending]
            call == [op |-> "search", input |-> input, results |-> results,
                     inside |-> Inside(atoms, input.ns), moved |-> FALSE]
<1>1. parts \in Seq(STRING)  BY InputTypes
<1>. HIDE DEF parts
<1>2. DOMAIN parts = 1 .. Len(parts) /\ Len(parts) \in Nat  BY <1>1
<1>3. results \in [1 .. Len(parts) -> Seq(Found) \cup {Pending}]  BY <1>2
<1>4. results \in Seq(Seq(Found) \cup {Pending}) /\ DOMAIN results = DOMAIN parts
  <2>1. DOMAIN results = DOMAIN parts  OBVIOUS
  <2>. HIDE DEF results
  <2>. QED BY <1>2, <1>3, <2>1, FunctionIsSequence
<1>5. \A n \in DOMAIN results : results[n] = Pending  OBVIOUS
<1>. HIDE DEF results
<1>6. Inside(atoms, input.ns) \subseteq Ids
      /\ \A i \in Inside(atoms, input.ns) : atoms[i].ns = input.ns
  BY DEF Inside
<1>7. call \in SearchCalls  BY <1>4, <1>6 DEF SearchCalls
<1>8. call \in Calls  BY <1>7 DEF Calls, SearchCalls
<1>9. Noting(call, atoms) /\ Searching(call)
  BY <1>4, <1>5, <1>6 DEF Noting, Searching, parts
<1>10. CallFits(call, atoms)
  <2>1. call.op = "search"  OBVIOUS
  <2>. HIDE DEF call
  <2>. QED BY <1>9, <2>1 DEF CallFits
<1>11. calls' = [calls EXCEPT ![c] = call] /\ atoms' = atoms /\ recorded' \subseteq Ids
  BY DEF Begin, results, parts, RecallInv, TypeOK
<1>. HIDE DEF call
<1>. QED BY <1>8, <1>10, <1>11, OneCallChanges

LEMMA RecallSearch ==
  ASSUME RecallInv, NEW c \in Callers, NEW mode \in Modes, calls[c].op = "search",
         NEW n \in DOMAIN calls[c].results,
         NEW found \in ResultsOf(calls[c], n, mode),
         Search(c, n, mode, found)
  PROVE  RecallInv'
<1>. DEFINE old == calls[c]
            results == [old.results EXCEPT ![n] = found]
            call == [old EXCEPT !.results = results]
            S == Seq(Found) \cup {Pending}
<1>1. old \in SearchCalls /\ CallFits(old, atoms)
  <2>1. old \in Calls  BY DEF RecallInv, TypeOK
  <2>. QED BY <2>1, CallKinds DEF RecallInv
<1>2. calls' = [calls EXCEPT ![c] = call] /\ atoms' = atoms /\ recorded' \subseteq Ids
  <2>1. calls' = [calls EXCEPT ![c].results[n] = found]  BY DEF Search
  <2>2. UNCHANGED <<atoms, recorded>>  BY DEF Search
  <2>. QED BY <2>1, <2>2 DEF RecallInv, TypeOK
<1>. HIDE DEF old
<1>3. old \in [op : {"search"}, input : Inputs, results : Seq(S), inside : SUBSET Ids, moved : BOOLEAN]
  BY <1>1 DEF SearchCalls
<1>4. old.input \in Inputs /\ old.results \in Seq(S) /\ old.inside \subseteq Ids /\ old.op = "search"
  <2>. HIDE DEF S
  <2>. QED BY <1>3
<1>5. old # Idle /\ Noting(old, atoms) /\ Searching(old)
  <2>1. old # Idle  BY <1>4 DEF Idle
  <2>. QED BY <1>1, <1>4, <2>1 DEF CallFits
<1>6. found \in Seq(FoundIn(Inside(atoms, old.input.ns)))
  <2>1. n \in DOMAIN PartsOf[old.input.query]  BY <1>5 DEF Searching, old
  <2>2. old.input.query \in Queries /\ old.input.ns \in Namespaces  BY <1>4, InputTypes
  <2>. DEFINE limit == Overfetch(old.input.budget.atoms)
  <2>3. limit \in Nat
    <3>1. old.input.budget \in Budgets  BY <1>4, InputTypes
    <3>2. old.input.budget.atoms \in Nat  BY <3>1 DEF Budgets
    <3>. QED BY <3>2, OverfetchIsNumber
  <2>4. found \in Results(mode, PartsOf[old.input.query][n], old.input.ns, limit)
    BY DEF old, ResultsOf
  <2>5. TypeOK  BY DEF RecallInv
  <2>. HIDE DEF limit
  <2>. QED BY <2>1, <2>2, <2>3, <2>4, <2>5, ResultsAreInside
<1>7. IdsOf(found) \subseteq old.inside
  <2>1. IdsOf(found) \subseteq Inside(atoms, old.input.ns)  BY <1>6, FoundInsideItsIds
  <2>. QED BY <1>5, <2>1 DEF Noting
<1>8. found \in Seq(Found)
  <2>1. FoundIn(Inside(atoms, old.input.ns)) \subseteq FoundIn(Ids)  BY DEF Inside, FoundIn
  <2>2. Seq(FoundIn(Inside(atoms, old.input.ns))) \subseteq Seq(FoundIn(Ids))
    <3>. HIDE DEF FoundIn
    <3>. QED BY <2>1
  <2>. QED BY <1>6, <2>2, FoundIsFoundIn
<1>9. results \in Seq(S) /\ DOMAIN results = DOMAIN old.results
  <2>1. found \in S  BY <1>8
  <2>. HIDE DEF S
  <2>2. n \in DOMAIN old.results  BY DEF old
  <2>. QED BY <1>4, <2>1, <2>2
<1>10. call \in SearchCalls
  <2>. HIDE DEF results, S
  <2>1. call \in [op : {"search"}, input : Inputs, results : Seq(S), inside : SUBSET Ids, moved : BOOLEAN]
    BY <1>3, <1>9
  <2>. QED BY <2>1 DEF SearchCalls, S
<1>11. call.results = results /\ call.inside = old.inside /\ call.input = old.input
       /\ call.moved = old.moved /\ call.op = "search"
  <2>. HIDE DEF results
  <2>. QED BY <1>3
<1>12. \A m \in DOMAIN results : results[m] # Pending => IdsOf(results[m]) \subseteq old.inside
  <2>1. n \in DOMAIN old.results  BY DEF old
  <2>. QED BY <1>5, <1>7, <1>9, <2>1 DEF Searching
<1>. HIDE DEF results, call
<1>13. Noting(call, atoms) /\ Searching(call)
  BY <1>5, <1>9, <1>11, <1>12 DEF Noting, Searching
<1>14. CallFits(call, atoms)
  BY <1>11, <1>13 DEF CallFits
<1>15. call \in Calls  BY <1>10 DEF Calls, SearchCalls
<1>. QED BY <1>2, <1>14, <1>15, OneCallChanges

\* The context of what was found among certain atoms, and among those related
\* to them, shows no other atoms.
LEMMA PackedInside ==
  ASSUME TypeOK, NEW D, ClosedUnderJoining(D), NEW results \in Seq(Seq(FoundIn(D))),
         NEW budget \in Budgets
  PROVE  LET candidates == Expand(MergeResults(results), budget.atoms)
             packed == PackContext(candidates, budget)
         IN  candidates \in Seq(FoundIn(D)) /\ packed \in ContextsOf(FoundIn(D))
<1>. DEFINE candidates == Expand(MergeResults(results), budget.atoms)
<1>1. budget.atoms \in Nat  BY DEF Budgets
<1>2. MergeResults(results) \in Seq(FoundIn(D))  BY MergeResultsKeeps
<1>3. candidates \in Seq(FoundIn(D))  BY <1>1, <1>2, ExpandKeeps
<1>. HIDE DEF candidates
<1>4. PackedWell(PackContext(candidates, budget), FoundIn(D), budget)
  BY <1>3, FoundIsPlannable, ContextOfCandidates
<1>. QED BY <1>3, <1>4 DEF PackedWell, candidates

LEMMA RecallPack ==
  ASSUME RecallInv, NEW c \in Callers, Pack(c)
  PROVE  RecallInv'
<1>. DEFINE old == calls[c]
            budget == old.input.budget
            candidates == Expand(MergeResults(old.results), budget.atoms)
            packed == PackContext(candidates, budget)
            call == [op |-> "record", input |-> old.input, candidates |-> candidates,
                     packed |-> packed, inside |-> old.inside, moved |-> old.moved]
<1>1. old.op = "search" /\ \A n \in DOMAIN old.results : old.results[n] # Pending
  BY DEF Pack
<1>2. calls' = [calls EXCEPT ![c] = call] /\ atoms' = atoms /\ recorded' \subseteq Ids
  BY DEF Pack, RecallInv, TypeOK
<1>3. old \in SearchCalls /\ CallFits(old, atoms)
  <2>1. old \in Calls  BY DEF RecallInv, TypeOK
  <2>. QED BY <1>1, <2>1, CallKinds DEF RecallInv
<1>. HIDE DEF old
<1>4. /\ old.input \in Inputs /\ old.inside \subseteq Ids /\ old.moved \in BOOLEAN
      /\ old.results \in Seq(Seq(Found) \cup {Pending})
  BY <1>3 DEF SearchCalls
<1>5. Noting(old, atoms) /\ Searching(old)
  <2>1. old # Idle  BY <1>1 DEF Idle
  <2>. QED BY <1>1, <1>3, <2>1 DEF CallFits
<1>6. budget \in Budgets  BY <1>4, InputTypes
<1>7. ASSUME NEW D, \A n \in DOMAIN old.results : IdsOf(old.results[n]) \subseteq D
      PROVE  old.results \in Seq(Seq(FoundIn(D)))
  <2>. DEFINE N == Len(old.results)
              S == Seq(Found) \cup {Pending}
  <2>1. old.results \in Seq(S)  BY <1>4
  <2>2. N \in Nat /\ DOMAIN old.results = 1 .. N /\ old.results = [n \in 1 .. N |-> old.results[n]]
    <3>. HIDE DEF S
    <3>. QED BY <2>1
  <2>3. ASSUME NEW n \in 1 .. N  PROVE old.results[n] \in Seq(FoundIn(D))
    <3>1. old.results[n] \in S
      <4>. HIDE DEF S
      <4>. QED BY <2>1
    <3>2. old.results[n] \in Seq(Found)  BY <1>1, <2>2, <3>1
    <3>. QED BY <1>7, <2>2, <3>2, IdsKeepFoundInside
  <2>4. old.results \in [1 .. N -> Seq(FoundIn(D))]
    <3>. HIDE DEF N
    <3>. QED BY <2>2, <2>3
  <2>. QED BY <2>2, <2>4, FunctionIsSequence
<1>8. TypeOK  BY DEF RecallInv
<1>9. candidates \in Seq(Found) /\ packed \in Contexts
  <2>1. ASSUME NEW n \in DOMAIN old.results  PROVE IdsOf(old.results[n]) \subseteq Ids
    BY <1>1, <1>4, <1>5 DEF Searching
  <2>2. old.results \in Seq(Seq(FoundIn(Ids)))  BY <1>7, <2>1
  <2>3. ClosedUnderJoining(Ids)  BY DEF ClosedUnderJoining
  <2>. HIDE DEF budget
  <2>. QED BY <1>6, <1>8, <2>2, <2>3, PackedInside, FoundIsFoundIn
<1>10. ASSUME ~old.moved  PROVE IdsOf(packed.selected) \subseteq old.inside
  <2>. DEFINE D == old.inside
  <2>1. ASSUME NEW n \in DOMAIN old.results  PROVE IdsOf(old.results[n]) \subseteq D
    BY <1>1, <1>5 DEF Searching
  <2>2. old.results \in Seq(Seq(FoundIn(D)))
    <3>. HIDE DEF D
    <3>. QED BY <1>7, <2>1
  <2>3. ClosedUnderJoining(D)
    <3>1. D \subseteq Ids  BY <1>4
    <3>2. ASSUME NEW i \in D, NEW j \in Ids, MayJoin(j, i)  PROVE j \in D
      <4>1. atoms[i].ns = old.input.ns  BY <1>5, <1>10 DEF Noting
      <4>2. atoms[j] = [ns |-> old.input.ns, status |-> "active"]
        BY <1>8, <3>2, <4>1 DEF MayJoin, TypeOK, Rows
      <4>3. j \in Inside(atoms, old.input.ns)  BY <4>2 DEF Inside
      <4>. QED BY <1>5, <4>3 DEF Noting
    <3>. QED BY <3>1, <3>2 DEF ClosedUnderJoining
  <2>. HIDE DEF D, budget
  <2>4. packed \in ContextsOf(FoundIn(D))  BY <1>6, <1>8, <2>2, <2>3, PackedInside
  <2>. HIDE DEF packed
  <2>5. packed.selected \in Seq(FoundIn(D))  BY <2>4 DEF ContextsOf
  <2>6. IdsOf(packed.selected) \subseteq D  BY <2>5, FoundInsideItsIds
  <2>. QED BY <2>6 DEF D
<1>. HIDE DEF candidates
<1>11. call.packed = PackContext(call.candidates, call.input.budget)  OBVIOUS
<1>. HIDE DEF packed
<1>12. call \in RecordCalls  BY <1>4, <1>9 DEF RecordCalls
<1>13. /\ call.inside = old.inside /\ call.input = old.input /\ call.moved = old.moved
       /\ call.packed = packed /\ call.op = "record"
  OBVIOUS
<1>. HIDE DEF call
<1>14. Noting(call, atoms)  BY <1>5, <1>13 DEF Noting
<1>15. Recording(call)  BY <1>10, <1>11, <1>13 DEF Recording
<1>16. CallFits(call, atoms)  BY <1>13, <1>14, <1>15 DEF CallFits
<1>17. call \in Calls  BY <1>12 DEF Calls, RecordCalls
<1>. QED BY <1>2, <1>16, <1>17, OneCallChanges

LEMMA RecallEnds ==
  ASSUME RecallInv, NEW c \in Callers, RecordAccess(c) \/ CallEnds(c)
  PROVE  RecallInv'
<1>1. calls' = [calls EXCEPT ![c] = Idle] /\ atoms' = atoms  BY DEF RecordAccess, CallEnds
<1>2. recorded \subseteq Ids  BY DEF RecallInv, TypeOK
<1>3. recorded' \subseteq Ids
  <2>1. CASE CallEnds(c)  BY <1>2, <2>1 DEF CallEnds
  <2>2. CASE RecordAccess(c)
    <3>1. calls[c] \in Calls /\ calls[c].op = "record"
      BY <2>2 DEF RecordAccess, RecallInv, TypeOK
    <3>2. calls[c] \in RecordCalls  BY <3>1, CallKinds
    <3>3. calls[c].packed.selected \in Seq(FoundIn(Ids))
      BY <3>2, FoundIsFoundIn DEF RecordCalls, Contexts
    <3>4. IdsOf(calls[c].packed.selected) \subseteq Ids  BY <3>3, FoundInsideItsIds
    <3>. QED BY <1>2, <2>2, <3>4 DEF RecordAccess
  <2>. QED BY <2>1, <2>2
<1>. QED BY <1>1, <1>3, IdleFits, OneCallChanges

\* Other calls change a row, and every call takes note.
LEMMA RecallNotes ==
  ASSUME RecallInv, NEW moving \in BOOLEAN, atoms' \in [Ids -> Rows],
         moving \/ \A i \in Ids : atoms'[i].ns = atoms[i].ns,
         calls' = Noted(atoms', moving), recorded' = recorded
  PROVE  RecallInv'
<1>. DEFINE noted(call) == [call EXCEPT !.inside = @ \cup Inside(atoms', call.input.ns),
                                        !.moved = @ \/ moving]
<1>1. ASSUME NEW c \in Callers
      PROVE  calls'[c] \in Calls /\ CallFits(calls'[c], atoms')
  <2>. DEFINE old == calls[c]
              call == calls'[c]
              also == Inside(atoms', old.input.ns)
  <2>1. old \in Calls /\ CallFits(old, atoms)  BY DEF RecallInv, TypeOK
  <2>2. call = IF old = Idle THEN Idle ELSE noted(old)  BY DEF Noted
  <2>. HIDE DEF old, call
  <2>3. CASE old = Idle
    <3>1. call = Idle  BY <2>2, <2>3
    <3>. QED BY <3>1, IdleFits DEF call
  <2>4. CASE old # Idle
    <3>1. call = [old EXCEPT !.inside = @ \cup also, !.moved = @ \/ moving]  BY <2>2, <2>4
    <3>2. also \subseteq Ids /\ \A i \in also : atoms'[i].ns = old.input.ns  BY DEF Inside
    <3>3. Noting(old, atoms)  BY <2>1, <2>4 DEF CallFits
    <3>4. old \in SearchCalls \/ old \in RecordCalls  BY <2>1, <2>4, CallKinds
    <3>. HIDE DEF also
    <3>5. old.inside \subseteq Ids /\ old.moved \in BOOLEAN
      BY <3>4 DEF SearchCalls, RecordCalls
    <3>6. /\ call.inside = old.inside \cup also /\ call.moved = (old.moved \/ moving)
          /\ call.input = old.input /\ call.op = old.op
          /\ old \in SearchCalls => call \in SearchCalls /\ call.results = old.results
          /\ old \in RecordCalls => /\ call \in RecordCalls /\ call.packed = old.packed
                                    /\ call.candidates = old.candidates
      <4>1. CASE old \in SearchCalls
        BY <3>1, <3>2, <3>5, <4>1 DEF SearchCalls, RecordCalls
      <4>2. CASE old \in RecordCalls
        BY <3>1, <3>2, <3>5, <4>2 DEF SearchCalls, RecordCalls
      <4>. QED BY <3>4, <4>1, <4>2
    <3>7. call \in Calls  BY <3>4, <3>6 DEF Calls, SearchCalls, RecordCalls
    <3>8. Noting(call, atoms')
      <4>1. ASSUME ~call.moved, NEW i \in call.inside  PROVE atoms'[i].ns = call.input.ns
        <5>1. CASE i \in also  BY <3>2, <3>6, <5>1
        <5>2. CASE i \in old.inside
          <6>1. ~old.moved /\ ~moving  BY <3>6, <4>1
          <6>2. atoms'[i].ns = atoms[i].ns  BY <3>5, <5>2, <6>1
          <6>. QED BY <3>3, <3>6, <5>2, <6>1, <6>2 DEF Noting
        <5>. QED BY <3>6, <4>1, <5>1, <5>2
      <4>2. Inside(atoms', call.input.ns) \subseteq call.inside  BY <3>6 DEF also
      <4>. QED BY <4>1, <4>2 DEF Noting
    <3>9. call.op = "search" => Searching(call)
      <4>. SUFFICES ASSUME call.op = "search"  PROVE Searching(call)  OBVIOUS
      <4>1. old \in SearchCalls /\ Searching(old)
        BY <2>1, <2>4, <3>6, CallKinds DEF CallFits
      <4>. QED BY <3>6, <4>1 DEF Searching
    <3>10. call.op = "record" => Recording(call)
      <4>. SUFFICES ASSUME call.op = "record"  PROVE Recording(call)  OBVIOUS
      <4>1. old \in RecordCalls /\ Recording(old)
        BY <2>1, <2>4, <3>6, CallKinds DEF CallFits
      <4>. QED BY <3>6, <4>1 DEF Recording
    <3>11. CallFits(call, atoms')  BY <3>8, <3>9, <3>10 DEF CallFits
    <3>. QED BY <3>7, <3>11 DEF call
  <2>. QED BY <2>3, <2>4 DEF call
<1>2. calls' = [c \in Callers |-> calls'[c]]  BY DEF Noted
<1>3. calls' \in [Callers -> Calls]  BY <1>1, <1>2
<1>4. TypeOK'  BY <1>3 DEF RecallInv, TypeOK
<1>. QED BY <1>1, <1>4 DEF RecallInv

LEMMA RecallStep == RecallInv /\ [Next]_vars => RecallInv'
<1>. SUFFICES ASSUME RecallInv, [Next]_vars  PROVE RecallInv'
  OBVIOUS
<1>1. CASE UNCHANGED vars
  BY <1>1 DEF vars, RecallInv, TypeOK
<1>2. ASSUME NEW c \in Callers, NEW input \in Inputs, Begin(c, input)  PROVE RecallInv'
  BY <1>2, RecallBegin
<1>3. ASSUME NEW c \in Callers, NEW mode \in Modes, calls[c].op = "search",
             NEW n \in DOMAIN calls[c].results,
             NEW results \in ResultsOf(calls[c], n, mode),
             Search(c, n, mode, results)
      PROVE  RecallInv'
  BY <1>3, RecallSearch
<1>4. ASSUME NEW c \in Callers, Pack(c) \/ RecordAccess(c) \/ CallEnds(c)  PROVE RecallInv'
  BY <1>4, RecallPack, RecallEnds
<1>5. ASSUME NEW i \in Ids, NEW status \in {"active", "retired"}, SetStatus(i, status)
      PROVE  RecallInv'
  <2>1. atoms \in [Ids -> Rows]  BY DEF RecallInv, TypeOK
  <2>2. atoms' = [atoms EXCEPT ![i].status = status]  BY <1>5 DEF SetStatus
  <2>3. atoms[i] \in Rows  BY <2>1
  <2>4. atoms' \in [Ids -> Rows] /\ \A j \in Ids : atoms'[j].ns = atoms[j].ns
    BY <2>1, <2>2, <2>3 DEF Rows
  <2>5. calls' = Noted(atoms', FALSE) /\ recorded' = recorded  BY <1>5 DEF SetStatus
  <2>. QED BY <2>4, <2>5, RecallNotes
<1>6. ASSUME NEW i \in Ids, NEW ns \in Namespaces, Move(i, ns)  PROVE RecallInv'
  <2>1. atoms \in [Ids -> Rows]  BY DEF RecallInv, TypeOK
  <2>2. atoms' = [atoms EXCEPT ![i].ns = ns]  BY <1>6 DEF Move
  <2>3. atoms' \in [Ids -> Rows]  BY <2>1, <2>2 DEF Rows
  <2>4. calls' = Noted(atoms', TRUE) /\ recorded' = recorded  BY <1>6 DEF Move
  <2>. QED BY <2>3, <2>4, RecallNotes
<1>. QED BY <1>1, <1>2, <1>3, <1>4, <1>5, <1>6 DEF Next

LEMMA RecallAlways == Spec => []RecallInv
<1>. QED BY RecallInit, RecallStep, PTL DEF Spec

----------------------------------------------------------------------------
(* Theorems *)

\* The variables have their types in every reachable state (the rows of atoms,
\* and what context holds between its statements).
THEOREM RecallTypes == Spec => []TypeOK
<1>1. RecallInv => TypeOK  BY DEF RecallInv
<1>. QED BY <1>1, RecallAlways, PTL

\* No context shows an atom that was not, at some time of the call, active in
\* the namespace asked for, unless an atom was moved meanwhile (context,
\* contextRelations).
THEOREM OutsidersStayOutHolds == Spec => []OutsidersStayOut
<1>1. RecallInv => OutsidersStayOut
  <2>. SUFFICES ASSUME RecallInv, NEW c \in Callers, Packed(c), ~calls[c].moved
                PROVE  IdsOf(Selected(c)) \subseteq calls[c].inside
    BY DEF OutsidersStayOut
  <2>1. calls[c].op = "record" /\ CallFits(calls[c], atoms)  BY DEF Packed, RecallInv
  <2>2. calls[c] # Idle  BY <2>1 DEF Idle
  <2>. QED BY <2>1, <2>2 DEF CallFits, Recording, Selected
<1>. QED BY <1>1, RecallAlways, PTL

\* The context of a call that records is one of its candidates, which are found atoms.
LEMMA PackedOfCandidates ==
  ASSUME RecallInv, NEW c \in Callers, Packed(c)
  PROVE  LET budget == calls[c].input.budget
             candidates == calls[c].candidates
             order == Diversified(candidates, budget)
         IN  /\ budget \in Budgets /\ order \in Seq(Found)
             /\ Greedy(order, candidates, BestScore(candidates))
             /\ AllOrCut(order, candidates, budget)
             /\ PackedWell(calls[c].packed, Found, budget)
             /\ SeenBy(calls[c].packed, order, Len(order), budget)
<1>. DEFINE call == calls[c]
            budget == call.input.budget
            candidates == call.candidates
            order == Diversified(candidates, budget)
<1>1. call.op = "record" /\ CallFits(call, atoms) /\ call \in Calls
  BY DEF Packed, RecallInv, TypeOK
<1>2. call \in RecordCalls /\ call # Idle  BY <1>1, CallKinds DEF Idle
<1>3. call.packed = PackContext(candidates, budget)  BY <1>1, <1>2 DEF CallFits, Recording
<1>4. candidates \in Seq(Found) /\ call.input \in Inputs  BY <1>2 DEF RecordCalls
<1>5. budget \in Budgets  BY <1>4, InputTypes
<1>6. Plannable(Found)  BY FoundIsPlannable, FoundIsFoundIn
<1>. HIDE DEF budget, candidates
<1>7. /\ order \in Seq(Found)
      /\ Greedy(order, candidates, BestScore(candidates))
      /\ AllOrCut(order, candidates, budget)
      /\ PackedWell(PackContext(candidates, budget), Found, budget)
      /\ SeenBy(PackContext(candidates, budget), order, Len(order), budget)
  BY <1>4, <1>5, <1>6, ContextOfCandidates
<1>. QED BY <1>3, <1>5, <1>7 DEF budget, candidates

\* The text of a context, line breaks included, is within the characters and
\* the estimated tokens asked for, and shows no more atoms than were asked for
\* (packContext).
THEOREM WithinBudgetHolds == Spec => []WithinBudget
<1>1. RecallInv => WithinBudget
  <2>. SUFFICES ASSUME RecallInv, NEW c \in Callers, Packed(c)
                PROVE  LET text == Joined(calls[c].packed.lines)
                           budget == calls[c].input.budget
                       IN  /\ Characters(text) <= budget.characters
                           /\ EstimateTokens(text) <= budget.tokens
                           /\ Len(Selected(c)) <= budget.atoms
    BY DEF WithinBudget
  <2>. DEFINE packed == calls[c].packed
              budget == calls[c].input.budget
              text == Joined(packed.lines)
  <2>1. PackedWell(packed, Found, budget) /\ budget \in Budgets  BY PackedOfCandidates
  <2>. HIDE DEF packed, budget
  <2>2. packed.lines \in Seq(Lines) /\ packed.tokens \in Nat /\ budget.tokens \in Nat
    BY <2>1 DEF PackedWell, ContextsOf, Budgets
  <2>3. EstimateTokens(text) \in Nat
    <3>1. text \in Lines  BY <2>2, JoinedIsLine
    <3>. QED BY <3>1, EstimateIsCeiling
  <2>4. /\ Characters(text) <= budget.characters /\ EstimateTokens(text) <= packed.tokens
        /\ packed.tokens <= budget.tokens /\ Len(packed.selected) <= budget.atoms
    BY <2>1 DEF PackedWell, Fits
  <2>5. EstimateTokens(text) <= budget.tokens  BY <2>2, <2>3, <2>4
  <2>. QED BY <2>4, <2>5 DEF packed, budget, Selected
<1>. QED BY <1>1, RecallAlways, PTL

\* What a context leaves out does not fit what it leaves of its budgets, in
\* full or with its summary, unless it has all the atoms asked for, or three
\* times as many others came before in the order (packContext).
THEOREM NothingElseFitsHolds == Spec => []NothingElseFits
<1>1. RecallInv => NothingElseFits
  <2>. SUFFICES ASSUME RecallInv, NEW c \in Callers, Packed(c)
                PROVE  LET packed == calls[c].packed
                           budget == calls[c].input.budget
                           order == Diversified(calls[c].candidates, budget)
                       IN  \/ Len(packed.selected) = budget.atoms
                           \/ \A candidate \in Range(calls[c].candidates) \ Range(packed.selected) :
                                \/ /\ ~Fits(Extended(packed, FullLine[candidate.text]), budget)
                                   /\ ShortLine[candidate.text] # NoSummary =>
                                        ~Fits(Extended(packed, ShortLine[candidate.text]), budget)
                                \/ candidate \notin Range(order) /\ Len(order) = 3 * budget.atoms
    BY DEF NothingElseFits
  <2>. DEFINE packed == calls[c].packed
              budget == calls[c].input.budget
              candidates == calls[c].candidates
              order == Diversified(candidates, budget)
  <2>1. /\ budget \in Budgets /\ order \in Seq(Found) /\ AllOrCut(order, candidates, budget)
        /\ PackedWell(packed, Found, budget) /\ SeenBy(packed, order, Len(order), budget)
    BY PackedOfCandidates
  <2>. HIDE DEF packed, budget, order, candidates
  <2>2. Len(packed.selected) \in Nat /\ budget.atoms \in Nat /\ Len(packed.selected) <= budget.atoms
    BY <2>1 DEF PackedWell, ContextsOf, Budgets
  <2>3. CASE Len(packed.selected) >= budget.atoms
    <3>1. Len(packed.selected) = budget.atoms  BY <2>2, <2>3
    <3>. QED BY <3>1 DEF packed, budget
  <2>4. CASE ~(Len(packed.selected) >= budget.atoms)
    <3>1. ASSUME NEW candidate \in Range(order) \ Range(packed.selected)
          PROVE  /\ ~Fits(Extended(packed, FullLine[candidate.text]), budget)
                 /\ ShortLine[candidate.text] # NoSummary =>
                      ~Fits(Extended(packed, ShortLine[candidate.text]), budget)
      <4>1. PICK m \in DOMAIN order : candidate = order[m]  BY DEF Range
      <4>2. m \in 1 .. Len(order) /\ candidate \in Found  BY <2>1, <4>1
      <4>3. NoneFits(packed, candidate, budget)  BY <2>1, <2>4, <4>1, <4>2 DEF SeenBy
      <4>4. candidate.text \in Texts  BY <4>2 DEF Found
      <4>. QED BY <4>3, <4>4, LinesOfOne DEF NoneFits
    <3>2. ASSUME NEW candidate \in Range(candidates), candidate \notin Range(order)
          PROVE  Len(order) = 3 * budget.atoms
      BY <2>1, <3>2 DEF AllOrCut
    <3>. QED BY <3>1, <3>2 DEF packed, budget, order, candidates
  <2>. QED BY <2>3, <2>4
<1>. QED BY <1>1, RecallAlways, PTL

\* Each pick is the best of the candidates left, weighing its score against
\* its largest similarity to any pick before it, which the code keeps up to
\* date pick by pick (diversifyCandidates).
THEOREM PicksAreGreedyHolds == Spec => []PicksAreGreedy
<1>1. RecallInv => PicksAreGreedy
  <2>. SUFFICES ASSUME RecallInv, NEW c \in Callers, Packed(c),
                       NEW n \in DOMAIN Diversified(calls[c].candidates, calls[c].input.budget),
                       NEW k \in Range(calls[c].candidates)
                                   \ Before(Diversified(calls[c].candidates, calls[c].input.budget), n)
                PROVE  Worth(Diversified(calls[c].candidates, calls[c].input.budget)[n],
                             Before(Diversified(calls[c].candidates, calls[c].input.budget), n),
                             BestScore(calls[c].candidates))
                         >= Worth(k, Before(Diversified(calls[c].candidates, calls[c].input.budget), n),
                                  BestScore(calls[c].candidates))
    BY DEF PicksAreGreedy, Worth, Before
  <2>1. Greedy(Diversified(calls[c].candidates, calls[c].input.budget), calls[c].candidates,
               BestScore(calls[c].candidates))
    BY PackedOfCandidates
  <2>. QED BY <2>1 DEF Greedy
<1>. QED BY <1>1, RecallAlways, PTL
=============================================================================
