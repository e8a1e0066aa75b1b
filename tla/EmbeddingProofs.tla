--------------------------- MODULE EmbeddingProofs ---------------------------
(***************************************************************************)
(* Theorems about Embedding, for any texts, callers, inputs and settings.  *)
(***************************************************************************)
EXTENDS Embedding, FiniteSetTheorems, SequenceTheorems, WellFoundedInduction, TLAPS

----------------------------------------------------------------------------
(* Loops *)

LEMMA LeastNatural ==
  ASSUME NEW T, T \subseteq Nat, T # {}
  PROVE  \E n \in T : \A m \in T : n <= m
<1>. DEFINE R == OpToRel(<, Nat)
<1>1. IsWellFoundedOn(R, Nat)  BY NatLessThanWellFounded
<1>2. \A m, n \in Nat : <<m, n>> \in R <=> m < n  BY DEF OpToRel
<1>. HIDE DEF R
<1>3. \E n \in T : \A m \in T : ~(<<m, n>> \in R)  BY <1>1, WFMin
<1>4. PICK n \in T : \A m \in T : ~(<<m, n>> \in R)  BY <1>3
<1>5. \A m \in T : n <= m
  <2>. TAKE m \in T
  <2>1. m \in Nat /\ n \in Nat OBVIOUS
  <2>2. ~(m < n)  BY <1>2, <1>4, <2>1
  <2>. QED BY <2>1, <2>2
<1>. QED BY <1>5

LEMMA Inductive ==
  ASSUME NEW N \in Nat, NEW T, 0 \in T, \A n \in 0 .. N - 1 : n \in T => n + 1 \in T
  PROVE  0 .. N \subseteq T
<1>. DEFINE Bad == (0 .. N) \ T
<1>1. SUFFICES ASSUME Bad # {}  PROVE FALSE  OBVIOUS
<1>2. Bad \subseteq Nat OBVIOUS
<1>3. \E n \in Bad : \A m \in Bad : n <= m
  <2>. HIDE DEF Bad
  <2>. QED BY <1>1, <1>2, LeastNatural
<1>4. PICK n \in Bad : \A m \in Bad : n <= m  BY <1>3
<1>5. n # 0 /\ n - 1 \in 0 .. N - 1  BY <1>4
<1>6. n - 1 \in T  BY <1>4, <1>5
<1>. QED BY <1>4, <1>5, <1>6

LEMMA SameValues ==
  ASSUME NEW N \in Nat, NEW f, NEW g, f[0] = g[0],
         \A n \in 1 .. N : f[n - 1] = g[n - 1] => f[n] = g[n]
  PROVE  f[N] = g[N]
<1>. DEFINE T == {n \in 0 .. N : f[n] = g[n]}
<1>1. 0 \in T /\ \A n \in 0 .. N - 1 : n \in T => n + 1 \in T  OBVIOUS
<1>2. 0 .. N \subseteq T
  <2>. HIDE DEF T
  <2>. QED BY <1>1, Inductive
<1>. QED BY <1>2

\* f records what N steps lead to, each taken from where the one before led.
Run(f, N, base, step) == f[0] = base /\ \A n \in 1 .. N : f[n] = step[n][f[n - 1]]

\* A step applied N times has a function that records what it leads to.
LEMMA Iteration ==
  ASSUME NEW S, NEW base \in S, NEW N \in Nat, NEW step \in [1 .. N -> [S -> S]]
  PROVE  \E f \in [0 .. N -> S] : Run(f, N, base, step)
<1>. DEFINE Records(n, f) ==
              /\ f \in [0 .. n -> S] /\ f[0] = base
              /\ \A m \in 1 .. n : f[m] = step[m][f[m - 1]]
            T == {n \in 0 .. N : \E f : Records(n, f)}
<1>1. 0 \in T
  <2>1. Records(0, [m \in 0 .. 0 |-> base])  OBVIOUS
  <2>. HIDE DEF Records
  <2>. QED BY <2>1
<1>2. ASSUME NEW n \in 0 .. N - 1, n \in T  PROVE n + 1 \in T
  <2>1. PICK f : Records(n, f)  BY <1>2
  <2>. DEFINE g == [m \in 0 .. n + 1 |-> IF m = n + 1 THEN step[n + 1][f[n]] ELSE f[m]]
  <2>2. n + 1 \in 1 .. N /\ n \in 0 .. n /\ n \in Nat  OBVIOUS
  <2>3. f \in [0 .. n -> S] BY <2>1
  <2>4. f[n] \in S  BY <2>2, <2>3
  <2>5. step[n + 1][f[n]] \in S  BY <2>2, <2>4
  <2>6. g \in [0 .. n + 1 -> S] /\ g[0] = base  BY <2>1, <2>5
  <2>7. ASSUME NEW m \in 1 .. n + 1  PROVE g[m] = step[m][g[m - 1]]
    BY <2>1
  <2>8. Records(n + 1, g)  BY <2>6, <2>7
  <2>. HIDE DEF Records, g
  <2>. QED BY <2>2, <2>8
<1>3. N \in T
  <2>. HIDE DEF T
  <2>1. 0 .. N \subseteq T BY <1>1, <1>2, Inductive
  <2>. QED BY <2>1
<1>4. PICK f : Records(N, f)  BY <1>3
<1>. QED BY <1>4 DEF Run

----------------------------------------------------------------------------
(* Answers in any order *)

\* A sequence of n different numbers up to n that increase is 1, ..., n.
LEMMA IncreasingIsIdentity ==
  ASSUME NEW m \in Nat, NEW g \in [1 .. m -> 1 .. m],
         \A i, j \in 1 .. m : i < j => g[i] < g[j]
  PROVE  \A i \in 1 .. m : g[i] = i
<1>. DEFINE Up == {k \in 0 .. m : k = 0 \/ g[k] >= k}
            Down == {k \in 0 .. m : k = m \/ g[m - k] <= m - k}
<1>1. 0 .. m \subseteq Up
  <2>1. 0 \in Up  OBVIOUS
  <2>2. ASSUME NEW k \in 0 .. m - 1, k \in Up  PROVE k + 1 \in Up
    <3>1. k + 1 \in 1 .. m /\ g[k + 1] \in 1 .. m  OBVIOUS
    <3>2. CASE k = 0  BY <3>1, <3>2
    <3>3. CASE k # 0
      <4>1. k \in 1 .. m /\ g[k] >= k /\ g[k] \in 1 .. m  BY <2>2, <3>3
      <4>2. g[k] < g[k + 1]  BY <3>1, <4>1
      <4>. QED BY <3>1, <4>1, <4>2
    <3>. QED BY <3>2, <3>3
  <2>. HIDE DEF Up
  <2>. QED BY <2>1, <2>2, Inductive
<1>2. 0 .. m \subseteq Down
  <2>1. 0 \in Down  OBVIOUS
  <2>2. ASSUME NEW k \in 0 .. m - 1, k \in Down  PROVE k + 1 \in Down
    <3>1. CASE k + 1 = m  BY <3>1
    <3>2. CASE k + 1 # m
      <4>1. m - k \in 1 .. m /\ m - (k + 1) \in 1 .. m /\ m - (k + 1) < m - k  BY <3>2
      <4>2. g[m - k] <= m - k  BY <2>2, <3>2
      <4>3. g[m - (k + 1)] < g[m - k]  BY <4>1
      <4>4. g[m - k] \in 1 .. m /\ g[m - (k + 1)] \in 1 .. m  BY <4>1
      <4>. QED BY <4>1, <4>2, <4>3, <4>4
    <3>. QED BY <3>1, <3>2
  <2>. HIDE DEF Down
  <2>. QED BY <2>1, <2>2, Inductive
<1>3. ASSUME NEW i \in 1 .. m  PROVE g[i] = i
  <2>1. g[i] >= i  BY <1>1
  <2>2. m - i \in 0 .. m /\ m - (m - i) = i /\ m - i # m  OBVIOUS
  <2>3. g[i] <= i
    <3>1. m - i \in Down  BY <1>2, <2>2
    <3>2. g[m - (m - i)] <= m - (m - i)  BY <2>2, <3>1
    <3>. QED BY <2>2, <3>2
  <2>. QED BY <2>1, <2>3
<1>. QED BY <1>3

\* Whatever order the provider answers in, sorting by index puts vectors back
\* in the order of the texts.
Ordered(payload, order, m, batch, purpose) ==
  /\ order \in [1 .. m -> 1 .. m]
  /\ \A i, j \in 1 .. m : order[i] = order[j] => i = j
  /\ DOMAIN payload = 1 .. m
  /\ \A i \in 1 .. m : /\ payload[i].index = order[i]
                       /\ payload[i].embedding = <<batch[order[i]], purpose>>

LEMMA ResultsInOrder ==
  ASSUME NEW m \in Nat, NEW batch, NEW purpose, NEW order, NEW payload,
         Ordered(payload, order, m, batch, purpose)
  PROVE  \A i \in 1 .. m : Results(payload)[i] = <<batch[i], purpose>>
<1>. DEFINE P == DOMAIN payload
            Sorts(p) == \A i, j \in P : i < j => payload[p[i]].index < payload[p[j]].index
            sorted == CHOOSE p \in [P -> P] : Sorts(p)
            inverse == [k \in P |-> CHOOSE i \in P : order[i] = k]
<1>1. /\ P = 1 .. m
      /\ order \in [1 .. m -> 1 .. m]
      /\ \A i, j \in 1 .. m : order[i] = order[j] => i = j
      /\ \A i \in 1 .. m : /\ payload[i].index = order[i]
                           /\ payload[i].embedding = <<batch[order[i]], purpose>>
  BY DEF Ordered
<1>. HIDE DEF P
<1>2. \A k \in P : \E i \in P : order[i] = k
  <2>1. order \in Injection(P, P)  BY <1>1 DEF Injection, IsInjective
  <2>2. IsFiniteSet(P) /\ Cardinality(P) = Cardinality(P)  BY <1>1, FS_Interval
  <2>3. order \in Surjection(P, P)  BY <2>1, <2>2, FS_Injection
  <2>. QED BY <2>3 DEF Surjection
<1>3. inverse \in [P -> P] /\ \A k \in P : order[inverse[k]] = k
  <2>1. ASSUME NEW k \in P  PROVE inverse[k] \in P /\ order[inverse[k]] = k
    BY <1>2
  <2>. QED BY <2>1
<1>4. Sorts(inverse)
  <2>. HIDE DEF inverse
  <2>1. \A k \in P : payload[inverse[k]].index = k  BY <1>1, <1>3
  <2>. QED BY <2>1
<1>5. sorted \in [P -> P] /\ Sorts(sorted)
  <2>. HIDE DEF inverse, Sorts
  <2>. QED BY <1>3, <1>4
<1>. HIDE DEF sorted
<1>. DEFINE g == [i \in P |-> order[sorted[i]]]
<1>6. g \in [1 .. m -> 1 .. m] /\ \A i, j \in 1 .. m : i < j => g[i] < g[j]
  <2>1. \A i \in 1 .. m : sorted[i] \in 1 .. m /\ g[i] = order[sorted[i]]
    BY <1>1, <1>5
  <2>2. ASSUME NEW i \in 1 .. m, NEW j \in 1 .. m, i < j
        PROVE  order[sorted[i]] < order[sorted[j]]
    <3>1. payload[sorted[i]].index < payload[sorted[j]].index  BY <1>1, <1>5, <2>2
    <3>2. payload[sorted[i]].index = order[sorted[i]]  BY <1>1, <2>1
    <3>3. payload[sorted[j]].index = order[sorted[j]]  BY <1>1, <2>1
    <3>. QED BY <3>1, <3>2, <3>3
  <2>3. g \in [1 .. m -> 1 .. m]  BY <1>1, <2>1
  <2>4. ASSUME NEW i \in 1 .. m, NEW j \in 1 .. m, i < j  PROVE g[i] < g[j]
    <3>1. g[i] = order[sorted[i]] /\ g[j] = order[sorted[j]]  BY <2>1
    <3>2. order[sorted[i]] < order[sorted[j]]  BY <2>2, <2>4
    <3>. HIDE DEF g
    <3>. QED BY <3>1, <3>2
  <2>. HIDE DEF g
  <2>. QED BY <2>3, <2>4
<1>7. \A i \in 1 .. m : g[i] = i
  <2>. HIDE DEF g
  <2>. QED BY <1>6, IncreasingIsIdentity
<1>8. ASSUME NEW i \in 1 .. m  PROVE payload[sorted[i]].embedding = <<batch[i], purpose>>
  <2>1. sorted[i] \in 1 .. m  BY <1>1, <1>5
  <2>2. order[sorted[i]] = i  BY <1>1, <1>7
  <2>. QED BY <1>1, <2>1, <2>2
<1>9. Results(payload) = [i \in P |-> payload[sorted[i]].embedding]
  BY DEF Results, sorted, P
<1>10. Results(payload) = [i \in 1 .. m |-> payload[sorted[i]].embedding]
  BY <1>1, <1>9
<1>. QED BY <1>8, <1>10
----------------------------------------------------------------------------
(* Batches *)

LEMMA ConfigFields ==
  ASSUME config \in Configurations
  PROVE  /\ config.provider \in Providers
         /\ config.batchSize \in Nat /\ config.batchSize > 0
         /\ config.concurrency \in Nat /\ config.concurrency > 0
         /\ config.retryMax \in Nat /\ config.cacheSize \in Nat
BY ConfigurationAssumption

LEMMA InputFields ==
  ASSUME NEW input \in Inputs
  PROVE  input.texts \in Seq(Texts) /\ input.purpose \in Purposes
BY InputAssumption

\* Every text that misses is in one of the batches, and there is none without a text.
LEMMA BatchesCover ==
  ASSUME config \in Configurations, NEW missing \in Seq(Texts)
  PROVE  /\ BatchCount(missing) \in Nat
         /\ BatchCount(missing) = 0 <=> missing = <<>>
         /\ \A n \in DOMAIN missing : \E b \in 1 .. BatchCount(missing) : n \in Positions(missing, b)
<1>. DEFINE size == config.batchSize
            L == Len(missing)
            count == BatchCount(missing)
<1>1. L \in Nat /\ size \in Nat /\ size > 0 /\ DOMAIN missing = 1 .. L
  BY ConfigFields
<1>2. count \in Nat /\ count * size >= L /\ (L > 0 => count > 0) /\ (L = 0 => count = 0)
  <2>1. count = (L + size - 1) \div size  BY DEF BatchCount
  <2>. HIDE DEF L, size, count
  <2>. QED BY <1>1, <2>1
<1>3. ASSUME NEW n \in 1 .. L  PROVE \E b \in 1 .. count : Offset(b) < n /\ n <= Offset(b) + size
  <2>. DEFINE T == {b \in Nat : n <= b * size}
  <2>1. count \in T /\ T \subseteq Nat
    <3>. HIDE DEF size, L, count
    <3>. QED BY <1>1, <1>2
  <2>2. PICK b \in T : \A m \in T : b <= m
    <3>. HIDE DEF T
    <3>. QED BY <2>1, LeastNatural
  <2>3. b \in Nat /\ n <= b * size /\ b <= count  BY <2>1, <2>2
  <2>4. b # 0
    <3>. HIDE DEF size, L
    <3>. QED BY <1>1, <2>3
  <2>5. b - 1 \in Nat /\ b - 1 \notin T
    <3>1. b - 1 \in Nat  BY <2>3, <2>4
    <3>2. ~(b <= b - 1)  BY <2>3
    <3>. HIDE DEF T
    <3>. QED BY <2>2, <3>1, <3>2
  <2>6. (b - 1) * size < n
    <3>1. (b - 1) * size \in Int  BY <1>1, <2>5
    <3>. QED BY <2>5, <3>1
  <2>7. n <= (b - 1) * size + size
    <3>1. b * size = (b - 1) * size + size
      <4>. HIDE DEF size
      <4>. QED BY <1>1, <2>3
    <3>. QED BY <2>3, <3>1
  <2>8. b \in 1 .. count  BY <1>2, <2>3, <2>4
  <2>. QED BY <2>6, <2>7, <2>8 DEF Offset
<1>4. missing = <<>> <=> L = 0
  BY EmptySeq
<1>5. ASSUME NEW n \in DOMAIN missing
      PROVE  \E b \in 1 .. count : n \in Positions(missing, b)
  <2>1. n \in 1 .. L  BY <1>1
  <2>. QED BY <1>3, <2>1 DEF Positions
<1>. HIDE DEF L
<1>6. count = 0 <=> missing = <<>>
  <2>. HIDE DEF count
  <2>. QED BY <1>1, <1>2, <1>4
<1>. QED BY <1>2, <1>5, <1>6

\* A batch is a sequence, whose elements are those at its positions.
LEMMA BatchIsSequence ==
  ASSUME config \in Configurations, NEW missing \in Seq(Texts), NEW b \in Nat \ {0}
  PROVE  \E k \in Nat :
           /\ DOMAIN Batch(missing, b) = 1 .. k /\ Batch(missing, b) \in [1 .. k -> Texts]
           /\ \A n \in Positions(missing, b) :
                n - Offset(b) \in 1 .. k /\ Batch(missing, b)[n - Offset(b)] = missing[n]
<1>. DEFINE L == Len(missing)
            O == Offset(b)
            size == config.batchSize
            k == IF L <= O THEN 0 ELSE IF L <= O + size THEN L - O ELSE size
            B == {n - O : n \in Positions(missing, b)}
<1>1. L \in Nat /\ O \in Nat /\ size \in Nat /\ size > 0 /\ DOMAIN missing = 1 .. L
      /\ \A n \in 1 .. L : missing[n] \in Texts
  <2>1. config.batchSize \in Nat /\ config.batchSize > 0  BY ConfigFields
  <2>2. (b - 1) * config.batchSize \in Nat  BY <2>1
  <2>. QED BY <2>1, <2>2 DEF Offset
<1>. HIDE DEF L, O, size
<1>2. k \in Nat  BY <1>1
<1>3. Positions(missing, b) = {n \in 1 .. L : O < n /\ n <= O + size}
  BY <1>1 DEF Positions, O, size
<1>4. \A n \in Positions(missing, b) : n \in 1 .. L /\ n - O \in 1 .. k /\ O + (n - O) = n
  BY <1>1, <1>3
<1>5. \A i \in 1 .. k : O + i \in Positions(missing, b) /\ (O + i) - O = i
  BY <1>1, <1>3
<1>6. B = 1 .. k
  <2>. HIDE DEF k
  <2>1. B \subseteq 1 .. k  BY <1>4
  <2>2. 1 .. k \subseteq B
    <3>1. ASSUME NEW i \in 1 .. k  PROVE i \in B
      <4>1. O + i \in Positions(missing, b) /\ i = (O + i) - O  BY <1>5
      <4>. QED BY <4>1
    <3>. QED BY <3>1
  <2>. QED BY <2>1, <2>2
<1>. HIDE DEF k, B
<1>7. Batch(missing, b) = [i \in B |-> missing[O + i]]
  BY DEF Batch, O, B
<1>8. \A i \in 1 .. k : missing[O + i] \in Texts
  BY <1>1, <1>4, <1>5
<1>9. /\ DOMAIN Batch(missing, b) = 1 .. k /\ Batch(missing, b) \in [1 .. k -> Texts]
      /\ \A n \in Positions(missing, b) :
           n - O \in 1 .. k /\ Batch(missing, b)[n - O] = missing[n]
  <2>1. \A n \in Positions(missing, b) : Batch(missing, b)[n - O] = missing[O + (n - O)]
    BY <1>4, <1>6, <1>7
  <2>. QED BY <1>4, <1>6, <1>7, <1>8, <2>1
<1>. QED BY <1>2, <1>9 DEF O
----------------------------------------------------------------------------
(* The cache *)

\* What a cache is like: every key once, with its own vector, within its size.
Caches == {e \in Seq(Entries) :
             /\ Len(e) <= config.cacheSize
             /\ \A i \in DOMAIN e : e[i].value = e[i].key
             /\ \A i, j \in DOMAIN e : e[i].key = e[j].key => i = j}

LEMMA EntryFields ==
  ASSUME NEW e \in Caches, config \in Configurations
  PROVE  /\ Len(e) \in Nat /\ DOMAIN e = 1 .. Len(e) /\ Len(e) <= config.cacheSize
         /\ \A i \in 1 .. Len(e) : /\ e[i] \in Entries /\ e[i].key \in Keys
                                   /\ e[i].value = e[i].key /\ e[i].fresh \in BOOLEAN
<1>1. /\ e \in Seq(Entries) /\ Len(e) <= config.cacheSize
      /\ \A i \in DOMAIN e : e[i].value = e[i].key
  BY DEF Caches
<1>2. \A x \in Entries : x.key \in Keys /\ x.fresh \in BOOLEAN
  BY DEF Entries
<1>. QED BY <1>1, <1>2

LEMMA PlaceOfKey ==
  ASSUME NEW e \in Caches, NEW k, IsCached(e, k)
  PROVE  PositionOf(e, k) \in DOMAIN e /\ e[PositionOf(e, k)].key = k
BY DEF IsCached, PositionOf

LEMMA Removed ==
  ASSUME NEW S, NEW s \in Seq(S), NEW i \in 1 .. Len(s)
  PROVE  /\ RemoveAt(s, i) \in Seq(S) /\ Len(RemoveAt(s, i)) = Len(s) - 1
         /\ \A j \in 1 .. Len(s) - 1 : RemoveAt(s, i)[j] = s[IF j < i THEN j ELSE j + 1]
<1>. DEFINE a == SubSeq(s, 1, i - 1)
            b == SubSeq(s, i + 1, Len(s))
<1>1. Len(s) \in Nat /\ \A j \in 1 .. Len(s) : s[j] \in S
  OBVIOUS
<1>2. /\ a \in Seq(S) /\ Len(a) = i - 1
      /\ \A j \in 1 .. i - 1 : a[j] = s[j]
  <2>1. i - 1 \in Int /\ \A j \in 1 .. i - 1 : s[j] \in S  BY <1>1
  <2>2. /\ a \in Seq(S) /\ Len(a) = IF 1 <= i - 1 THEN (i - 1) - 1 + 1 ELSE 0
        /\ \A j \in 1 .. (i - 1) - 1 + 1 : a[j] = s[1 + j - 1]
    <3>. HIDE DEF a
    <3>. QED BY <2>1, SubSeqProperties DEF a
  <2>. HIDE DEF a
  <2>. QED BY <1>1, <2>2
<1>3. /\ b \in Seq(S) /\ Len(b) = Len(s) - i
      /\ \A j \in 1 .. Len(s) - i : b[j] = s[i + j]
  <2>1. i + 1 \in Int /\ Len(s) \in Int /\ \A j \in i + 1 .. Len(s) : s[j] \in S  BY <1>1
  <2>2. /\ b \in Seq(S) /\ Len(b) = IF i + 1 <= Len(s) THEN Len(s) - (i + 1) + 1 ELSE 0
        /\ \A j \in 1 .. Len(s) - (i + 1) + 1 : b[j] = s[(i + 1) + j - 1]
    <3>. HIDE DEF b
    <3>. QED BY <2>1, SubSeqProperties DEF b
  <2>3. \A j \in 1 .. Len(s) - i : j \in 1 .. Len(s) - (i + 1) + 1 /\ (i + 1) + j - 1 = i + j
    BY <1>1
  <2>4. Len(b) = Len(s) - i
    <3>. HIDE DEF b
    <3>. QED BY <1>1, <2>2
  <2>5. \A j \in 1 .. Len(s) - i : b[j] = s[i + j]
    <3>. HIDE DEF b
    <3>. QED BY <2>2, <2>3
  <2>. QED BY <2>2, <2>4, <2>5
<1>4. RemoveAt(s, i) = a \o b
  BY DEF RemoveAt
<1>. HIDE DEF a, b
<1>5. /\ a \o b \in Seq(S) /\ Len(a \o b) = Len(a) + Len(b)
      /\ \A j \in 1 .. Len(a) + Len(b) : (a \o b)[j] = IF j <= Len(a) THEN a[j] ELSE b[j - Len(a)]
  BY <1>2, <1>3, ConcatProperties
<1>6. ASSUME NEW j \in 1 .. Len(s) - 1
      PROVE  (a \o b)[j] = s[IF j < i THEN j ELSE j + 1]
  <2>1. j \in 1 .. Len(a) + Len(b)  BY <1>1, <1>2, <1>3
  <2>2. CASE j < i
    <3>1. (a \o b)[j] = a[j]  BY <1>2, <1>5, <2>1, <2>2
    <3>. QED BY <1>2, <2>2, <3>1
  <2>3. CASE ~(j < i)
    <3>1. (a \o b)[j] = b[j - (i - 1)]  BY <1>2, <1>5, <2>1, <2>3
    <3>2. j - (i - 1) \in 1 .. Len(s) - i /\ i + (j - (i - 1)) = j + 1  BY <1>1, <2>3
    <3>3. b[j - (i - 1)] = s[i + (j - (i - 1))]  BY <1>3, <3>2
    <3>. QED BY <2>3, <3>1, <3>2, <3>3
  <2>. QED BY <2>2, <2>3
<1>. QED BY <1>1, <1>2, <1>3, <1>4, <1>5, <1>6

\* A lookup takes an entry out, and no other.
LEMMA WithoutKey ==
  ASSUME config \in Configurations, NEW e \in Caches, NEW k \in Keys
  PROVE  /\ Without(e, k) \in Caches /\ ~IsCached(Without(e, k), k)
         /\ \A j : IsCached(Without(e, k), j) => IsCached(e, j)
         /\ IsCached(e, k) => Len(Without(e, k)) = Len(e) - 1
<1>1. CASE ~IsCached(e, k)
  BY <1>1 DEF Without
<1>2. CASE IsCached(e, k)
  <2>. DEFINE p == PositionOf(e, k)
              r == RemoveAt(e, p)
              At(j) == IF j < p THEN j ELSE j + 1
  <2>1. p \in 1 .. Len(e) /\ e[p].key = k /\ Len(e) \in Nat
    BY <1>2, PlaceOfKey, EntryFields
  <2>. HIDE DEF p
  <2>2. e \in Seq(Entries)  BY DEF Caches
  <2>3. /\ r \in Seq(Entries) /\ Len(r) = Len(e) - 1
        /\ \A j \in 1 .. Len(e) - 1 : r[j] = e[At(j)]
    BY <2>1, <2>2, Removed
  <2>. HIDE DEF r
  <2>4. DOMAIN r = 1 .. Len(e) - 1  BY <2>3
  <2>5. \A j \in 1 .. Len(e) - 1 : At(j) \in 1 .. Len(e) /\ At(j) # p
    BY <2>1
  <2>6. \A i, j \in 1 .. Len(e) - 1 : At(i) = At(j) => i = j
    BY <2>1
  <2>. HIDE DEF At
  <2>7. /\ DOMAIN e = 1 .. Len(e) /\ Len(e) <= config.cacheSize /\ config.cacheSize \in Nat
        /\ \A i \in 1 .. Len(e) : e[i].value = e[i].key
        /\ \A i, j \in 1 .. Len(e) : e[i].key = e[j].key => i = j
    BY EntryFields, ConfigFields DEF Caches
  <2>8. \A i \in DOMAIN r : r[i].value = r[i].key
    BY <2>3, <2>4, <2>5, <2>7
  <2>9. ASSUME NEW i \in DOMAIN r, NEW j \in DOMAIN r, r[i].key = r[j].key  PROVE i = j
    <3>1. e[At(i)].key = e[At(j)].key  BY <2>3, <2>4, <2>9
    <3>2. At(i) = At(j)  BY <2>4, <2>5, <2>7, <3>1
    <3>. QED BY <2>4, <2>6, <3>2
  <2>10. Len(r) <= config.cacheSize  BY <2>1, <2>3, <2>7
  <2>11. r \in Caches  BY <2>3, <2>8, <2>9, <2>10 DEF Caches
  <2>12. ~IsCached(r, k)
    <3>1. ASSUME NEW j \in DOMAIN r, r[j].key = k  PROVE FALSE
      <4>1. At(j) \in 1 .. Len(e) /\ At(j) # p /\ e[At(j)].key = e[p].key
        BY <2>1, <2>3, <2>4, <2>5, <3>1
      <4>. QED BY <2>1, <2>7, <4>1
    <3>. QED BY <3>1 DEF IsCached
  <2>13. ASSUME NEW j, IsCached(r, j)  PROVE IsCached(e, j)
    <3>1. PICK i \in DOMAIN r : r[i].key = j  BY <2>13 DEF IsCached
    <3>2. At(i) \in DOMAIN e /\ e[At(i)].key = j  BY <2>3, <2>4, <2>5, <2>7, <3>1
    <3>. QED BY <3>2 DEF IsCached
  <2>14. Without(e, k) = r  BY <1>2 DEF Without, r, p
  <2>. QED BY <2>3, <2>11, <2>12, <2>13, <2>14
<1>. QED BY <1>1, <1>2

\* An entry put at the end of a cache that has room for it.
LEMMA AppendedEntry ==
  ASSUME config \in Configurations, NEW e \in Caches, NEW x \in Entries,
         x.value = x.key, ~IsCached(e, x.key), Len(e) < config.cacheSize
  PROVE  /\ Append(e, x) \in Caches
         /\ \A j : IsCached(Append(e, x), j) => IsCached(e, j) \/ j = x.key
<1>. DEFINE r == Append(e, x)
<1>1. /\ e \in Seq(Entries) /\ Len(e) \in Nat /\ DOMAIN e = 1 .. Len(e)
      /\ \A i \in 1 .. Len(e) : e[i].value = e[i].key
      /\ \A i, j \in 1 .. Len(e) : e[i].key = e[j].key => i = j
  BY EntryFields DEF Caches
<1>2. /\ r \in Seq(Entries) /\ Len(r) = Len(e) + 1 /\ DOMAIN r = 1 .. Len(e) + 1
      /\ r[Len(e) + 1] = x /\ \A i \in 1 .. Len(e) : r[i] = e[i]
  BY <1>1
<1>. HIDE DEF r
<1>3. \A i \in 1 .. Len(e) : e[i].key # x.key
  BY <1>1 DEF IsCached
<1>4. config.cacheSize \in Nat  BY ConfigFields
<1>5. \A i \in DOMAIN r : i = Len(e) + 1 \/ i \in 1 .. Len(e)
  BY <1>1, <1>2
<1>6. \A i \in DOMAIN r : r[i].value = r[i].key
  BY <1>1, <1>2, <1>5
<1>7. ASSUME NEW i \in DOMAIN r, NEW j \in DOMAIN r, r[i].key = r[j].key  PROVE i = j
  BY <1>1, <1>2, <1>3, <1>5, <1>7
<1>8. r \in Caches
  BY <1>1, <1>2, <1>4, <1>6, <1>7 DEF Caches
<1>9. ASSUME NEW j, IsCached(r, j)  PROVE IsCached(e, j) \/ j = x.key
  BY <1>1, <1>2, <1>5, <1>9 DEF IsCached
<1>. QED BY <1>8, <1>9 DEF r

NewEntry(k) == [key |-> k, value |-> k, fresh |-> TRUE]

\* A vector is stored in its key's place, or at the end, where the first entry
\* goes when the cache is full.
Replaced(e, k, r) ==
  /\ IsCached(e, k) /\ Len(r) = Len(e) /\ DOMAIN r = 1 .. Len(e)
  /\ \A i \in 1 .. Len(e) : r[i] = IF e[i].key = k THEN NewEntry(k) ELSE e[i]
Added(e, k, r, d) ==
  /\ ~IsCached(e, k) /\ d \in {0, 1} /\ (d = 1 => Len(e) = config.cacheSize)
  /\ Len(e) + 1 - d <= config.cacheSize
  /\ Len(r) = Len(e) + 1 - d /\ DOMAIN r = 1 .. Len(e) + 1 - d
  /\ \A i \in 1 .. Len(e) - d : r[i] = e[i + d]
  /\ r[Len(e) + 1 - d] = NewEntry(k)

LEMMA CacheSetForms ==
  ASSUME config \in Configurations, NEW e \in Caches, NEW k \in Keys, config.cacheSize # 0
  PROVE  /\ CacheSet(e, k, k) \in Seq(Entries)
         /\ Replaced(e, k, CacheSet(e, k, k)) \/ \E d : Added(e, k, CacheSet(e, k, k), d)
<1>. DEFINE r == CacheSet(e, k, k)
            size == config.cacheSize
            x == NewEntry(k)
<1>1. /\ e \in Seq(Entries) /\ Len(e) \in Nat /\ DOMAIN e = 1 .. Len(e)
      /\ size \in Nat /\ size > 0 /\ Len(e) <= size /\ x \in Entries
      /\ \A i \in 1 .. Len(e) : e[i] \in Entries
  <2>1. x \in Entries  BY DEF NewEntry, Entries
  <2>. HIDE DEF x
  <2>. QED BY <2>1, EntryFields, ConfigFields DEF Caches
<1>2. CASE IsCached(e, k)
  <2>. DEFINE s == [i \in DOMAIN e |-> IF e[i].key = k THEN x ELSE e[i]]
  <2>1. s \in [1 .. Len(e) -> Entries]  BY <1>1
  <2>2. s \in Seq(Entries) /\ Len(s) = Len(e) /\ DOMAIN s = 1 .. Len(e)
    <3>. HIDE DEF s
    <3>. QED BY <1>1, <2>1
  <2>3. r = Kept(s)  BY <1>1, <1>2 DEF CacheSet, NewEntry
  <2>4. Kept(s) = s
    <3>. HIDE DEF s
    <3>. QED BY <1>1, <2>2 DEF Kept
  <2>5. \A i \in 1 .. Len(e) : s[i] = IF e[i].key = k THEN x ELSE e[i]  BY <1>1
  <2>. HIDE DEF s, r, x
  <2>6. Replaced(e, k, r)  BY <1>2, <2>2, <2>3, <2>4, <2>5 DEF Replaced, x
  <2>. QED BY <2>2, <2>3, <2>4, <2>6 DEF r
<1>3. CASE ~IsCached(e, k)
  <2>. DEFINE s == Append(e, x)
  <2>1. /\ s \in Seq(Entries) /\ Len(s) = Len(e) + 1 /\ DOMAIN s = 1 .. Len(e) + 1
        /\ s[Len(e) + 1] = x /\ \A i \in 1 .. Len(e) : s[i] = e[i]
    BY <1>1
  <2>2. r = Kept(s)  BY <1>1, <1>3 DEF CacheSet, NewEntry
  <2>. HIDE DEF s, r, x
  <2>3. CASE Len(e) < size
    <3>1. Kept(s) = s  BY <1>1, <2>1, <2>3 DEF Kept
    <3>2. Added(e, k, r, 0)  BY <1>1, <1>3, <2>1, <2>2, <2>3, <3>1 DEF Added, x
    <3>. QED BY <2>1, <2>2, <3>1, <3>2 DEF r
  <2>4. CASE Len(e) = size
    <3>1. Len(s) = size + 1 /\ Len(s) - size + 1 = 2 /\ ~(Len(s) <= size)  BY <1>1, <2>1, <2>4
    <3>2. Kept(s) = SubSeq(s, 2, size + 1)  BY <3>1 DEF Kept
    <3>3. /\ SubSeq(s, 2, size + 1) \in Seq(Entries)
          /\ Len(SubSeq(s, 2, size + 1)) = size
          /\ \A i \in 1 .. size : SubSeq(s, 2, size + 1)[i] = s[i + 1]
      <4>. DEFINE q == SubSeq(s, 2, size + 1)
      <4>1. \A i \in 2 .. size + 1 : s[i] \in Entries  BY <2>1, <3>1
      <4>2. 2 \in Int /\ size + 1 \in Int  BY <1>1
      <4>3. /\ q \in Seq(Entries) /\ Len(q) = IF 2 <= size + 1 THEN (size + 1) - 2 + 1 ELSE 0
            /\ \A i \in 1 .. (size + 1) - 2 + 1 : q[i] = s[2 + i - 1]
        BY <4>1, <4>2, SubSeqProperties
      <4>4. \A i \in 1 .. size : i \in 1 .. (size + 1) - 2 + 1 /\ 2 + i - 1 = i + 1  BY <1>1
      <4>. HIDE DEF q, size
      <4>5. Len(q) = size  BY <1>1, <4>3
      <4>6. \A i \in 1 .. size : q[i] = s[i + 1]  BY <4>3, <4>4
      <4>. QED BY <4>3, <4>5, <4>6 DEF q
    <3>4. r = SubSeq(s, 2, size + 1)  BY <2>2, <3>2
    <3>5. r \in Seq(Entries) /\ Len(r) = size /\ DOMAIN r = 1 .. size
          /\ \A i \in 1 .. size : r[i] = s[i + 1]
      BY <3>3, <3>4
    <3>6. \A i \in 1 .. Len(e) - 1 : r[i] = e[i + 1]
      BY <1>1, <2>1, <2>4, <3>5
    <3>7. r[Len(e)] = x
      BY <1>1, <2>1, <2>4, <3>5
    <3>8. Len(e) + 1 - 1 = Len(e)  BY <1>1
    <3>9. Added(e, k, r, 1)  BY <1>1, <1>3, <2>4, <3>5, <3>6, <3>7, <3>8 DEF Added, x
    <3>. QED BY <3>5, <3>9 DEF r
  <2>. QED BY <1>1, <2>3, <2>4
<1>. QED BY <1>2, <1>3

\* Storing a vector of its own for a key keeps the cache what it is.
LEMMA CacheSetKeeps ==
  ASSUME config \in Configurations, NEW e \in Caches, NEW k \in Keys
  PROVE  /\ CacheSet(e, k, k) \in Caches
         /\ \A j : IsCached(CacheSet(e, k, k), j) => IsCached(e, j) \/ j = k
<1>. DEFINE r == CacheSet(e, k, k)
<1>1. CASE config.cacheSize = 0
  BY <1>1 DEF CacheSet
<1>2. CASE config.cacheSize # 0
  <2>1. /\ e \in Seq(Entries) /\ Len(e) \in Nat /\ DOMAIN e = 1 .. Len(e)
        /\ Len(e) <= config.cacheSize /\ config.cacheSize \in Nat
        /\ \A i \in 1 .. Len(e) : e[i].value = e[i].key
        /\ \A i, j \in 1 .. Len(e) : e[i].key = e[j].key => i = j
    BY EntryFields, ConfigFields DEF Caches
  <2>2. r \in Seq(Entries) /\ (Replaced(e, k, r) \/ \E d : Added(e, k, r, d))
    BY <1>2, CacheSetForms
  <2>3. NewEntry(k).key = k /\ NewEntry(k).value = k
    BY DEF NewEntry
  <2>. HIDE DEF r
  <2>4. CASE Replaced(e, k, r)
    <3>1. \A i \in 1 .. Len(e) : r[i].key = e[i].key /\ r[i].value = r[i].key
      BY <2>1, <2>3, <2>4 DEF Replaced
    <3>2. DOMAIN r = 1 .. Len(e) /\ Len(r) = Len(e)  BY <2>4 DEF Replaced
    <3>3. r \in Caches  BY <2>1, <2>2, <3>1, <3>2 DEF Caches
    <3>4. \A j : IsCached(r, j) => IsCached(e, j)  BY <2>1, <3>1, <3>2 DEF IsCached
    <3>. QED BY <3>3, <3>4 DEF r
  <2>5. ASSUME NEW d, Added(e, k, r, d)  PROVE r \in Caches /\ \A j : IsCached(r, j) => IsCached(e, j) \/ j = k
    <3>. DEFINE last == Len(e) + 1 - d
    <3>1. /\ ~IsCached(e, k) /\ d \in {0, 1} /\ last <= config.cacheSize
          /\ Len(r) = last /\ DOMAIN r = 1 .. last
          /\ \A i \in 1 .. Len(e) - d : r[i] = e[i + d]
          /\ r[last] = NewEntry(k)
      BY <2>5 DEF Added
    <3>2. \A i \in 1 .. last : i = last \/ (i \in 1 .. Len(e) - d /\ i + d \in 1 .. Len(e) /\ i # last)
      BY <2>1, <3>1
    <3>3. \A i, j \in 1 .. last : i + d = j + d => i = j  BY <2>1, <3>1
    <3>. HIDE DEF last
    <3>4. \A i \in 1 .. Len(e) : e[i].key # k  BY <2>1, <3>1 DEF IsCached
    <3>5. \A i \in 1 .. last : r[i].value = r[i].key  BY <2>1, <2>3, <3>1, <3>2
    <3>6. ASSUME NEW i \in 1 .. last, NEW j \in 1 .. last, r[i].key = r[j].key  PROVE i = j
      <4>1. CASE i = last /\ j = last  BY <4>1
      <4>2. CASE i # last /\ j # last
        <5>1. i + d \in 1 .. Len(e) /\ j + d \in 1 .. Len(e) /\ e[i + d].key = e[j + d].key
          BY <3>1, <3>2, <3>6, <4>2
        <5>. QED BY <2>1, <3>3, <5>1
      <4>3. CASE i # last /\ j = last
        <5>1. i + d \in 1 .. Len(e) /\ e[i + d].key = k  BY <2>3, <3>1, <3>2, <3>6, <4>3
        <5>. QED BY <3>4, <5>1
      <4>4. CASE i = last /\ j # last
        <5>1. j + d \in 1 .. Len(e) /\ e[j + d].key = k  BY <2>3, <3>1, <3>2, <3>6, <4>4
        <5>. QED BY <3>4, <5>1
      <4>. QED BY <4>1, <4>2, <4>3, <4>4
    <3>7. r \in Caches  BY <2>2, <3>1, <3>5, <3>6 DEF Caches
    <3>8. ASSUME NEW j, IsCached(r, j)  PROVE IsCached(e, j) \/ j = k
      <4>1. PICK i \in 1 .. last : r[i].key = j  BY <3>1, <3>8 DEF IsCached
      <4>. QED BY <2>1, <2>3, <3>1, <3>2, <4>1 DEF IsCached
    <3>. QED BY <3>7, <3>8
  <2>. QED BY <2>2, <2>4, <2>5 DEF r
<1>. QED BY <1>1, <1>2

\* The entries e0 has nothing for are among the last n.
NewAtEnd(e, e0, n) == \A i \in DOMAIN e : IsCached(e0, e[i].key) \/ i > Len(e) - n

\* While fewer than the cache holds have been stored, what is new stays.
LEMMA CacheSetStays ==
  ASSUME config \in Configurations, NEW e \in Caches, NEW k \in Keys, NEW e0, NEW n \in Nat,
         n < config.cacheSize, NewAtEnd(e, e0, n)
  PROVE  /\ NewAtEnd(CacheSet(e, k, k), e0, n + 1)
         /\ IsCached(CacheSet(e, k, k), k)
         /\ \A j : IsCached(e, j) /\ ~IsCached(e0, j) => IsCached(CacheSet(e, k, k), j)
         /\ \A j : IsCached(e, j) =>
              IsCached(CacheSet(e, k, k), j) \/ Len(CacheSet(e, k, k)) = config.cacheSize
         /\ Len(e) = config.cacheSize => Len(CacheSet(e, k, k)) = config.cacheSize
<1>. DEFINE r == CacheSet(e, k, k)
<1>1. /\ e \in Seq(Entries) /\ Len(e) \in Nat /\ DOMAIN e = 1 .. Len(e)
      /\ Len(e) <= config.cacheSize /\ config.cacheSize \in Nat
  BY EntryFields, ConfigFields DEF Caches
<1>2. r \in Seq(Entries) /\ (Replaced(e, k, r) \/ \E d : Added(e, k, r, d))
  BY <1>1, CacheSetForms
<1>3. NewEntry(k).key = k
  BY DEF NewEntry
<1>. HIDE DEF r
<1>4. \A i \in 1 .. Len(e) : IsCached(e0, e[i].key) \/ i > Len(e) - n
  BY <1>1 DEF NewAtEnd
<1>5. CASE Replaced(e, k, r)
  <2>1. /\ IsCached(e, k) /\ DOMAIN r = 1 .. Len(e) /\ Len(r) = Len(e)
        /\ \A i \in 1 .. Len(e) : r[i].key = e[i].key
    BY <1>3, <1>5 DEF Replaced
  <2>2. NewAtEnd(r, e0, n + 1)  BY <1>1, <1>4, <2>1 DEF NewAtEnd
  <2>3. \A j : IsCached(e, j) => IsCached(r, j)  BY <1>1, <2>1 DEF IsCached
  <2>. QED BY <2>1, <2>2, <2>3 DEF r
<1>6. ASSUME NEW d, Added(e, k, r, d)
      PROVE  /\ NewAtEnd(r, e0, n + 1) /\ IsCached(r, k)
             /\ \A j : IsCached(e, j) /\ ~IsCached(e0, j) => IsCached(r, j)
             /\ \A j : IsCached(e, j) => IsCached(r, j) \/ Len(r) = config.cacheSize
             /\ Len(e) = config.cacheSize => Len(r) = config.cacheSize
  <2>. DEFINE last == Len(e) + 1 - d
  <2>1. /\ d \in {0, 1} /\ (d = 1 => Len(e) = config.cacheSize)
        /\ Len(r) = last /\ DOMAIN r = 1 .. last
        /\ \A i \in 1 .. Len(e) - d : r[i] = e[i + d]
        /\ r[last] = NewEntry(k)
        /\ Len(e) + 1 - d <= config.cacheSize
    BY <1>6 DEF Added
  <2>2. last \in 1 .. last /\ last \in Nat  BY <1>1, <2>1
  <2>3. ASSUME NEW i \in 1 .. last  PROVE IsCached(e0, r[i].key) \/ i > last - (n + 1)
    <3>1. CASE i = last  BY <2>2, <3>1
    <3>2. CASE i # last
      <4>1. i \in 1 .. Len(e) - d /\ i + d \in 1 .. Len(e)  BY <1>1, <2>1, <3>2
      <4>2. r[i].key = e[i + d].key  BY <2>1, <4>1
      <4>3. IsCached(e0, e[i + d].key) \/ i + d > Len(e) - n  BY <1>4, <4>1
      <4>4. i + d > Len(e) - n => i > last - (n + 1)  BY <1>1, <2>1, <4>1
      <4>. QED BY <4>2, <4>3, <4>4
    <3>. QED BY <3>1, <3>2
  <2>4. ASSUME NEW j, IsCached(e, j), ~IsCached(e0, j)  PROVE IsCached(r, j)
    <3>1. PICK i \in 1 .. Len(e) : e[i].key = j  BY <1>1, <2>4 DEF IsCached
    <3>2. i > Len(e) - n  BY <1>4, <2>4, <3>1
    <3>3. i - d \in 1 .. Len(e) - d /\ (i - d) + d = i /\ i - d \in 1 .. last
      BY <1>1, <2>1, <3>2
    <3>4. r[i - d].key = j  BY <2>1, <3>1, <3>3
    <3>. QED BY <2>1, <3>3, <3>4 DEF IsCached
  <2>7. Len(e) = config.cacheSize => Len(r) = config.cacheSize  BY <1>1, <2>1
  <2>8. ASSUME NEW j, IsCached(e, j)  PROVE IsCached(r, j) \/ Len(r) = config.cacheSize
    <3>1. CASE d = 1  BY <1>1, <2>1, <3>1
    <3>2. CASE d = 0
      <4>1. PICK i \in 1 .. Len(e) : e[i].key = j  BY <1>1, <2>8 DEF IsCached
      <4>2. i \in 1 .. last /\ r[i].key = j  BY <1>1, <2>1, <3>2, <4>1
      <4>. QED BY <2>1, <4>2 DEF IsCached
    <3>. QED BY <2>1, <3>1, <3>2
  <2>. HIDE DEF last
  <2>5. NewAtEnd(r, e0, n + 1)  BY <2>1, <2>3 DEF NewAtEnd
  <2>6. IsCached(r, k)  BY <1>3, <2>1, <2>2 DEF IsCached
  <2>. QED BY <2>4, <2>5, <2>6, <2>7, <2>8
<1>. QED BY <1>2, <1>5, <1>6 DEF r
----------------------------------------------------------------------------
(* Looking texts up *)

SeenStates == [cache : Caches, found : Vectors, missing : Seq(Texts)]

\* What the lookup of a text adds to what the call has seen.
Asked(missing, text) == \E n \in DOMAIN missing : missing[n] = text
LookedUp(seen, text, purpose, next) ==
  /\ next \in SeenStates
  /\ \A k : IsCached(next.cache, k) => IsCached(seen.cache, k)
  /\ \/ /\ next.found = Append(seen.found, CacheKey(text, purpose))
        /\ next.missing = seen.missing
     \/ /\ next.found = Append(seen.found, Null)
        /\ next.missing \in {seen.missing, Append(seen.missing, text)} /\ Asked(next.missing, text)

LEMMA LookUpOne ==
  ASSUME config \in Configurations, NEW seen \in SeenStates, NEW text \in Texts,
         NEW purpose \in Purposes
  PROVE  LookedUp(seen, text, purpose, LookUp(seen, text, purpose))
<1>. DEFINE key == CacheKey(text, purpose)
            next == LookUp(seen, text, purpose)
            entry == seen.cache[PositionOf(seen.cache, key)]
            others == Without(seen.cache, key)
            asked == IF \E n \in DOMAIN seen.missing : seen.missing[n] = text
                     THEN seen.missing ELSE Append(seen.missing, text)
<1>1. seen.cache \in Caches /\ seen.found \in Vectors /\ seen.missing \in Seq(Texts)
  BY DEF SeenStates
<1>2. key \in Keys
  BY DEF CacheKey, Keys
<1>. HIDE DEF key
<1>3. /\ others \in Caches /\ ~IsCached(others, key)
      /\ \A j : IsCached(others, j) => IsCached(seen.cache, j)
      /\ IsCached(seen.cache, key) => Len(others) = Len(seen.cache) - 1
  BY <1>1, <1>2, WithoutKey
<1>4. CASE IsCached(seen.cache, key) /\ entry.fresh
  <2>1. /\ PositionOf(seen.cache, key) \in 1 .. Len(seen.cache)
        /\ entry.key = key
    BY <1>1, <1>4, PlaceOfKey, EntryFields
  <2>2. entry \in Entries /\ entry.value = key /\ Len(seen.cache) <= config.cacheSize
        /\ Len(seen.cache) \in Nat /\ config.cacheSize \in Nat
    BY <1>1, <2>1, EntryFields, ConfigFields
  <2>3. next = [cache |-> Append(others, entry), found |-> Append(seen.found, entry.value),
                missing |-> seen.missing]
    BY <1>4 DEF LookUp, SeenStates, key
  <2>. HIDE DEF next, entry, others, asked
  <2>4. Len(others) < config.cacheSize  BY <1>3, <1>4, <2>2
  <2>5. /\ Append(others, entry) \in Caches
        /\ \A j : IsCached(Append(others, entry), j) => IsCached(others, j) \/ j = entry.key
    BY <1>3, <2>1, <2>2, <2>4, AppendedEntry
  <2>6. \A j : IsCached(Append(others, entry), j) => IsCached(seen.cache, j)
    BY <1>3, <1>4, <2>1, <2>5
  <2>7. Append(seen.found, key) \in Vectors  BY <1>1, <1>2 DEF Vectors
  <2>8. next \in SeenStates  BY <1>1, <2>2, <2>3, <2>5, <2>7 DEF SeenStates
  <2>9. next.cache = Append(others, entry) /\ next.found = Append(seen.found, key)
        /\ next.missing = seen.missing
    BY <2>2, <2>3
  <2>. QED BY <2>6, <2>8, <2>9 DEF LookedUp, next, key
<1>5. CASE ~(IsCached(seen.cache, key) /\ entry.fresh)
  <2>1. next = [cache |-> others, found |-> Append(seen.found, Null), missing |-> asked]
    BY <1>5 DEF LookUp, key
  <2>2. asked \in Seq(Texts) /\ Asked(asked, text)
    <3>1. CASE Asked(seen.missing, text)  BY <1>1, <3>1 DEF Asked
    <3>2. CASE ~Asked(seen.missing, text)
      <4>1. asked = Append(seen.missing, text)  BY <3>2 DEF Asked
      <4>2. /\ Append(seen.missing, text) \in Seq(Texts)
            /\ DOMAIN Append(seen.missing, text) = 1 .. Len(seen.missing) + 1
            /\ Append(seen.missing, text)[Len(seen.missing) + 1] = text
            /\ Len(seen.missing) + 1 \in 1 .. Len(seen.missing) + 1
        BY <1>1
      <4>. HIDE DEF asked
      <4>. QED BY <4>1, <4>2 DEF Asked
    <3>. QED BY <3>1, <3>2
  <2>3. asked \in {seen.missing, Append(seen.missing, text)}  OBVIOUS
  <2>4. Append(seen.found, Null) \in Vectors  BY <1>1 DEF Vectors
  <2>. HIDE DEF next, others, asked
  <2>5. next \in SeenStates  BY <1>3, <2>1, <2>2, <2>4 DEF SeenStates
  <2>6. next.cache = others /\ next.found = Append(seen.found, Null) /\ next.missing = asked
    BY <2>1
  <2>. QED BY <1>3, <2>2, <2>3, <2>5, <2>6 DEF LookedUp, next
<1>. QED BY <1>4, <1>5

LEMMA LookingUpRuns ==
  ASSUME config \in Configurations, NEW input \in Inputs, cache \in Caches
  PROVE  \E f \in [0 .. Len(input.texts) -> SeenStates] :
           /\ f[0] = NothingSeen
           /\ \A n \in 1 .. Len(input.texts) : f[n] = LookUp(f[n - 1], input.texts[n], input.purpose)
           /\ LookUpAll(input) = f[Len(input.texts)]
<1>. DEFINE N == Len(input.texts)
            S == SeenStates
            step == [n \in 1 .. N |-> [seen \in S |-> LookUp(seen, input.texts[n], input.purpose)]]
            after == CHOOSE f : f = [n \in 0 .. N |->
                       IF n = 0 THEN NothingSeen
                       ELSE LookUp(f[n - 1], input.texts[n], input.purpose)]
<1>1. /\ NothingSeen \in S /\ N \in Nat /\ input.purpose \in Purposes
      /\ \A n \in 1 .. N : input.texts[n] \in Texts
  <2>1. <<>> \in Vectors /\ <<>> \in Seq(Texts)  BY DEF Vectors
  <2>. QED BY <2>1, InputFields DEF SeenStates, NothingSeen
<1>2. ASSUME NEW n \in 1 .. N, NEW seen \in S
      PROVE  LookUp(seen, input.texts[n], input.purpose) \in S
  <2>1. LookedUp(seen, input.texts[n], input.purpose, LookUp(seen, input.texts[n], input.purpose))
    BY <1>1, LookUpOne
  <2>. QED BY <2>1 DEF LookedUp
<1>3. step \in [1 .. N -> [S -> S]]
  <2>. HIDE DEF S
  <2>. QED BY <1>2
<1>4. \E f \in [0 .. N -> S] : Run(f, N, NothingSeen, step)
  <2>. HIDE DEF step, N, S
  <2>. QED BY <1>1, <1>3, Iteration
<1>5. PICK f \in [0 .. N -> S] : f[0] = NothingSeen /\ \A n \in 1 .. N : f[n] = step[n][f[n - 1]]
  BY <1>4 DEF Run
<1>. HIDE DEF S
<1>6. ASSUME NEW n \in 1 .. N  PROVE f[n] = LookUp(f[n - 1], input.texts[n], input.purpose)
  <2>1. n - 1 \in 0 .. N  BY <1>1
  <2>2. f[n - 1] \in S
    <3>. HIDE DEF N
    <3>. QED BY <2>1
  <2>3. step[n][f[n - 1]] = LookUp(f[n - 1], input.texts[n], input.purpose)  BY <2>2 DEF step
  <2>. QED BY <1>5, <2>3
<1>7. f = [n \in 0 .. N |-> IF n = 0 THEN NothingSeen
                            ELSE LookUp(f[n - 1], input.texts[n], input.purpose)]
  BY <1>5, <1>6
<1>8. after = [n \in 0 .. N |-> IF n = 0 THEN NothingSeen
                                ELSE LookUp(after[n - 1], input.texts[n], input.purpose)]
  BY <1>7
<1>9. LookUpAll(input) = after[N]  BY DEF LookUpAll, Through
<1>10. ASSUME NEW n \in 1 .. N, after[n - 1] = f[n - 1]  PROVE after[n] = f[n]
  <2>1. after[n] = LookUp(after[n - 1], input.texts[n], input.purpose)
    <3>. HIDE DEF after
    <3>. QED BY <1>1, <1>8
  <2>. HIDE DEF after
  <2>. QED BY <1>6, <1>10, <2>1
<1>11. after[N] = f[N]
  <2>1. after[0] = f[0]
    <3>. HIDE DEF after
    <3>. QED BY <1>1, <1>5, <1>8
  <2>. HIDE DEF after, N
  <2>. QED BY <1>1, <1>10, <2>1, SameValues
<1>. HIDE DEF after
<1>. QED BY <1>5, <1>6, <1>9, <1>11 DEF S

\* Of the first n texts each has its own vector or is asked for, and looking
\* up adds nothing to the cache.
SeenWell(seen, input, n) ==
  /\ seen \in SeenStates /\ Len(seen.found) = n
  /\ \A i \in 1 .. n : \/ seen.found[i] = CacheKey(input.texts[i], input.purpose)
                       \/ seen.found[i] = Null /\ Asked(seen.missing, input.texts[i])
  /\ \A k : IsCached(seen.cache, k) => IsCached(cache, k)

LEMMA LookUpsAreWell ==
  ASSUME config \in Configurations, NEW input \in Inputs, cache \in Caches
  PROVE  SeenWell(LookUpAll(input), input, Len(input.texts))
<1>. DEFINE N == Len(input.texts)
<1>1. PICK f \in [0 .. N -> SeenStates] :
        /\ f[0] = NothingSeen
        /\ \A n \in 1 .. N : f[n] = LookUp(f[n - 1], input.texts[n], input.purpose)
        /\ LookUpAll(input) = f[N]
  BY LookingUpRuns
<1>2. N \in Nat /\ input.purpose \in Purposes /\ \A n \in 1 .. N : input.texts[n] \in Texts
  BY InputFields
<1>. DEFINE T == {n \in 0 .. N : SeenWell(f[n], input, n)}
<1>. HIDE DEF N
<1>3. 0 \in T
  <2>1. NothingSeen \in SeenStates  BY <1>1, <1>2
  <2>2. NothingSeen.cache = cache /\ NothingSeen.found = <<>>  BY DEF NothingSeen
  <2>. QED BY <1>1, <1>2, <2>1, <2>2 DEF SeenWell
<1>4. ASSUME NEW n \in 0 .. N - 1, n \in T  PROVE n + 1 \in T
  <2>. DEFINE seen == f[n]
              next == f[n + 1]
              text == input.texts[n + 1]
  <2>1. /\ n + 1 \in 1 .. N /\ (n + 1) - 1 = n /\ n \in 0 .. N /\ n + 1 \in 0 .. N
        /\ n \in Nat
    BY <1>2
  <2>2. seen \in SeenStates /\ text \in Texts  BY <1>2, <2>1
  <2>3. next = LookUp(seen, text, input.purpose)  BY <1>1, <2>1
  <2>4. SeenWell(seen, input, n)  BY <1>4
  <2>. HIDE DEF seen, next
  <2>5. LookedUp(seen, text, input.purpose, next)  BY <1>2, <2>2, <2>3, LookUpOne
  <2>. HIDE DEF text
  <2>6. /\ seen.found \in Vectors /\ seen.missing \in Seq(Texts) /\ Len(seen.found) = n
        /\ next \in SeenStates
    BY <2>2, <2>4, <2>5 DEF SeenStates, SeenWell, LookedUp
  <2>7. \A k : IsCached(next.cache, k) => IsCached(cache, k)
    BY <2>4, <2>5 DEF SeenWell, LookedUp
  <2>8. \A t : Asked(seen.missing, t) => Asked(Append(seen.missing, text), t)
    BY <2>2, <2>6 DEF Asked
  <2>9. \A t : Asked(seen.missing, t) => Asked(next.missing, t)
    BY <2>5, <2>8 DEF LookedUp
  <2>10. \A i \in 1 .. n : \/ seen.found[i] = CacheKey(input.texts[i], input.purpose)
                           \/ seen.found[i] = Null /\ Asked(seen.missing, input.texts[i])
    BY <2>4 DEF SeenWell
  <2>11. PICK v \in Keys \cup {Null} :
           /\ next.found = Append(seen.found, v)
           /\ \/ v = CacheKey(text, input.purpose)
              \/ v = Null /\ Asked(next.missing, text)
    <3>1. CacheKey(text, input.purpose) \in Keys  BY <1>2, <2>2 DEF CacheKey, Keys
    <3>. QED BY <2>5, <3>1 DEF LookedUp
  <2>12. /\ Len(next.found) = n + 1 /\ next.found[n + 1] = v
         /\ \A i \in 1 .. n : next.found[i] = seen.found[i]
    BY <2>6, <2>11 DEF Vectors
  <2>13. ASSUME NEW i \in 1 .. n + 1
         PROVE  \/ next.found[i] = CacheKey(input.texts[i], input.purpose)
                \/ next.found[i] = Null /\ Asked(next.missing, input.texts[i])
    <3>1. CASE i = n + 1  BY <2>11, <2>12, <3>1 DEF text
    <3>2. CASE i # n + 1
      <4>1. i \in 1 .. n  BY <2>1, <3>2
      <4>. QED BY <2>9, <2>10, <2>12, <4>1
    <3>. QED BY <3>1, <3>2
  <2>. QED BY <2>1, <2>6, <2>7, <2>12, <2>13 DEF SeenWell, next
<1>5. N \in T
  <2>. HIDE DEF T
  <2>1. 0 .. N \subseteq T  BY <1>2, <1>3, <1>4, Inductive
  <2>. QED BY <1>2, <2>1
<1>. QED BY <1>1, <1>5 DEF N
----------------------------------------------------------------------------
(* Storing what a call learned *)

\* The keys to store under, in their order, and that each is stored its own vector.
KeysStored(call, answers, places, K) ==
  /\ places \in Seq(Nat) /\ K \in [1 .. Len(places) -> Keys]
  /\ \A n \in 1 .. Len(places) :
       /\ CacheKey(call.missing[places[n]], call.input.purpose) = K[n]
       /\ answers[places[n]] = K[n]

LEMMA StoringRuns ==
  ASSUME config \in Configurations, cache \in Caches, NEW call, NEW answers, NEW places, NEW K,
         KeysStored(call, answers, places, K)
  PROVE  \E f \in [0 .. Len(places) -> Caches] :
           /\ f[0] = cache
           /\ \A n \in 1 .. Len(places) : f[n] = CacheSet(f[n - 1], K[n], K[n])
           /\ StoreAll(call, answers, places) = f[Len(places)]
<1>. DEFINE N == Len(places)
            S == Caches
            Stores(e, n) == CacheSet(e, CacheKey(call.missing[places[n]], call.input.purpose),
                                     answers[places[n]])
            step == [n \in 1 .. N |-> [e \in S |-> Stores(e, n)]]
            after == CHOOSE f : f = [n \in 0 .. N |-> IF n = 0 THEN cache ELSE Stores(f[n - 1], n)]
<1>1. N \in Nat /\ cache \in S /\ \A n \in 1 .. N : K[n] \in Keys
  BY DEF KeysStored
<1>2. ASSUME NEW n \in 1 .. N, NEW e  PROVE Stores(e, n) = CacheSet(e, K[n], K[n])
  BY DEF KeysStored
<1>. HIDE DEF Stores
<1>3. step \in [1 .. N -> [S -> S]]
  <2>1. ASSUME NEW n \in 1 .. N, NEW e \in S  PROVE Stores(e, n) \in S
    BY <1>1, <1>2, CacheSetKeeps
  <2>. HIDE DEF S
  <2>. QED BY <2>1
<1>4. \E f \in [0 .. N -> S] : Run(f, N, cache, step)
  <2>. HIDE DEF step, N, S
  <2>. QED BY <1>1, <1>3, Iteration
<1>5. PICK f \in [0 .. N -> S] : f[0] = cache /\ \A n \in 1 .. N : f[n] = step[n][f[n - 1]]
  BY <1>4 DEF Run
<1>. HIDE DEF S
<1>6. ASSUME NEW n \in 1 .. N  PROVE f[n] = Stores(f[n - 1], n)
  <2>1. n - 1 \in 0 .. N  BY <1>1
  <2>2. f[n - 1] \in S
    <3>. HIDE DEF N
    <3>. QED BY <2>1
  <2>3. step[n][f[n - 1]] = Stores(f[n - 1], n)  BY <2>2 DEF step
  <2>. QED BY <1>5, <2>3
<1>7. f = [n \in 0 .. N |-> IF n = 0 THEN cache ELSE Stores(f[n - 1], n)]
  BY <1>5, <1>6
<1>8. after = [n \in 0 .. N |-> IF n = 0 THEN cache ELSE Stores(after[n - 1], n)]
  BY <1>7
<1>9. StoreAll(call, answers, places) = after[N]
  BY DEF StoreAll, Through, Stores
<1>10. ASSUME NEW n \in 1 .. N, after[n - 1] = f[n - 1]  PROVE after[n] = f[n]
  <2>1. after[n] = Stores(after[n - 1], n)
    <3>. HIDE DEF after
    <3>. QED BY <1>1, <1>8
  <2>. HIDE DEF after
  <2>. QED BY <1>6, <1>10, <2>1
<1>11. after[N] = f[N]
  <2>1. after[0] = f[0]
    <3>. HIDE DEF after
    <3>. QED BY <1>1, <1>5, <1>8
  <2>. HIDE DEF after, N
  <2>. QED BY <1>1, <1>10, <2>1, SameValues
<1>. HIDE DEF after
<1>12. \A n \in 1 .. N : f[n] = CacheSet(f[n - 1], K[n], K[n])
  BY <1>2, <1>6
<1>. QED BY <1>5, <1>9, <1>11, <1>12 DEF S

LEMMA NothingStored ==
  ASSUME NEW call, NEW answers
  PROVE  StoreAll(call, answers, <<>>) = cache
<1>. DEFINE none == <<>>
            N == Len(none)
            Stores(e, n) == CacheSet(e, CacheKey(call.missing[none[n]], call.input.purpose),
                                     answers[none[n]])
            after == CHOOSE f : f = [n \in 0 .. N |-> IF n = 0 THEN cache ELSE Stores(f[n - 1], n)]
<1>1. StoreAll(call, answers, none) = after[N]
  BY DEF StoreAll, Through
<1>2. N = 0  OBVIOUS
<1>. HIDE DEF Stores, N
<1>3. after = [n \in 0 .. N |-> IF n = 0 THEN cache ELSE Stores(after[n - 1], n)]
  <2>. DEFINE f == [n \in 0 .. N |-> cache]
  <2>1. f = [n \in 0 .. N |-> IF n = 0 THEN cache ELSE Stores(f[n - 1], n)]  BY <1>2
  <2>. HIDE DEF f
  <2>. QED BY <2>1
<1>. HIDE DEF after
<1>. QED BY <1>1, <1>2, <1>3

\* k is cached, or it was before and the cache is full now.
Settled(e, k) == IsCached(e, k) \/ (IsCached(cache, k) /\ Len(e) = config.cacheSize)

\* Nothing is cached that was not stored, and when there is room for all that
\* is stored, only what was cached before may be pushed out.
LEMMA StoredAll ==
  ASSUME config \in Configurations, cache \in Caches, NEW call, NEW answers, NEW places, NEW K,
         KeysStored(call, answers, places, K)
  PROVE  /\ StoreAll(call, answers, places) \in Caches
         /\ \A k : IsCached(StoreAll(call, answers, places), k) =>
              IsCached(cache, k) \/ \E n \in 1 .. Len(places) : k = K[n]
         /\ Len(places) <= config.cacheSize =>
              \A n \in 1 .. Len(places) : Settled(StoreAll(call, answers, places), K[n])
<1>. DEFINE N == Len(places)
<1>1. PICK f \in [0 .. N -> Caches] :
        /\ f[0] = cache /\ \A n \in 1 .. N : f[n] = CacheSet(f[n - 1], K[n], K[n])
        /\ StoreAll(call, answers, places) = f[N]
  BY StoringRuns
<1>2. N \in Nat /\ \A n \in 1 .. N : K[n] \in Keys
  BY DEF KeysStored
<1>. DEFINE T == {n \in 0 .. N : \A k : IsCached(f[n], k) =>
                                   IsCached(cache, k) \/ \E m \in 1 .. n : k = K[m]}
            U == {n \in 0 .. N : /\ NewAtEnd(f[n], cache, n)
                                 /\ \A m \in 1 .. n : Settled(f[n], K[m])}
<1>. HIDE DEF N
<1>3. 0 \in T
  BY <1>1, <1>2
<1>4. ASSUME NEW n \in 0 .. N - 1  
      PROVE  /\ n + 1 \in 1 .. N /\ (n + 1) - 1 = n /\ n \in 0 .. N /\ n + 1 \in 0 .. N
             /\ n \in Nat /\ f[n] \in Caches /\ K[n + 1] \in Keys
             /\ f[n + 1] = CacheSet(f[n], K[n + 1], K[n + 1])
  <2>1. n + 1 \in 1 .. N /\ (n + 1) - 1 = n /\ n \in 0 .. N /\ n + 1 \in 0 .. N /\ n \in Nat
    BY <1>2
  <2>2. f[n] \in Caches /\ K[n + 1] \in Keys  BY <1>1, <1>2, <2>1
  <2>3. f[n + 1] = CacheSet(f[(n + 1) - 1], K[n + 1], K[n + 1])  BY <1>1, <2>1
  <2>. QED BY <2>1, <2>2, <2>3
<1>5. ASSUME NEW n \in 0 .. N - 1, n \in T  PROVE n + 1 \in T
  <2>1. \A k : IsCached(f[n + 1], k) => IsCached(f[n], k) \/ k = K[n + 1]
    BY <1>4, CacheSetKeeps
  <2>2. \A k : IsCached(f[n], k) => IsCached(cache, k) \/ \E m \in 1 .. n : k = K[m]
    BY <1>5
  <2>3. 1 .. n \subseteq 1 .. n + 1 /\ n + 1 \in 1 .. n + 1  BY <1>4
  <2>. QED BY <1>4, <2>1, <2>2, <2>3
<1>6. N \in T
  <2>. HIDE DEF T
  <2>1. 0 .. N \subseteq T  BY <1>2, <1>3, <1>5, Inductive
  <2>. QED BY <1>2, <2>1
<1>7. CASE N <= config.cacheSize
  <2>1. 0 \in U
    <3>1. NewAtEnd(cache, cache, 0)  BY DEF NewAtEnd, IsCached
    <3>. QED BY <1>1, <1>2, <3>1
  <2>2. ASSUME NEW n \in 0 .. N - 1, n \in U  PROVE n + 1 \in U
    <3>1. config.cacheSize \in Nat  BY ConfigFields
    <3>2. n < config.cacheSize  BY <1>2, <1>4, <1>7, <3>1
    <3>3. NewAtEnd(f[n], cache, n)
          /\ \A m \in 1 .. n : Settled(f[n], K[m])
      BY <2>2
    <3>4. /\ NewAtEnd(f[n + 1], cache, n + 1) /\ IsCached(f[n + 1], K[n + 1])
          /\ \A j : IsCached(f[n], j) /\ ~IsCached(cache, j) => IsCached(f[n + 1], j)
          /\ \A j : IsCached(f[n], j) => IsCached(f[n + 1], j) \/ Len(f[n + 1]) = config.cacheSize
          /\ Len(f[n]) = config.cacheSize => Len(f[n + 1]) = config.cacheSize
      BY <1>4, <3>2, <3>3, CacheSetStays
    <3>5. \A m \in 1 .. n + 1 : m = n + 1 \/ m \in 1 .. n  BY <1>4
    <3>6. \A j : Settled(f[n], j) => Settled(f[n + 1], j)
      BY <3>4 DEF Settled
    <3>7. Settled(f[n + 1], K[n + 1])
      BY <3>4 DEF Settled
    <3>8. \A m \in 1 .. n + 1 : Settled(f[n + 1], K[m])
      BY <3>3, <3>5, <3>6, <3>7
    <3>. QED BY <1>4, <3>4, <3>8
  <2>3. N \in U
    <3>. HIDE DEF U
    <3>1. 0 .. N \subseteq U  BY <1>2, <2>1, <2>2, Inductive
    <3>. QED BY <1>2, <3>1
  <2>. QED BY <2>3
<1>8. f[N] \in Caches
  <2>1. N \in 0 .. N  BY <1>2
  <2>. QED BY <2>1
<1>. QED BY <1>1, <1>6, <1>7, <1>8 DEF N
----------------------------------------------------------------------------
(* The invariant *)

\* The vectors of a batch are in.
Answered(call, answers, b) ==
  \A n \in Positions(call.missing, b) :
    answers[n] = CacheKey(call.missing[n], call.input.purpose)

\* A call that waits has the vector of each text or has asked for it, and each
\* batch is still to come, in the hands of a worker, or answered.
Waits(call) ==
  /\ config.provider # "none"
  /\ Len(call.found) = Len(call.input.texts)
  /\ \A i \in 1 .. Len(call.input.texts) :
       \/ call.found[i] = CacheKey(call.input.texts[i], call.input.purpose)
       \/ call.found[i] = Null /\ Asked(call.missing, call.input.texts[i])
  /\ \A b \in 1 .. BatchCount(call.missing) :
       \/ b >= call.next
       \/ \E w \in DOMAIN call.workers : call.workers[w].batch = b
       \/ Answered(call, call.answers, b)

HasOwnVectors(call) ==
  /\ Len(call.outputs) = Len(call.input.texts)
  /\ \A i \in DOMAIN call.outputs : call.outputs[i] =
       IF config.provider = "none" THEN Null ELSE <<call.input.texts[i], call.input.purpose>>

CallFits(call) ==
  /\ call.stage # "idle" => Len(call.answers) = Len(call.missing)
  /\ call.stage = "running" => Waits(call)
  /\ call.stage = "done" => HasOwnVectors(call)

EmbeddingInv ==
  /\ TypeOK
  /\ cache \in Caches
  /\ \A c \in Callers : CallFits(calls[c])

LEMMA KindsOfCalls ==
  ASSUME NEW call \in {NoCall} \cup Calls
  PROVE  /\ call.stage = "idle" <=> call = NoCall
         /\ call.stage # "idle" => call \in Calls
         /\ call.workers \in Seq(Workers) /\ DOMAIN call.workers = 1 .. Len(call.workers)
<1>1. CASE call = NoCall
  <2>1. NoCall \notin Calls /\ NoCall.stage = "idle" /\ NoCall.workers = <<>>
    BY DEF NoCall, Calls
  <2>. QED BY <1>1, <2>1
<1>2. CASE call \in Calls
  <2>1. call.stage \in {"running", "done", "failed"} /\ call.workers \in Seq(Workers)
    BY <1>2 DEF Calls
  <2>2. NoCall.stage = "idle"  BY DEF NoCall
  <2>. QED BY <1>2, <2>1, <2>2
<1>. QED BY <1>1, <1>2

\* What the settings decide stays as they do.
LEMMA SameSettings ==
  ASSUME config' = config
  PROVE  /\ Caches' = Caches /\ Calls' = Calls
         /\ \A call : CallFits(call)' <=> CallFits(call)
<1>1. Caches' = Caches  BY DEF Caches
<1>2. Workers' = Workers  BY DEF Workers
<1>3. Calls' = Calls  BY <1>2 DEF Calls
<1>4. ASSUME NEW call  PROVE CallFits(call)' <=> CallFits(call)
  <2>1. BatchCount(call.missing)' = BatchCount(call.missing)  BY DEF BatchCount
  <2>2. \A b : Positions(call.missing, b)' = Positions(call.missing, b)
    BY DEF Positions, Offset
  <2>3. \A b : Answered(call, call.answers, b)' <=> Answered(call, call.answers, b)
    BY <2>2 DEF Answered
  <2>4. Waits(call)' <=> Waits(call)  BY <2>1, <2>3 DEF Waits, Asked
  <2>5. HasOwnVectors(call)' <=> HasOwnVectors(call)  BY DEF HasOwnVectors
  <2>. QED BY <2>4, <2>5 DEF CallFits
<1>. QED BY <1>1, <1>3, <1>4

LEMMA StepOfCall ==
  ASSUME EmbeddingInv, NEW c \in Callers, NEW call \in Calls, CallFits(call),
         calls' = [calls EXCEPT ![c] = call], UNCHANGED config, cache' \in Caches
  PROVE  EmbeddingInv'
<1>1. /\ config \in Configurations /\ calls \in [Callers -> {NoCall} \cup Calls]
      /\ \A d \in Callers : CallFits(calls[d])
  BY DEF EmbeddingInv, TypeOK
<1>2. calls' \in [Callers -> {NoCall} \cup Calls] /\ \A d \in Callers : CallFits(calls'[d])
  BY <1>1
<1>3. /\ cache' \in Seq(Entries) /\ Len(cache') <= config.cacheSize
      /\ \A i, j \in DOMAIN cache' : cache'[i].key = cache'[j].key => i = j
  BY DEF Caches
<1>4. cache' \in Caches' /\ calls' \in [Callers -> {NoCall} \cup Calls']
  BY <1>2, SameSettings
<1>5. \A d \in Callers : CallFits(calls[d])'
  BY <1>2, SameSettings
<1>6. TypeOK'
  BY <1>1, <1>3, <1>4 DEF TypeOK
<1>. QED BY <1>4, <1>5, <1>6 DEF EmbeddingInv

----------------------------------------------------------------------------
(* The steps *)

LEMMA InitialInv == Init => EmbeddingInv
<1>. SUFFICES ASSUME Init  PROVE EmbeddingInv
  OBVIOUS
<1>1. cache \in Caches /\ cache \in Seq(Entries) /\ Len(cache) <= config.cacheSize
      /\ \A i, j \in DOMAIN cache : cache[i].key = cache[j].key => i = j
  BY ConfigFields DEF Init, Caches
<1>2. \A c \in Callers : CallFits(calls[c])
  BY DEF Init, NoCall, CallFits
<1>. QED BY <1>1, <1>2 DEF Init, EmbeddingInv, TypeOK

LEMMA ExpireKeeps ==
  ASSUME EmbeddingInv, NEW i \in DOMAIN cache, Expire(i)
  PROVE  EmbeddingInv' /\ \A k : IsCached(cache', k) <=> IsCached(cache, k)
<1>1. /\ cache \in Seq(Entries) /\ DOMAIN cache = 1 .. Len(cache) /\ Len(cache) \in Nat
      /\ Len(cache) <= config.cacheSize
      /\ \A j \in 1 .. Len(cache) : cache[j] \in Entries /\ cache[j].value = cache[j].key
      /\ \A j, m \in 1 .. Len(cache) : cache[j].key = cache[m].key => j = m
      /\ config \in Configurations /\ calls \in [Callers -> {NoCall} \cup Calls]
      /\ \A d \in Callers : CallFits(calls[d])
  BY DEF EmbeddingInv, TypeOK, Caches
<1>2. cache' = [cache EXCEPT ![i] = [cache[i] EXCEPT !.fresh = FALSE]]
      /\ config' = config /\ calls' = calls
  BY DEF Expire
<1>. DEFINE entry == [cache[i] EXCEPT !.fresh = FALSE]
<1>3. entry \in Entries /\ entry.key = cache[i].key /\ entry.value = cache[i].value
  BY <1>1 DEF Entries
<1>. HIDE DEF entry
<1>4. /\ cache' \in Seq(Entries) /\ Len(cache') = Len(cache) /\ DOMAIN cache' = 1 .. Len(cache)
      /\ \A j \in 1 .. Len(cache) : cache'[j] = IF j = i THEN entry ELSE cache[j]
  BY <1>1, <1>2, <1>3, ExceptSeq DEF entry
<1>5. \A j \in 1 .. Len(cache) : cache'[j].key = cache[j].key /\ cache'[j].value = cache'[j].key
  BY <1>1, <1>3, <1>4
<1>6. cache' \in Caches
  BY <1>1, <1>4, <1>5 DEF Caches
<1>7. cache' \in Caches' /\ calls' \in [Callers -> {NoCall} \cup Calls']
      /\ \A d \in Callers : CallFits(calls[d])'
  BY <1>1, <1>2, <1>6, SameSettings
<1>8. TypeOK'
  BY <1>1, <1>2, <1>4, <1>5, <1>7 DEF TypeOK
<1>9. \A k : IsCached(cache', k) <=> IsCached(cache, k)
  BY <1>1, <1>4, <1>5 DEF IsCached
<1>. QED BY <1>7, <1>8, <1>9 DEF EmbeddingInv

LEMMA EmbedNothingKeeps ==
  ASSUME EmbeddingInv, NEW c \in Callers, NEW input \in Inputs, EmbedNothing(c, input)
  PROVE  EmbeddingInv'
<1>. DEFINE N == Len(input.texts)
            outputs == [i \in DOMAIN input.texts |-> Null]
            call == [stage |-> "done", input |-> input, found |-> <<>>, missing |-> <<>>,
                     workers |-> <<>>, next |-> 1, answers |-> <<>>, outputs |-> outputs]
<1>1. N \in Nat /\ DOMAIN input.texts = 1 .. N  BY InputFields
<1>2. outputs \in Vectors /\ Len(outputs) = N /\ DOMAIN outputs = 1 .. N
      /\ \A i \in 1 .. N : outputs[i] = Null
  <2>1. outputs \in [1 .. N -> Keys \cup {Null}]  BY <1>1
  <2>. QED BY <1>1, <2>1 DEF Vectors
<1>. HIDE DEF N, outputs
<1>3. <<>> \in Vectors /\ <<>> \in Seq(Texts) /\ <<>> \in Seq(Workers) /\ Len(<<>>) = 0
  BY DEF Vectors
<1>4. call \in Calls  BY <1>2, <1>3 DEF Calls
<1>5. /\ call.stage = "done" /\ call.input = input /\ call.missing = <<>> /\ call.answers = <<>>
      /\ call.outputs = outputs
  OBVIOUS
<1>6. config.provider = "none" /\ calls' = [calls EXCEPT ![c] = call] /\ UNCHANGED <<config, cache>>
  BY DEF EmbedNothing, outputs
<1>. HIDE DEF call
<1>7. HasOwnVectors(call)  BY <1>2, <1>5, <1>6 DEF HasOwnVectors, N
<1>8. CallFits(call)  BY <1>5, <1>7 DEF CallFits
<1>9. cache' \in Caches  BY <1>6 DEF EmbeddingInv
<1>. QED BY <1>4, <1>6, <1>8, <1>9, StepOfCall

\* A call of the provider: it waits for what it asks for, or has all at once.
LEMMA EmbedManyKeeps ==
  ASSUME EmbeddingInv, NEW c \in Callers, NEW input \in Inputs, EmbedMany(c, input)
  PROVE  EmbeddingInv' /\ \A k : IsCached(cache', k) => IsCached(cache, k)
<1>. DEFINE seen == LookUpAll(input)
            N == Len(input.texts)
            count == BatchCount(seen.missing)
            most == config.concurrency
            workers == [w \in 1 .. most |-> IF w <= count THEN Working(w) ELSE Over]
            next == (IF most < count THEN most ELSE count) + 1
            answers == [n \in DOMAIN seen.missing |-> Null]
            call == [stage |-> IF count = 0 THEN "done" ELSE "running", input |-> input,
                     found |-> seen.found, missing |-> seen.missing, workers |-> workers,
                     next |-> next, answers |-> answers,
                     outputs |-> IF count = 0 THEN seen.found ELSE <<>>]
<1>1. config \in Configurations /\ cache \in Caches
  BY DEF EmbeddingInv, TypeOK
<1>2. SeenWell(seen, input, N)
  BY <1>1, LookUpsAreWell
<1>3. /\ config.provider # "none" /\ cache' = seen.cache /\ UNCHANGED config
      /\ calls' = [calls EXCEPT ![c] = call]
  BY DEF EmbedMany
<1>4. N \in Nat /\ most \in Nat /\ most > 0 /\ config.retryMax \in Nat
  BY <1>1, InputFields, ConfigFields
<1>. HIDE DEF seen, N
<1>5. /\ seen.cache \in Caches /\ seen.found \in Vectors /\ seen.missing \in Seq(Texts)
      /\ Len(seen.found) = N
      /\ \A k : IsCached(seen.cache, k) => IsCached(cache, k)
      /\ \A i \in 1 .. N : \/ seen.found[i] = CacheKey(input.texts[i], input.purpose)
                           \/ seen.found[i] = Null /\ Asked(seen.missing, input.texts[i])
  BY <1>2 DEF SeenWell, SeenStates
<1>6. count \in Nat /\ (count = 0 <=> seen.missing = <<>>)
  BY <1>1, <1>5, BatchesCover
<1>. HIDE DEF count, most
<1>7. /\ workers \in Seq(Workers) /\ DOMAIN workers = 1 .. most
      /\ \A w \in 1 .. most : w <= count => workers[w].batch = w
  <2>1. Over \in Workers  BY DEF Workers
  <2>2. \A w \in 1 .. most : Working(w) \in Workers /\ Working(w).batch = w
    BY <1>4 DEF Working, Workers
  <2>3. workers \in [1 .. most -> Workers]  BY <2>1, <2>2
  <2>4. workers \in Seq(Workers) /\ DOMAIN workers = 1 .. most
    <3>. HIDE DEF workers
    <3>. QED BY <1>4, <2>3
  <2>. QED BY <2>2, <2>4
<1>8. next \in Nat \ {0} /\ next <= most + 1 /\ next <= count + 1
  BY <1>4, <1>6
<1>9. answers \in Vectors /\ Len(answers) = Len(seen.missing)
  <2>1. Len(seen.missing) \in Nat /\ DOMAIN seen.missing = 1 .. Len(seen.missing)  BY <1>5
  <2>2. answers \in [1 .. Len(seen.missing) -> Keys \cup {Null}]  BY <2>1
  <2>. HIDE DEF answers
  <2>. QED BY <2>1, <2>2 DEF Vectors
<1>. HIDE DEF workers, next, answers
<1>10. <<>> \in Vectors  BY DEF Vectors
<1>11. call \in Calls
  <2>1. CASE count = 0  BY <1>5, <1>7, <1>8, <1>9, <2>1 DEF Calls
  <2>2. CASE count # 0  BY <1>5, <1>7, <1>8, <1>9, <1>10, <2>2 DEF Calls
  <2>. QED BY <2>1, <2>2
<1>12. /\ call.stage = (IF count = 0 THEN "done" ELSE "running") /\ call.input = input
       /\ call.found = seen.found /\ call.missing = seen.missing /\ call.workers = workers
       /\ call.next = next /\ call.answers = answers
       /\ call.outputs = (IF count = 0 THEN seen.found ELSE <<>>)
  OBVIOUS
<1>. HIDE DEF call
<1>13. ASSUME count = 0  PROVE CallFits(call)
  <2>1. \A t : ~Asked(seen.missing, t)  BY <1>6, <1>13 DEF Asked
  <2>2. \A i \in 1 .. N : seen.found[i] = <<input.texts[i], input.purpose>>
    BY <1>5, <2>1 DEF CacheKey
  <2>3. DOMAIN seen.found = 1 .. N  BY <1>5 DEF Vectors
  <2>4. HasOwnVectors(call)  BY <1>3, <1>5, <1>12, <1>13, <2>2, <2>3 DEF HasOwnVectors, N
  <2>. QED BY <1>9, <1>12, <1>13, <2>4 DEF CallFits
<1>14. ASSUME count # 0  PROVE CallFits(call)
  <2>1. ASSUME NEW b \in 1 .. count
        PROVE  b >= next \/ \E w \in DOMAIN workers : workers[w].batch = b
    <3>1. CASE b <= most  BY <1>7, <3>1
    <3>2. CASE ~(b <= most)  BY <1>4, <1>8, <3>2
    <3>. QED BY <3>1, <3>2
  <2>2. Waits(call)  BY <1>3, <1>5, <1>12, <2>1 DEF Waits, N, count
  <2>. QED BY <1>9, <1>12, <1>14, <2>2 DEF CallFits
<1>. QED BY <1>3, <1>5, <1>11, <1>13, <1>14, StepOfCall

\* A call one of whose workers has a batch.
LEMMA WorkerOf ==
  ASSUME EmbeddingInv, NEW c \in Callers, NEW w \in DOMAIN calls[c].workers,
         calls[c].workers[w] # Over
  PROVE  LET call == calls[c]
         IN  /\ call \in Calls /\ CallFits(call) /\ Len(call.answers) = Len(call.missing)
             /\ call.missing \in Seq(Texts) /\ call.answers \in Vectors
             /\ call.input \in Inputs /\ call.input.purpose \in Purposes
             /\ call.workers \in Seq(Workers) /\ w \in 1 .. Len(call.workers)
             /\ DOMAIN call.workers = 1 .. Len(call.workers)
             /\ call.workers[w] \in Workers
             /\ call.workers[w].batch \in Nat \ {0}
             /\ call.workers[w].attempt \in 0 .. config.retryMax
             /\ call.workers[w].waiting \in BOOLEAN
<1>. DEFINE call == calls[c]
<1>1. call \in {NoCall} \cup Calls /\ CallFits(call)
  BY DEF EmbeddingInv, TypeOK
<1>. HIDE DEF call
<1>2. /\ call.stage = "idle" <=> call = NoCall
      /\ call.stage # "idle" => call \in Calls
      /\ call.workers \in Seq(Workers) /\ DOMAIN call.workers = 1 .. Len(call.workers)
  BY <1>1, KindsOfCalls
<1>3. w \in 1 .. Len(call.workers)  BY <1>2 DEF call
<1>4. call # NoCall
  <2>1. NoCall.workers = <<>>  BY DEF NoCall
  <2>. QED BY <1>3, <2>1
<1>5. call \in Calls /\ Len(call.answers) = Len(call.missing)
  BY <1>1, <1>2, <1>4 DEF CallFits
<1>6. call.missing \in Seq(Texts) /\ call.answers \in Vectors /\ call.input \in Inputs
  BY <1>5 DEF Calls
<1>7. call.input.purpose \in Purposes  BY <1>6, InputFields
<1>8. call.workers[w] \in Workers  BY <1>2, <1>3
<1>9. call.workers[w] \in [batch : Nat \ {0}, attempt : 0 .. config.retryMax, waiting : BOOLEAN]
  <2>1. call.workers[w] # Over  BY DEF call
  <2>. QED BY <1>8, <2>1 DEF Workers
<1>. QED BY <1>1, <1>2, <1>3, <1>5, <1>6, <1>7, <1>8, <1>9 DEF call

\* A worker that goes on with its batch, or a call that fails.
LEMMA WorkerStep ==
  ASSUME EmbeddingInv, NEW c \in Callers, NEW w \in DOMAIN calls[c].workers,
         calls[c].workers[w] # Over, NEW worker \in Workers, NEW stage,
         \/ stage = calls[c].stage /\ worker.batch = calls[c].workers[w].batch
         \/ stage = "failed",
         calls' = [calls EXCEPT ![c] = [@ EXCEPT !.stage = stage, !.workers[w] = worker]],
         UNCHANGED <<config, cache>>
  PROVE  EmbeddingInv'
<1>. DEFINE call == calls[c]
            workers == [call.workers EXCEPT ![w] = worker]
            after == [stage |-> stage, input |-> call.input, found |-> call.found,
                      missing |-> call.missing, workers |-> workers, next |-> call.next,
                      answers |-> call.answers, outputs |-> call.outputs]
<1>1. /\ call \in Calls /\ CallFits(call) /\ Len(call.answers) = Len(call.missing)
      /\ call.workers \in Seq(Workers) /\ w \in 1 .. Len(call.workers)
      /\ DOMAIN call.workers = 1 .. Len(call.workers)
  BY WorkerOf
<1>2. calls' = [calls EXCEPT ![c] = [call EXCEPT !.stage = stage, !.workers = workers]]
      /\ calls \in [Callers -> {NoCall} \cup Calls] /\ cache \in Caches
      /\ ((stage = call.stage /\ worker.batch = call.workers[w].batch) \/ stage = "failed")
  BY DEF EmbeddingInv, TypeOK
<1>. HIDE DEF call
<1>3. workers \in Seq(Workers) /\ DOMAIN workers = DOMAIN call.workers
      /\ \A v \in DOMAIN workers : workers[v] = IF v = w THEN worker ELSE call.workers[v]
  BY <1>1, ExceptSeq
<1>. HIDE DEF workers
<1>4. [call EXCEPT !.stage = stage, !.workers = workers] = after
  <2>. DEFINE failing == [call EXCEPT !.stage = stage]
  <2>1. failing = [stage |-> stage, input |-> call.input, found |-> call.found,
                   missing |-> call.missing, workers |-> call.workers, next |-> call.next,
                   answers |-> call.answers, outputs |-> call.outputs]
    BY <1>1 DEF Calls
  <2>. HIDE DEF failing
  <2>2. [failing EXCEPT !.workers = workers] = after
    BY <2>1
  <2>. QED BY <2>2 DEF failing
<1>5. stage \in {"running", "done", "failed"}
  BY <1>1, <1>2 DEF Calls
<1>6. after \in Calls
  BY <1>1, <1>3, <1>5 DEF Calls
<1>7. /\ after.stage = stage /\ after.input = call.input /\ after.found = call.found
      /\ after.missing = call.missing /\ after.workers = workers /\ after.next = call.next
      /\ after.answers = call.answers /\ after.outputs = call.outputs
  OBVIOUS
<1>8. calls' = [calls EXCEPT ![c] = after]
  BY <1>2, <1>4
<1>. HIDE DEF after
<1>9. ASSUME stage = "running"  PROVE Waits(after)
  <2>1. Waits(call) /\ worker.batch = call.workers[w].batch  BY <1>1, <1>2, <1>9 DEF CallFits
  <2>2. \A b : (\E v \in DOMAIN call.workers : call.workers[v].batch = b)
                 => \E v \in DOMAIN workers : workers[v].batch = b
    BY <1>1, <1>3, <2>1
  <2>3. \A b : Answered(call, call.answers, b) => Answered(after, after.answers, b)
    BY <1>7 DEF Answered
  <2>. QED BY <1>7, <2>1, <2>2, <2>3 DEF Waits
<1>10. ASSUME stage = "done"  PROVE HasOwnVectors(after)
  BY <1>1, <1>2, <1>7, <1>10 DEF CallFits, HasOwnVectors
<1>11. CallFits(after)
  BY <1>1, <1>7, <1>9, <1>10 DEF CallFits
<1>12. cache' \in Caches
  BY <1>2
<1>. QED BY <1>6, <1>8, <1>11, <1>12, StepOfCall

LEMMA TimerKeeps ==
  ASSUME EmbeddingInv, NEW c \in Callers, NEW w, TimerStep(c, w)
  PROVE  EmbeddingInv' /\ UNCHANGED cache /\ calls'[c].stage \in {calls[c].stage, "failed"}
         /\ \A d \in Callers \ {c} : calls'[d] = calls[d]
<1>. DEFINE worker == calls[c].workers[w]
<1>1. w \in DOMAIN calls[c].workers /\ worker # Over /\ UNCHANGED <<config, cache>>
  BY DEF TimerStep, FailAndRetry, Fail, Retry, Requesting, Over
<1>2. /\ calls[c] \in Calls /\ worker \in Workers
      /\ worker.batch \in Nat \ {0} /\ worker.attempt \in 0 .. config.retryMax
      /\ worker.waiting \in BOOLEAN /\ config.retryMax \in Nat
      /\ calls \in [Callers -> {NoCall} \cup Calls]
  BY <1>1, WorkerOf, ConfigFields DEF EmbeddingInv, TypeOK
<1>3. worker \in [batch : Nat \ {0}, attempt : 0 .. config.retryMax, waiting : BOOLEAN]
  BY <1>1, <1>2 DEF Workers
<1>. DEFINE Goes(stage, new) ==
              calls' = [calls EXCEPT ![c] = [@ EXCEPT !.stage = stage, !.workers[w] = new]]
<1>4. ASSUME FailAndRetry(c, w)
      PROVE  Retried(worker) \in Workers /\ Retried(worker).batch = worker.batch
             /\ Goes(calls[c].stage, Retried(worker))
  <2>1. worker.attempt < config.retryMax
        /\ calls' = [calls EXCEPT ![c] = [@ EXCEPT !.workers[w] = Retried(worker)]]
    BY <1>4 DEF FailAndRetry
  <2>2. worker.attempt + 1 \in 0 .. config.retryMax  BY <1>2, <2>1
  <2>. HIDE DEF worker
  <2>3. Retried(worker) \in Workers /\ Retried(worker).batch = worker.batch
    BY <1>3, <2>2 DEF Retried, Workers
  <2>4. [calls[c] EXCEPT !.workers[w] = Retried(worker)]
          = [calls[c] EXCEPT !.stage = calls[c].stage, !.workers[w] = Retried(worker)]
    BY <1>2 DEF Calls
  <2>. QED BY <2>1, <2>3, <2>4
<1>5. ASSUME Retry(c, w)
      PROVE  \E new \in Workers : new.batch = worker.batch /\ Goes(calls[c].stage, new)
  <2>. DEFINE new == [worker EXCEPT !.waiting = FALSE]
  <2>1. calls' = [calls EXCEPT ![c] = [@ EXCEPT !.workers[w] = new]]
    BY <1>5 DEF Retry
  <2>2. new \in Workers /\ new.batch = worker.batch
    <3>. HIDE DEF worker
    <3>. QED BY <1>3 DEF Workers
  <2>. HIDE DEF new
  <2>3. [calls[c] EXCEPT !.workers[w] = new]
          = [calls[c] EXCEPT !.stage = calls[c].stage, !.workers[w] = new]
    BY <1>2 DEF Calls
  <2>. QED BY <2>1, <2>2, <2>3
<1>6. ASSUME Fail(c, w)  PROVE Over \in Workers /\ Goes("failed", Over)
  BY <1>6 DEF Fail, Workers
<1>7. PICK stage \in {calls[c].stage, "failed"}, new \in Workers :
        /\ (stage = calls[c].stage /\ new.batch = worker.batch) \/ stage = "failed"
        /\ Goes(stage, new)
  BY <1>4, <1>5, <1>6 DEF TimerStep
<1>8. EmbeddingInv'
  BY <1>1, <1>7, WorkerStep
<1>9. calls'[c].stage = stage /\ \A d \in Callers \ {c} : calls'[d] = calls[d]
  BY <1>2, <1>7 DEF Calls
<1>. QED BY <1>1, <1>7, <1>8, <1>9

\* Whatever the provider sends for a batch, if it is enough for the batch, its
\* results are the vectors of the texts in their order.
LEMMA PayloadOfBatch ==
  ASSUME NEW k \in Nat, NEW batch, DOMAIN batch = 1 .. k, Len(batch) = k, NEW purpose,
         NEW payload \in Payloads(batch, purpose), Len(payload) = Len(batch)
  PROVE  \A i \in 1 .. k : Results(payload)[i] = <<batch[i], purpose>>
<1>. DEFINE Of(order) == [i \in DOMAIN order |->
                            [index |-> order[i], embedding |-> <<batch[order[i]], purpose>>]]
<1>1. PICK order : /\ order \in UNION {[1 .. n -> DOMAIN batch] : n \in 0 .. Len(batch)}
                   /\ IsInjective(order) /\ payload = Of(order)
  BY Zenon DEF Payloads
<1>2. PICK n \in 0 .. Len(batch) : order \in [1 .. n -> DOMAIN batch]
  BY <1>1, Zenon
<1>3. DOMAIN payload = 1 .. n /\ n \in Nat  BY <1>1, <1>2
<1>4. n = k
  <2>1. payload \in Seq({payload[i] : i \in 1 .. n})
    <3>1. payload \in [1 .. n -> {payload[i] : i \in 1 .. n}]  BY <1>1, <1>3
    <3>. QED BY <1>3, <3>1
  <2>2. Len(payload) = n  BY <1>3, <2>1
  <2>. QED BY <2>2
<1>5. order \in [1 .. k -> 1 .. k] /\ \A i, j \in 1 .. k : order[i] = order[j] => i = j
  BY <1>1, <1>2, <1>4 DEF IsInjective
<1>6. /\ DOMAIN payload = 1 .. k
      /\ \A i \in 1 .. k : /\ payload[i].index = order[i]
                           /\ payload[i].embedding = <<batch[order[i]], purpose>>
  BY <1>1, <1>5
<1>7. Ordered(payload, order, k, batch, purpose)
  BY <1>5, <1>6 DEF Ordered
<1>. QED BY <1>7, ResultsInOrder

\* An answer files the vectors of its batch and leaves the others as they are.
LEMMA FiledWell ==
  ASSUME config \in Configurations, NEW call \in Calls, Len(call.answers) = Len(call.missing),
         NEW b \in Nat \ {0},
         NEW payload \in Payloads(Batch(call.missing, b), call.input.purpose),
         Len(payload) = Len(Batch(call.missing, b))
  PROVE  LET answers == Filed(call, b, payload)
         IN  /\ answers \in Vectors /\ Len(answers) = Len(call.missing)
             /\ Answered(call, answers, b)
             /\ \A a : Answered(call, call.answers, a) => Answered(call, answers, a)
<1>. DEFINE answers == Filed(call, b, payload)
            L == Len(call.missing)
            purpose == call.input.purpose
            P == Positions(call.missing, b)
            batch == Batch(call.missing, b)
<1>1. /\ call.missing \in Seq(Texts) /\ call.answers \in Vectors /\ purpose \in Purposes
      /\ L \in Nat /\ DOMAIN call.missing = 1 .. L
      /\ \A n \in 1 .. L : call.missing[n] \in Texts
  BY InputFields DEF Calls
<1>2. PICK k \in Nat :
        /\ DOMAIN batch = 1 .. k /\ batch \in [1 .. k -> Texts]
        /\ \A n \in P : n - Offset(b) \in 1 .. k /\ batch[n - Offset(b)] = call.missing[n]
  BY <1>1, BatchIsSequence
<1>3. \A i \in 1 .. k : Results(payload)[i] = <<batch[i], purpose>>
  <2>1. Len(batch) = k
    <3>. HIDE DEF batch
    <3>. QED BY <1>2
  <2>. HIDE DEF batch, purpose
  <2>2. payload \in Payloads(batch, purpose) /\ Len(payload) = Len(batch)
    BY DEF batch, purpose
  <2>. QED BY <1>2, <2>1, <2>2, PayloadOfBatch
<1>. HIDE DEF batch
<1>4. ASSUME NEW n \in P  PROVE answers[n] = CacheKey(call.missing[n], purpose)
  <2>1. n \in DOMAIN call.missing  BY DEF Positions
  <2>2. answers[n] = Results(payload)[n - Offset(b)]  BY <2>1 DEF Filed
  <2>. QED BY <1>2, <1>3, <2>2 DEF CacheKey
<1>5. ASSUME NEW n \in 1 .. L, n \notin P  PROVE answers[n] = call.answers[n]
  BY <1>1, <1>5 DEF Filed
<1>6. DOMAIN answers = 1 .. L /\ answers = [n \in 1 .. L |-> answers[n]]
  BY <1>1 DEF Filed
<1>. HIDE DEF answers, P, L
<1>7. \A n \in 1 .. L : answers[n] \in Keys \cup {Null}
  <2>1. ASSUME NEW n \in 1 .. L  PROVE answers[n] \in Keys \cup {Null}
    <3>1. CASE n \in P
      <4>1. CacheKey(call.missing[n], purpose) \in Keys  BY <1>1 DEF CacheKey, Keys
      <4>. QED BY <1>4, <3>1, <4>1
    <3>2. CASE n \notin P
      <4>1. call.answers[n] \in Keys \cup {Null}  BY <1>1 DEF Vectors, L
      <4>. QED BY <1>5, <3>2, <4>1
    <3>. QED BY <3>1, <3>2
  <2>. QED BY <2>1
<1>8. answers \in Vectors /\ Len(answers) = L
  <2>1. answers \in [1 .. L -> Keys \cup {Null}]  BY <1>6, <1>7
  <2>. QED BY <1>1, <2>1 DEF Vectors
<1>9. Answered(call, answers, b)
  BY <1>4 DEF Answered, P, purpose
<1>10. ASSUME NEW a, Answered(call, call.answers, a)  PROVE Answered(call, answers, a)
  <2>1. ASSUME NEW n \in Positions(call.missing, a)
        PROVE  answers[n] = CacheKey(call.missing[n], purpose)
    <3>1. n \in 1 .. L  BY <1>1 DEF Positions
    <3>2. CASE n \in P  BY <1>4, <3>2
    <3>3. CASE n \notin P
      <4>1. call.answers[n] = CacheKey(call.missing[n], purpose)  BY <1>10 DEF Answered, purpose
      <4>. QED BY <1>5, <3>1, <3>3, <4>1
    <3>. QED BY <3>2, <3>3
  <2>. QED BY <2>1 DEF Answered, purpose
<1>. QED BY <1>8, <1>9, <1>10 DEF answers, L

\* When all batches are answered, so are all texts.
LEMMA AllAnswered ==
  ASSUME config \in Configurations, NEW call \in Calls, Waits(call), NEW answers,
         \A b \in 1 .. BatchCount(call.missing) : Answered(call, answers, b)
  PROVE  /\ \A n \in DOMAIN call.missing :
              answers[n] = CacheKey(call.missing[n], call.input.purpose)
         /\ Len(OutputsOf(call, answers)) = Len(call.input.texts)
         /\ OutputsOf(call, answers) \in Vectors
         /\ \A i \in 1 .. Len(call.input.texts) :
              OutputsOf(call, answers)[i] = <<call.input.texts[i], call.input.purpose>>
<1>. DEFINE N == Len(call.input.texts)
            purpose == call.input.purpose
            outputs == OutputsOf(call, answers)
            Place(t) == CHOOSE n \in DOMAIN call.missing : call.missing[n] = t
<1>1. /\ call.missing \in Seq(Texts) /\ call.found \in Vectors /\ purpose \in Purposes
      /\ N \in Nat /\ \A i \in 1 .. N : call.input.texts[i] \in Texts
  BY InputFields DEF Calls
<1>2. \A n \in DOMAIN call.missing : answers[n] = CacheKey(call.missing[n], purpose)
  <2>1. ASSUME NEW n \in DOMAIN call.missing  PROVE answers[n] = CacheKey(call.missing[n], purpose)
    <3>1. PICK b \in 1 .. BatchCount(call.missing) : n \in Positions(call.missing, b)
      BY <1>1, BatchesCover
    <3>. QED BY <3>1 DEF Answered
  <2>. QED BY <2>1
<1>3. DOMAIN call.found = 1 .. N /\ Len(call.found) = N
  BY <1>1 DEF Waits, Vectors
<1>4. outputs = [i \in 1 .. N |-> IF call.found[i] # Null THEN call.found[i]
                                  ELSE answers[Place(call.input.texts[i])]]
  BY <1>3 DEF OutputsOf
<1>5. ASSUME NEW i \in 1 .. N  PROVE outputs[i] = <<call.input.texts[i], purpose>>
  <2>. DEFINE t == call.input.texts[i]
  <2>1. CacheKey(t, purpose) = <<t, purpose>> /\ CacheKey(t, purpose) # Null
    BY <1>1, NullAssumption DEF CacheKey
  <2>2. CASE call.found[i] = CacheKey(t, purpose)
    <3>1. outputs[i] = call.found[i]  BY <1>4, <2>1, <2>2
    <3>. QED BY <2>1, <2>2, <3>1
  <2>3. CASE call.found[i] = Null /\ Asked(call.missing, t)
    <3>1. Place(t) \in DOMAIN call.missing /\ call.missing[Place(t)] = t  BY <2>3 DEF Asked
    <3>. HIDE DEF Place
    <3>2. outputs[i] = answers[Place(t)]  BY <1>4, <2>3
    <3>3. answers[Place(t)] = CacheKey(t, purpose)  BY <1>2, <3>1
    <3>. QED BY <2>1, <3>2, <3>3
  <2>. QED BY <2>2, <2>3 DEF Waits
<1>6. outputs \in Vectors /\ Len(outputs) = N
  <2>1. DOMAIN outputs = 1 .. N /\ outputs = [i \in 1 .. N |-> outputs[i]]
    <3>1. \E F : outputs = F /\ DOMAIN F = 1 .. N /\ F = [i \in 1 .. N |-> F[i]]  BY <1>4
    <3>. QED BY <3>1
  <2>2. \A i \in 1 .. N : <<call.input.texts[i], purpose>> \in Keys  BY <1>1 DEF Keys
  <2>. HIDE DEF outputs
  <2>3. outputs \in [1 .. N -> Keys]  BY <1>5, <2>1, <2>2
  <2>. QED BY <1>1, <2>3 DEF Vectors
<1>. QED BY <1>2, <1>5, <1>6

\* The answer to a batch: the call goes on, or caches what it learned and returns.
Returns(c) == calls[c].stage = "running" /\ calls'[c].stage = "done"
Learns(c) ==
  LET call == calls[c]
      KeyOf(n) == CacheKey(call.missing[n], call.input.purpose)
  IN  /\ \A k : IsCached(cache', k) =>
           IsCached(cache, k) \/ \E n \in DOMAIN call.missing : k = KeyOf(n)
      /\ Len(call.missing) <= config.cacheSize =>
           \A n \in DOMAIN call.missing :
             IsCached(cache', KeyOf(n)) \/ (IsCached(cache, KeyOf(n)) /\ Len(cache') = config.cacheSize)

LEMMA AnswerKeeps ==
  ASSUME EmbeddingInv, NEW c \in Callers, NEW w \in DOMAIN calls[c].workers,
         NEW payload \in Payloads(Batch(calls[c].missing, calls[c].workers[w].batch),
                                  calls[c].input.purpose),
         Answer(c, w, payload)
  PROVE  /\ EmbeddingInv'
         /\ UNCHANGED cache \/ (Returns(c) /\ Learns(c))
         /\ Returns(c) => Learns(c)
         /\ \A d \in Callers \ {c} : calls'[d] = calls[d]
<1>. DEFINE call == calls[c]
            b == call.workers[w].batch
            count == BatchCount(call.missing)
            answers == Filed(call, b, payload)
            more == call.next <= count
            after == [call.workers EXCEPT ![w] = IF more THEN Working(call.next) ELSE Over]
            returns == call.stage = "running" /\ \A v \in DOMAIN after : after[v] = Over
            next == IF more THEN call.next + 1 ELSE call.next
            stage == IF returns THEN "done" ELSE call.stage
            outputs == IF returns THEN OutputsOf(call, answers) ELSE call.outputs
            new == [stage |-> stage, input |-> call.input, found |-> call.found,
                    missing |-> call.missing, workers |-> after, next |-> next,
                    answers |-> answers, outputs |-> outputs]
<1>1. /\ config \in Configurations /\ cache \in Caches
      /\ calls \in [Callers -> {NoCall} \cup Calls]
  BY DEF EmbeddingInv, TypeOK
<1>2. call.workers[w] # Over
  BY DEF Answer, Requesting
<1>3. /\ call \in Calls /\ CallFits(call) /\ Len(call.answers) = Len(call.missing)
      /\ call.missing \in Seq(Texts) /\ call.answers \in Vectors
      /\ call.input.purpose \in Purposes
      /\ call.workers \in Seq(Workers) /\ w \in 1 .. Len(call.workers)
      /\ DOMAIN call.workers = 1 .. Len(call.workers) /\ b \in Nat \ {0}
  BY <1>2, WorkerOf
<1>4. /\ Len(payload) = Len(Batch(call.missing, b))
      /\ cache' = StoreAll(call, answers, Stored(call, b, returns))
      /\ calls' = [calls EXCEPT ![c] = [call EXCEPT
           !.workers = after, !.answers = answers, !.next = next, !.stage = stage,
           !.outputs = outputs]]
      /\ UNCHANGED config
  BY Zenon DEF Answer
<1>5. /\ answers \in Vectors /\ Len(answers) = Len(call.missing)
      /\ Answered(call, answers, b)
      /\ \A a : Answered(call, call.answers, a) => Answered(call, answers, a)
  <2>1. payload \in Payloads(Batch(call.missing, b), call.input.purpose)  OBVIOUS
  <2>. HIDE DEF call, b, answers
  <2>. QED BY <1>1, <1>3, <1>4, <2>1, FiledWell DEF answers
<1>6. count \in Nat /\ (count = 0 <=> call.missing = <<>>) /\ call.next \in Nat \ {0}
  BY <1>1, <1>3, BatchesCover DEF Calls
<1>7. calls' = [calls EXCEPT ![c] = new]
  <2>. HIDE DEF call, answers, after, returns, more
  <2>. DEFINE r1 == [call EXCEPT !.workers = after]
              r2 == [r1 EXCEPT !.answers = answers]
              r3 == [r2 EXCEPT !.next = next]
              r4 == [r3 EXCEPT !.stage = stage]
  <2>. HIDE DEF next, stage, outputs
  <2>1. r1 = [stage |-> call.stage, input |-> call.input, found |-> call.found,
              missing |-> call.missing, workers |-> after, next |-> call.next,
              answers |-> call.answers, outputs |-> call.outputs]
    BY <1>3 DEF Calls
  <2>. HIDE DEF r1
  <2>2. r2 = [stage |-> call.stage, input |-> call.input, found |-> call.found,
              missing |-> call.missing, workers |-> after, next |-> call.next,
              answers |-> answers, outputs |-> call.outputs]
    BY <2>1
  <2>. HIDE DEF r2
  <2>3. r3 = [stage |-> call.stage, input |-> call.input, found |-> call.found,
              missing |-> call.missing, workers |-> after, next |-> next,
              answers |-> answers, outputs |-> call.outputs]
    BY <2>2
  <2>. HIDE DEF r3
  <2>4. r4 = [stage |-> stage, input |-> call.input, found |-> call.found,
              missing |-> call.missing, workers |-> after, next |-> next,
              answers |-> answers, outputs |-> call.outputs]
    BY <2>3
  <2>. HIDE DEF r4
  <2>5. [r4 EXCEPT !.outputs = outputs] = new
    BY <2>4
  <2>. HIDE DEF new
  <2>6. calls' = [calls EXCEPT ![c] = [r4 EXCEPT !.outputs = outputs]]
    BY <1>4 DEF r4, r3, r2, r1
  <2>. QED BY <2>5, <2>6
<1>8. /\ after \in Seq(Workers) /\ DOMAIN after = DOMAIN call.workers
      /\ \A v \in DOMAIN after : after[v] = IF v = w THEN (IF more THEN Working(call.next) ELSE Over)
                                                    ELSE call.workers[v]
  <2>1. (IF more THEN Working(call.next) ELSE Over) \in Workers
    <3>1. config.retryMax \in Nat  BY <1>1, ConfigFields
    <3>2. Working(call.next) \in Workers /\ Over \in Workers
      BY <1>6, <3>1 DEF Working, Workers
    <3>. QED BY <3>2
  <2>. HIDE DEF call, more
  <2>. QED BY <1>3, <2>1, ExceptSeq
<1>9. Working(call.next).batch = call.next /\ Working(call.next) # Over
  BY <1>6 DEF Working, Over
<1>. HIDE DEF after, answers, count, call
<1>10. ASSUME call.stage = "running"
       PROVE  \A a \in 1 .. count :
                \/ a >= next
                \/ \E v \in DOMAIN after : after[v].batch = a
                \/ Answered(call, answers, a)
  <2>1. Waits(call)  BY <1>3, <1>10 DEF CallFits
  <2>2. TAKE a \in 1 .. count
  <2>3. CASE a >= call.next
    <3>1. more  BY <1>6, <2>3
    <3>2. CASE a = call.next
      <4>1. after[w].batch = a  BY <1>3, <1>8, <1>9, <3>1, <3>2
      <4>. QED BY <1>3, <1>8, <4>1
    <3>3. CASE a # call.next  BY <1>6, <2>3, <3>1, <3>3
    <3>. QED BY <3>2, <3>3
  <2>4. ASSUME NEW v \in DOMAIN call.workers, call.workers[v].batch = a
        PROVE  (\E u \in DOMAIN after : after[u].batch = a) \/ Answered(call, answers, a)
    <3>1. CASE v = w  BY <1>5, <2>4, <3>1 DEF b
    <3>2. CASE v # w
      <4>1. v \in DOMAIN after /\ after[v].batch = a  BY <1>8, <2>4, <3>2
      <4>. QED BY <4>1
    <3>. QED BY <3>1, <3>2
  <2>5. CASE Answered(call, call.answers, a)  BY <1>5, <2>5
  <2>. QED BY <2>1, <2>3, <2>4, <2>5 DEF Waits, count
<1>11. ASSUME returns  PROVE \A a \in 1 .. count : Answered(call, answers, a)
  <2>1. after[w] = Over  BY <1>3, <1>8, <1>11
  <2>2. ~more  BY <1>3, <1>8, <1>9, <2>1
  <2>3. \A a \in 1 .. count : ~(a >= next)  BY <1>6, <2>2
  <2>4. \A v \in DOMAIN after : after[v].batch = 0  BY <1>11 DEF Over
  <2>5. \A a \in 1 .. count : \A v \in DOMAIN after : after[v].batch # a  BY <1>6, <2>4
  <2>. QED BY <1>10, <1>11, <2>3, <2>5
<1>12. ASSUME returns
       PROVE  /\ \A n \in DOMAIN call.missing :
                   answers[n] = CacheKey(call.missing[n], call.input.purpose)
              /\ outputs \in Vectors /\ Len(outputs) = Len(call.input.texts)
              /\ \A i \in 1 .. Len(call.input.texts) :
                   outputs[i] = <<call.input.texts[i], call.input.purpose>>
  <2>1. Waits(call)  BY <1>3, <1>12 DEF CallFits
  <2>2. outputs = OutputsOf(call, answers)  BY <1>12
  <2>. HIDE DEF outputs
  <2>. QED BY <1>1, <1>3, <1>11, <1>12, <2>1, <2>2, AllAnswered DEF count
<1>13. /\ next \in Nat \ {0} /\ stage \in {"running", "done", "failed"} /\ outputs \in Vectors
  <2>1. outputs \in Vectors
    <3>1. CASE returns  BY <1>12, <3>1
    <3>2. CASE ~returns  BY <1>3, <3>2 DEF Calls
    <3>. QED BY <3>1, <3>2
  <2>2. stage \in {"running", "done", "failed"}  BY <1>3 DEF Calls
  <2>. QED BY <1>6, <2>1, <2>2
<1>14. stage = "running" => call.stage = "running"
  OBVIOUS
<1>15. stage = "done" => returns \/ (call.stage = "done" /\ outputs = call.outputs)
  OBVIOUS
<1>. HIDE DEF next, stage, outputs, returns
<1>16. new \in Calls
  BY <1>3, <1>5, <1>8, <1>13 DEF Calls
<1>17. /\ new.stage = stage /\ new.input = call.input /\ new.found = call.found
       /\ new.missing = call.missing /\ new.workers = after /\ new.next = next
       /\ new.answers = answers /\ new.outputs = outputs
  OBVIOUS
<1>. HIDE DEF new
<1>18. ASSUME stage = "running"  PROVE Waits(new)
  <2>1. Waits(call)  BY <1>3, <1>14, <1>18 DEF CallFits
  <2>2. \A a : Answered(call, answers, a) => Answered(new, new.answers, a)
    BY <1>17 DEF Answered
  <2>. QED BY <1>10, <1>14, <1>17, <1>18, <2>1, <2>2 DEF Waits, count
<1>19. ASSUME stage = "done"  PROVE HasOwnVectors(new)
  <2>1. CASE returns
    <3>1. Waits(call)  BY <1>3, <2>1 DEF CallFits, returns
    <3>2. DOMAIN outputs = 1 .. Len(call.input.texts)  BY <1>12, <2>1 DEF Vectors
    <3>. QED BY <1>12, <1>17, <2>1, <3>1, <3>2 DEF HasOwnVectors, Waits
  <2>2. CASE call.stage = "done" /\ outputs = call.outputs
    BY <1>3, <1>17, <2>2 DEF CallFits, HasOwnVectors
  <2>. QED BY <1>15, <1>19, <2>1, <2>2
<1>20. CallFits(new)
  BY <1>5, <1>17, <1>18, <1>19 DEF CallFits
<1>21. /\ \A d \in Callers \ {c} : calls'[d] = calls[d]
       /\ calls'[c] = new
  BY <1>1, <1>7
<1>22. ASSUME returns
       PROVE  cache' \in Caches /\ Learns(c)
  <2>. DEFINE places == [n \in DOMAIN call.missing |-> n]
              L == Len(call.missing)
              K == [n \in 1 .. L |-> CacheKey(call.missing[n], call.input.purpose)]
  <2>1. L \in Nat /\ DOMAIN call.missing = 1 .. L /\ \A n \in 1 .. L : call.missing[n] \in Texts
    BY <1>3
  <2>2. /\ places \in Seq(Nat) /\ Len(places) = L /\ \A n \in 1 .. L : places[n] = n
    <3>1. places \in [1 .. L -> Nat]  BY <2>1
    <3>2. \A n \in 1 .. L : places[n] = n  BY <2>1
    <3>. HIDE DEF places, L
    <3>. QED BY <2>1, <3>1, <3>2
  <2>3. K \in [1 .. L -> Keys]
    BY <1>3, <2>1 DEF CacheKey, Keys
  <2>4. \A n \in 1 .. L : K[n] = CacheKey(call.missing[n], call.input.purpose) /\ answers[n] = K[n]
    BY <1>12, <1>22, <2>1
  <2>5. Stored(call, b, returns) = places
    BY <1>22 DEF Stored
  <2>. HIDE DEF places, L, K
  <2>6. KeysStored(call, answers, places, K)
    BY <2>2, <2>3, <2>4 DEF KeysStored
  <2>7. /\ StoreAll(call, answers, places) \in Caches
        /\ \A k : IsCached(StoreAll(call, answers, places), k) =>
             IsCached(cache, k) \/ \E n \in 1 .. L : k = K[n]
        /\ L <= config.cacheSize =>
             \A n \in 1 .. L : Settled(StoreAll(call, answers, places), K[n])
    BY <1>1, <2>2, <2>6, StoredAll
  <2>8. cache' = StoreAll(call, answers, places)
    BY <1>4, <2>5
  <2>9. Learns(c)
    BY <2>1, <2>4, <2>7, <2>8 DEF Learns, Settled, call, L
  <2>. QED BY <2>7, <2>8, <2>9
<1>23. ASSUME ~returns  PROVE cache' = cache
  <2>1. Stored(call, b, returns) = <<>>  BY <1>23 DEF Stored
  <2>2. StoreAll(call, answers, <<>>) = cache
    BY NothingStored
  <2>. QED BY <1>4, <2>1, <2>2
<1>24. cache' \in Caches
  BY <1>1, <1>22, <1>23
<1>25. EmbeddingInv'
  BY <1>4, <1>7, <1>16, <1>20, <1>24, StepOfCall
<1>26. Returns(c) <=> returns
  BY <1>17, <1>21 DEF Returns, call, stage, returns
<1>. QED BY <1>21, <1>22, <1>23, <1>25, <1>26

----------------------------------------------------------------------------
(* The theorems *)

\* A step caches nothing new unless a call returns, and a call that returns
\* has cached what it learned.
Learning ==
  /\ (\A k : IsCached(cache', k) => IsCached(cache, k)) \/ \E c \in Callers : Returns(c) /\ Learns(c)
  /\ \A c \in Callers : Returns(c) => Learns(c)

LEMMA NothingLearned ==
  ASSUME \A k : IsCached(cache', k) => IsCached(cache, k),
         \A c \in Callers : calls[c].stage = "running" => calls'[c].stage # "done"
  PROVE  Learning
BY DEF Learning, Returns

LEMMA StepKeeps ==
  ASSUME EmbeddingInv, [Next]_vars
  PROVE  EmbeddingInv' /\ Learning
<1>1. calls \in [Callers -> {NoCall} \cup Calls]  BY DEF EmbeddingInv, TypeOK
<1>2. ASSUME UNCHANGED vars  PROVE EmbeddingInv' /\ Learning
  <2>1. config' = config /\ cache' = cache /\ calls' = calls  BY <1>2 DEF vars
  <2>2. Caches' = Caches /\ Calls' = Calls /\ \A call : CallFits(call)' <=> CallFits(call)
    BY <2>1, SameSettings
  <2>3. TypeOK'  BY <2>1, <2>2 DEF EmbeddingInv, TypeOK
  <2>4. \A c \in Callers : CallFits(calls[c])'  BY <2>1, <2>2 DEF EmbeddingInv
  <2>5. Learning  BY <2>1, NothingLearned
  <2>. QED BY <2>1, <2>2, <2>3, <2>4, <2>5 DEF EmbeddingInv
<1>3. ASSUME NEW i \in DOMAIN cache, Expire(i)  PROVE EmbeddingInv' /\ Learning
  <2>1. calls' = calls  BY <1>3 DEF Expire
  <2>2. EmbeddingInv' /\ \A k : IsCached(cache', k) <=> IsCached(cache, k)  BY <1>3, ExpireKeeps
  <2>3. Learning  BY <2>1, <2>2, NothingLearned
  <2>. QED BY <2>2, <2>3
<1>4. ASSUME NEW c \in Callers, NEW input \in Inputs, EmbedMany(c, input)
      PROVE  EmbeddingInv' /\ Learning
  <2>1. EmbeddingInv' /\ \A k : IsCached(cache', k) => IsCached(cache, k)
    BY <1>4, EmbedManyKeeps
  <2>2. calls[c].stage # "running" /\ \A d \in Callers \ {c} : calls'[d] = calls[d]
    <3>1. \E new : calls' = [calls EXCEPT ![c] = new]  BY <1>4, Zenon DEF EmbedMany
    <3>2. calls[c].stage # "running"  BY <1>4 DEF EmbedMany
    <3>. QED BY <1>1, <3>1, <3>2
  <2>3. Learning  BY <2>1, <2>2, NothingLearned
  <2>. QED BY <2>1, <2>3
<1>5. ASSUME NEW c \in Callers, NEW input \in Inputs, EmbedNothing(c, input)
      PROVE  EmbeddingInv' /\ Learning
  <2>1. EmbeddingInv'  BY <1>5, EmbedNothingKeeps
  <2>2. calls[c].stage = "idle" /\ cache' = cache /\ \A d \in Callers \ {c} : calls'[d] = calls[d]
    <3>1. \E new : calls' = [calls EXCEPT ![c] = new]  BY <1>5, Zenon DEF EmbedNothing
    <3>2. calls[c].stage = "idle" /\ cache' = cache  BY <1>5 DEF EmbedNothing
    <3>. QED BY <1>1, <3>1, <3>2
  <2>3. Learning  BY <2>2, NothingLearned
  <2>. QED BY <2>1, <2>3
<1>6. ASSUME NEW c \in Callers, NEW w \in DOMAIN calls[c].workers, TimerStep(c, w)
      PROVE  EmbeddingInv' /\ Learning
  <2>1. EmbeddingInv' /\ UNCHANGED cache /\ calls'[c].stage \in {calls[c].stage, "failed"}
        /\ \A d \in Callers \ {c} : calls'[d] = calls[d]
    BY <1>6, TimerKeeps
  <2>2. Learning  BY <2>1, NothingLearned
  <2>. QED BY <2>1, <2>2
<1>7. ASSUME NEW c \in Callers, NEW w \in DOMAIN calls[c].workers,
             NEW payload \in Payloads(Batch(calls[c].missing, calls[c].workers[w].batch),
                                      calls[c].input.purpose),
             Answer(c, w, payload)
      PROVE  EmbeddingInv' /\ Learning
  <2>1. /\ EmbeddingInv'
        /\ UNCHANGED cache \/ (Returns(c) /\ Learns(c))
        /\ Returns(c) => Learns(c)
        /\ \A d \in Callers \ {c} : calls'[d] = calls[d]
    BY <1>7, AnswerKeeps
  <2>2. \A d \in Callers : Returns(d) => Learns(d)
    <3>1. \A d \in Callers \ {c} : ~Returns(d)  BY <2>1 DEF Returns
    <3>. QED BY <2>1, <3>1
  <2>3. Learning  BY <2>1, <2>2 DEF Learning
  <2>. QED BY <2>1, <2>3
<1>. QED BY <1>2, <1>3, <1>4, <1>5, <1>6, <1>7, Zenon DEF Next

LEMMA EmbeddingAlways == Spec => []EmbeddingInv
<1>1. Init => EmbeddingInv  BY InitialInv
<1>2. EmbeddingInv /\ [Next]_vars => EmbeddingInv'  BY StepKeeps
<1>. QED BY <1>1, <1>2, PTL DEF Spec

\* The cache never has more entries than it may, nor a key twice; a call's
\* workers have batches or are over, and count attempts up to the limit.
THEOREM EmbeddingTypes == Spec => []TypeOK
<1>1. EmbeddingInv => TypeOK  BY DEF EmbeddingInv
<1>. QED BY <1>1, EmbeddingAlways, PTL

\* However calls share the cache, whatever it evicts, and in whatever order
\* batches and the vectors in them arrive, a call that returns has for each text
\* that text's own vector (embedMany).
THEOREM OwnVectorsHold == Spec => []OwnVectors
<1>1. EmbeddingInv => OwnVectors
  <2>1. EmbeddingInv => \A c \in Callers : calls[c].stage = "done" => HasOwnVectors(calls[c])
    BY DEF EmbeddingInv, CallFits
  <2>. QED BY <2>1 DEF OwnVectors, HasOwnVectors
<1>. QED BY <1>1, EmbeddingAlways, PTL

\* Only a call that returns caches vectors, those of texts it had to ask for
\* (the loop over missing after mapLimit).
THEOREM FailuresCacheNothingHolds == Spec => FailuresCacheNothing
<1>1. EmbeddingInv /\ [Next]_vars =>
        [\A k \in Keys : IsCached(cache', k) /\ ~IsCached(cache, k) =>
           \E c \in Callers :
             /\ calls[c].stage = "running" /\ calls'[c].stage = "done"
             /\ \E n \in DOMAIN calls[c].missing :
                  k = CacheKey(calls[c].missing[n], calls[c].input.purpose)]_vars
  <2>. SUFFICES ASSUME EmbeddingInv, [Next]_vars, NEW k \in Keys,
                       IsCached(cache', k), ~IsCached(cache, k)
                PROVE  \E c \in Callers :
                         /\ calls[c].stage = "running" /\ calls'[c].stage = "done"
                         /\ \E n \in DOMAIN calls[c].missing :
                              k = CacheKey(calls[c].missing[n], calls[c].input.purpose)
    OBVIOUS
  <2>1. PICK c \in Callers : Returns(c) /\ Learns(c)  BY StepKeeps DEF Learning
  <2>2. \E n \in DOMAIN calls[c].missing :
          k = CacheKey(calls[c].missing[n], calls[c].input.purpose)
    BY <2>1 DEF Learns
  <2>. QED BY <2>1, <2>2 DEF Returns
<1>. QED BY <1>1, EmbeddingAlways, PTL DEF Spec, FailuresCacheNothing

\* All a call asked for is cached when it returns, if the cache has room for it:
\* its entries evict others before each other (cacheSet). Only a key that another
\* call cached meanwhile, in its old place, may be missing, from a full cache.
THEOREM LearnsWhatFitsHolds == Spec => LearnsWhatFits
<1>1. EmbeddingInv /\ [Next]_vars =>
        [\A c \in Callers : calls[c].stage = "running" /\ calls'[c].stage = "done" =>
           LET asked == calls[c].missing
           IN  Len(asked) <= config.cacheSize =>
                 \A n \in DOMAIN asked :
                   LET k == CacheKey(asked[n], calls[c].input.purpose)
                   IN  \/ IsCached(cache', k)
                       \/ IsCached(cache, k) /\ Len(cache') = config.cacheSize]_vars
  <2>1. ASSUME EmbeddingInv, [Next]_vars, NEW c \in Callers, Returns(c)  PROVE Learns(c)
    BY <2>1, StepKeeps DEF Learning
  <2>. QED BY <2>1 DEF Learns, Returns
<1>. QED BY <1>1, EmbeddingAlways, PTL DEF Spec, LearnsWhatFits
=============================================================================
