----------------------------- MODULE AccessProofs -----------------------------
(***************************************************************************)
(* Theorems about Access, for any peers, callers, atoms, namespaces and    *)
(* credentials, any limits, windows and failures allowed, and any time.    *)
(***************************************************************************)
EXTENDS Access, FiniteSetTheorems, TLAPS

----------------------------------------------------------------------------
(* A fixed window and the history of what it let through *)

Since(history, t) == {h \in history : t <= h[1]}
Span(history, t, u) == {h \in history : t <= h[1] /\ h[1] < u}

\* What an entry says of a history of at most most events a window: the window
\* that is open began with none, at most most went before it, and when none is
\* open the last window's length saw at most most.
Fits(history, entry, length, most, time) ==
  /\ IsFiniteSet(history) /\ history \subseteq Nat \X Nat
  /\ \A h \in history : h[1] <= time /\ h[2] < Cardinality(history)
  /\ \A t \in Times : Within(history, t, length) <= 2 * most
  /\ entry.resetAt > time =>
       LET start == entry.resetAt - length
       IN  /\ start <= time
           /\ Cardinality(Since(history, start)) <= entry.count
           /\ Cardinality(Since(history, start)) <= most
           /\ Cardinality(Span(history, start - length, start)) <= most
  /\ entry.resetAt <= time =>
       /\ Cardinality(Since(history, time - length)) <= most
       /\ \A h \in history : h[1] < time

\* Where the history is known to be one.
LEMMA FitsHistory ==
  ASSUME NEW H, NEW e, NEW W \in Nat, NEW L \in Nat, NEW n \in Nat, Fits(H, e, W, L, n)
  PROVE  /\ IsFiniteSet(H) /\ Cardinality(H) \in Nat
         /\ \A h \in H : h[1] \in Nat /\ h[1] <= n /\ h[2] \in Nat /\ h[2] < Cardinality(H)
  BY FS_CardinalityType DEF Fits

LEMMA PartsAreFinite ==
  ASSUME NEW H, IsFiniteSet(H), NEW t, NEW u
  PROVE  /\ IsFiniteSet(Since(H, t)) /\ Cardinality(Since(H, t)) \in Nat
         /\ IsFiniteSet(Span(H, t, u)) /\ Cardinality(Span(H, t, u)) \in Nat
<1>1. Since(H, t) \in SUBSET H /\ Span(H, t, u) \in SUBSET H
  BY DEF Since, Span
<1> QED
  BY <1>1, FS_Subset, FS_CardinalityType

\* Two sets together have at most as many elements as the one and the other.
LEMMA UnionBound ==
  ASSUME NEW A, NEW B, IsFiniteSet(A), IsFiniteSet(B), NEW S \in SUBSET (A \cup B)
  PROVE  IsFiniteSet(S) /\ Cardinality(S) \in Nat /\ Cardinality(S) <= Cardinality(A) + Cardinality(B)
<1>1. /\ IsFiniteSet(A \cup B)
      /\ Cardinality(A \cup B) = Cardinality(A) + Cardinality(B) - Cardinality(A \cap B)
  BY FS_Union
<1>2. A \cap B \in SUBSET A /\ IsFiniteSet(A \cap B)
  BY FS_Subset
<1>3. Cardinality(A) \in Nat /\ Cardinality(B) \in Nat /\ Cardinality(A \cap B) \in Nat
  BY <1>2, FS_CardinalityType
<1>4. IsFiniteSet(S) /\ Cardinality(S) <= Cardinality(A \cup B)
  BY <1>1, FS_Subset
<1>5. Cardinality(S) \in Nat
  BY <1>4, FS_CardinalityType
<1> QED
  BY <1>1, <1>3, <1>4, <1>5

\* An interval of the window's length that holds the present begins after the
\* window before the last one: it holds at most what two windows hold.
LEMMA TwoWindows ==
  ASSUME NEW H, IsFiniteSet(H), \A h \in H : h[1] \in Nat,
         NEW W \in Nat, NEW L \in Nat, NEW n \in Nat, NEW start \in Int, start <= n,
         Cardinality(Since(H, start)) <= L, Cardinality(Span(H, start - W, start)) <= L,
         NEW t \in Nat, n < t + W
  PROVE  Within(H, t, W) <= 2 * L
<1> DEFINE S == {h \in H : t <= h[1] /\ h[1] < t + W}
<1>1. S \in SUBSET (Span(H, start - W, start) \cup Since(H, start))
  BY DEF Since, Span
<1>2. /\ IsFiniteSet(Since(H, start)) /\ Cardinality(Since(H, start)) \in Nat
      /\ IsFiniteSet(Span(H, start - W, start)) /\ Cardinality(Span(H, start - W, start)) \in Nat
  BY PartsAreFinite
<1> HIDE DEF S
<1>3. /\ Cardinality(S) \in Nat
      /\ Cardinality(S) <= Cardinality(Span(H, start - W, start)) + Cardinality(Since(H, start))
  BY <1>1, <1>2, UnionBound
<1> QED
  BY <1>2, <1>3 DEF Within, S

\* Time passes.
LEMMA FitsLater ==
  ASSUME NEW H, NEW e \in [count : Nat, resetAt : Nat], NEW W \in Nat, NEW L \in Nat,
         NEW n \in Nat, Fits(H, e, W, L, n)
  PROVE  Fits(H, e, W, L, n + 1)
<1>1. /\ IsFiniteSet(H) /\ H \subseteq Nat \X Nat
      /\ \A h \in H : h[1] \in Nat /\ h[1] < n + 1 /\ h[2] < Cardinality(H)
      /\ \A t \in Times : Within(H, t, W) <= 2 * L
  BY FitsHistory DEF Fits
<1>2. CASE e.resetAt > n + 1
  BY <1>1, <1>2 DEF Fits
<1>3. CASE e.resetAt = n + 1
  BY <1>1, <1>3 DEF Fits
<1>4. CASE e.resetAt <= n
  <2>1. Since(H, n + 1 - W) \in SUBSET Since(H, n - W)
    BY <1>1 DEF Since
  <2>2. Cardinality(Since(H, n + 1 - W)) <= Cardinality(Since(H, n - W))
    BY <1>1, <2>1, PartsAreFinite, FS_Subset
  <2>3. /\ Cardinality(Since(H, n - W)) <= L
        /\ Cardinality(Since(H, n - W)) \in Nat /\ Cardinality(Since(H, n + 1 - W)) \in Nat
    BY <1>1, <1>4, PartsAreFinite DEF Fits
  <2>4. Cardinality(Since(H, n + 1 - W)) <= L /\ ~(e.resetAt > n + 1)
    BY <1>4, <2>2, <2>3
  <2> QED
    BY <1>1, <2>4 DEF Fits
<1> QED
  BY <1>2, <1>3, <1>4

\* What is not counted: more in a window that is open, or the loss of one that is not.
LEMMA FitsUncounted ==
  ASSUME NEW H, NEW e \in [count : Nat, resetAt : Nat], NEW f \in [count : Nat, resetAt : Nat],
         NEW W \in Nat, NEW L \in Nat, NEW n \in Nat, Fits(H, e, W, L, n),
         \/ e.resetAt > n /\ f.resetAt = e.resetAt /\ f.count >= e.count
         \/ ~(e.resetAt > n) /\ ~(f.resetAt > n)
  PROVE  Fits(H, f, W, L, n)
<1>1. IsFiniteSet(H)
  BY DEF Fits
<1>2. CASE e.resetAt > n /\ f.resetAt = e.resetAt /\ f.count >= e.count
  <2>1. Cardinality(Since(H, e.resetAt - W)) \in Nat
    BY <1>1, PartsAreFinite
  <2> QED
    BY <1>2, <2>1 DEF Fits
<1>3. CASE ~(e.resetAt > n) /\ ~(f.resetAt > n)
  BY <1>3 DEF Fits
<1> QED
  BY <1>2, <1>3

\* The same window, or a new one, after one more event.
AfterEvent(e, W, n) ==
  IF e.resetAt > n THEN [count |-> e.count + 1, resetAt |-> e.resetAt]
  ELSE [count |-> 1, resetAt |-> n + W]

LEMMA FitsEvent ==
  ASSUME NEW H, NEW e \in [count : Nat, resetAt : Nat], NEW W \in Nat \ {0}, NEW L \in Nat \ {0},
         NEW n \in Nat, Fits(H, e, W, L, n), AfterEvent(e, W, n).count <= L
  PROVE  Fits(H \cup {<<n, Cardinality(H)>>}, AfterEvent(e, W, n), W, L, n)
<1> DEFINE x == <<n, Cardinality(H)>>
           G == H \cup {x}
           f == AfterEvent(e, W, n)
           start == f.resetAt - W
<1>1. /\ IsFiniteSet(H) /\ Cardinality(H) \in Nat
      /\ \A h \in H : h[1] \in Nat /\ h[1] <= n /\ h[2] \in Nat /\ h[2] < Cardinality(H)
  BY FitsHistory
<1>2. x \notin H /\ x[1] = n /\ x[2] = Cardinality(H)
  BY <1>1
<1>3. IsFiniteSet(G) /\ Cardinality(G) = Cardinality(H) + 1
  BY <1>1, <1>2, FS_AddElement
<1>4. G \subseteq Nat \X Nat /\ \A h \in G : h[1] \in Nat /\ h[1] <= n /\ h[2] < Cardinality(G)
  BY <1>1, <1>2, <1>3 DEF Fits
<1>5. f.resetAt \in Int /\ f.resetAt > n /\ start \in Int /\ start <= n
  BY DEF AfterEvent, Fits
<1>6. /\ Cardinality(Since(G, start)) <= f.count /\ Cardinality(Since(G, start)) <= L
      /\ Cardinality(Span(G, start - W, start)) <= L
  <2>1. Since(G, start) = Since(H, start) \cup {x} /\ Span(G, start - W, start) = Span(H, start - W, start)
    BY <1>2, <1>5 DEF Since, Span
  <2>2. /\ IsFiniteSet(Since(H, start)) /\ Cardinality(Since(H, start)) \in Nat
        /\ x \notin Since(H, start)
    BY <1>1, <1>2, <1>5, PartsAreFinite DEF Since
  <2>3. Cardinality(Since(G, start)) = Cardinality(Since(H, start)) + 1
    BY <2>1, <2>2, FS_AddElement
  <2>4. CASE e.resetAt > n
    <3>1. f.count = e.count + 1 /\ start = e.resetAt - W /\ f.count <= L
      BY <2>4 DEF AfterEvent
    <3>2. /\ Cardinality(Since(H, start)) <= e.count
          /\ Cardinality(Span(H, start - W, start)) <= L
      BY <2>4, <3>1 DEF Fits
    <3> QED
      BY <2>1, <2>2, <2>3, <3>1, <3>2
  <2>5. CASE ~(e.resetAt > n)
    <3>1. f.count = 1 /\ start = n
      BY <2>5 DEF AfterEvent
    <3>2. Since(H, start) = {}
      BY <1>1, <2>5, <3>1 DEF Fits, Since
    <3>3. Cardinality(Since(G, start)) = 1
      BY <2>3, <3>2, FS_EmptySet
    <3>4. Span(H, start - W, start) \in SUBSET Since(H, n - W)
      BY <3>1 DEF Span, Since
    <3>5. IsFiniteSet(Since(H, n - W)) /\ Cardinality(Since(H, n - W)) \in Nat
      BY <1>1, PartsAreFinite
    <3>6. Cardinality(Span(H, start - W, start)) <= Cardinality(Since(H, n - W))
      BY <3>4, <3>5, FS_Subset
    <3>7. Cardinality(Since(H, n - W)) <= L /\ Cardinality(Span(H, start - W, start)) \in Nat
      BY <1>1, <1>5, <2>5, PartsAreFinite DEF Fits
    <3> QED
      BY <2>1, <3>1, <3>3, <3>5, <3>6, <3>7
  <2> QED
    BY <2>4, <2>5
<1>7. ASSUME NEW t \in Times PROVE Within(G, t, W) <= 2 * L
  <2>1. t \in Nat
    BY LimitAssumption DEF Times
  <2>2. CASE n < t + W
    <3> HIDE DEF G, start
    <3> QED
      BY <1>3, <1>4, <1>5, <1>6, <2>1, <2>2, TwoWindows
  <2>3. CASE ~(n < t + W)
    <3>1. {h \in G : t <= h[1] /\ h[1] < t + W} = {h \in H : t <= h[1] /\ h[1] < t + W}
      BY <1>2, <2>1, <2>3
    <3> QED
      BY <3>1 DEF Within, Fits
  <2> QED
    BY <2>2, <2>3
<1> HIDE DEF G, f, start
<1>8. f.resetAt \in Int /\ f.resetAt > n /\ start = f.resetAt - W
  BY <1>5 DEF start
<1>9. Fits(G, f, W, L, n)
  BY <1>3, <1>4, <1>5, <1>6, <1>7, <1>8 DEF Fits
<1> QED
  BY <1>9 DEF G, f

----------------------------------------------------------------------------
(* Types *)

Entries == [count : Nat, resetAt : 0 .. MaxTime + Window]

\* What the kinds of calls name.
LEMMA ToolFields ==
  ASSUME NEW tool \in Tools
  PROVE  /\ tool.kind \in {"query", "context", "sweep", "remember", "create", "update", "supersede",
                           "one", "remove", "neighbors", "similar", "link", "unlink", "merge",
                           "global"}
         /\ Searches(tool) => tool.in = {} \/ \E n \in Namespaces : tool.in = {n}
         /\ tool.kind = "remember" => \E n \in Namespaces : tool.in = {n}
         /\ tool.kind = "create" => tool.into \in SUBSET Namespaces
         /\ tool.kind \in {"update", "supersede"} =>
              tool.into = {} \/ \E n \in Namespaces : tool.into = {n}
         /\ tool.kind \in {"link", "unlink"} => tool.ids \in Pairs
         /\ tool.kind \in {"update", "supersede", "one", "remove", "neighbors", "similar"} =>
              \E i \in Ids : tool.ids = {i}
         /\ tool.kind = "merge" => tool.target \in Ids /\ tool.ids \in SUBSET Ids
  BY DEF Tools, Pairs, Searches

LEMMA RequestFields ==
  ASSUME NEW q \in Requests, q.stage # "idle"
  PROVE  /\ q.stage \in {"received", "authenticated", "authorized"}
         /\ q.credential \in Credentials /\ q.tool \in Tools
         /\ q.stage = "authorized" => q.changed \in SUBSET Ids /\ q.found \in SUBSET Ids
  BY DEF Requests, Idle

\* Steps of the requests.
LEMMA ChangedRequest ==
  ASSUME NEW q \in Requests, q.stage = "authorized", NEW came \in SUBSET Ids
  PROVE  LET after == [q EXCEPT !.changed = @ \cup came]
         IN  /\ after \in Requests /\ after.stage = "authorized" /\ after.tool = q.tool
             /\ after.credential = q.credential /\ after.changed = q.changed \cup came
             /\ after.found = q.found /\ after.searched = q.searched
  BY DEF Requests, Idle

LEMMA FoundRequest ==
  ASSUME NEW q \in Requests, q.stage = "authorized", NEW i \in Ids
  PROVE  LET after == [q EXCEPT !.found = @ \cup {i}]
         IN  /\ after \in Requests /\ after.stage = "authorized" /\ after.tool = q.tool
             /\ after.credential = q.credential /\ after.changed = q.changed
             /\ after.found = q.found \cup {i} /\ after.searched = q.searched
  BY DEF Requests, Idle

LEMMA SearchedRequest ==
  ASSUME NEW q \in Requests, q.stage = "authorized", NEW n \in Namespaces
  PROVE  LET after == [q EXCEPT !.searched = {n}]
         IN  /\ after \in Requests /\ after.stage = "authorized" /\ after.tool = q.tool
             /\ after.credential = q.credential /\ after.changed = q.changed
             /\ after.found = q.found /\ after.searched = {n}
  BY DEF Requests, Idle

LEMMA AuthenticatedRequest ==
  ASSUME NEW q \in Requests, q.stage = "received"
  PROVE  [q EXCEPT !.stage = "authenticated"] \in Requests
         /\ [q EXCEPT !.stage = "authenticated"].stage = "authenticated"
  BY DEF Requests, Idle

LEMMA DeploymentFields ==
  ASSUME TypeOK
  PROVE  /\ deployment.limit \in [Limiters -> Nat] /\ deployment.tools \in SUBSET Tools
         /\ now \in Nat /\ now <= MaxTime /\ MaxTime \in Nat
         /\ Window \in Nat \ {0} /\ ApprovalWindow \in Nat \ {0} /\ MaxFailures \in Nat \ {0}
  BY DeploymentAssumption, LimitAssumption DEF TypeOK, Times

\* An entry after one more request.
LEMMA CountedFields ==
  ASSUME TypeOK, NEW e \in Entries, NEW most \in Nat
  PROVE  /\ Counted(e, most) \in Entries /\ Open(Counted(e, most))
         /\ Open(e) => /\ Counted(e, most).resetAt = e.resetAt
                       /\ Counted(e, most).count = IF e.count > most THEN e.count ELSE e.count + 1
         /\ ~Open(e) => /\ Counted(e, most).resetAt = now + Window
                        /\ Counted(e, most).count = 1
<1>1. now \in Nat /\ now <= MaxTime /\ MaxTime \in Nat /\ Window \in Nat \ {0}
  BY DeploymentFields
<1>2. CASE Open(e)
  BY <1>1, <1>2 DEF Counted, Entries, Open
<1>3. CASE ~Open(e)
  BY <1>1, <1>3 DEF Counted, Entries, Open
<1> QED
  BY <1>2, <1>3

LEMMA FailedFields ==
  ASSUME TypeOK, NEW p \in Peers, ~Blocked(p)
  PROVE  LET f == Failed(failures[p])
         IN  /\ f \in [count : 0 .. MaxFailures, resetAt : 0 .. MaxTime + ApprovalWindow]
             /\ Open(failures[p]) => f.resetAt = failures[p].resetAt /\ f.count = failures[p].count + 1
             /\ ~Open(failures[p]) => f.resetAt = now + ApprovalWindow /\ f.count = 1
<1>1. /\ now \in Nat /\ now <= MaxTime /\ MaxTime \in Nat
      /\ ApprovalWindow \in Nat \ {0} /\ MaxFailures \in Nat \ {0}
  BY DeploymentFields
<1>2. PICK e \in [count : 0 .. MaxFailures, resetAt : 0 .. MaxTime + ApprovalWindow] :
        e = failures[p]
  BY DEF TypeOK
<1>3. CASE Open(e)
  BY <1>1, <1>2, <1>3 DEF Failed, Open, Blocked
<1>4. CASE ~Open(e)
  BY <1>1, <1>2, <1>4 DEF Failed, Open
<1> QED
  BY <1>2, <1>3, <1>4

\* What the limiter does to its entries: one more request of p, and entries
\* whose windows are over may go.
LEMMA ConsumeEntries ==
  ASSUME TypeOK, NEW l \in Limiters, NEW p \in Peers, Consume(l, p)
  PROVE  /\ entries' \in [Limiters \X Peers -> Entries]
         /\ deployment.limit[l] > 0 =>
              entries'[<<l, p>>] = Counted(entries[<<l, p>>], deployment.limit[l])
         /\ \A k \in Limiters \X Peers : k # <<l, p>> =>
              entries'[k] = entries[k] \/ (~Open(entries[k]) /\ entries'[k] = None)
<1> DEFINE most == deployment.limit[l]
           counted == [entries EXCEPT ![<<l, p>>] = Counted(@, most)]
<1>1. /\ most \in Nat /\ now \in Nat /\ MaxTime \in Nat /\ Window \in Nat \ {0}
      /\ entries \in [Limiters \X Peers -> Entries] /\ <<l, p>> \in Limiters \X Peers
  BY DeploymentFields DEF TypeOK, Entries
<1>2. CASE most = 0
  BY <1>1, <1>2 DEF Consume
<1>3. CASE most > 0
  <2>1. Counted(entries[<<l, p>>], most) \in Entries /\ Open(Counted(entries[<<l, p>>], most))
    BY <1>1, CountedFields
  <2>2. /\ counted \in [Limiters \X Peers -> Entries]
        /\ counted[<<l, p>>] = Counted(entries[<<l, p>>], most)
        /\ \A k \in Limiters \X Peers : k # <<l, p>> => counted[k] = entries[k]
    BY <1>1, <2>1
  <2>3. /\ DOMAIN counted = Limiters \X Peers
        /\ \E K \in SUBSET (Limiters \X Peers) :
             entries' = [k \in DOMAIN counted |-> IF k \in K THEN Swept(counted[k]) ELSE counted[k]]
    <3> DEFINE kept == {k \in DOMAIN counted : k[1] = l /\ counted[k] # None}
               K == {k \in Limiters \X Peers : k[1] = l /\ Cardinality(kept) > SweepAbove}
    <3>1. DOMAIN counted = Limiters \X Peers
      BY <2>2
    <3>2. entries' = [k \in DOMAIN counted |->
                        IF k[1] = l /\ Cardinality(kept) > SweepAbove THEN Swept(counted[k])
                        ELSE counted[k]]
      BY <1>3 DEF Consume
    <3> HIDE DEF counted, kept
    <3>3. entries' = [k \in DOMAIN counted |-> IF k \in K THEN Swept(counted[k]) ELSE counted[k]]
      BY <3>1, <3>2
    <3>4. K \in SUBSET (Limiters \X Peers)
      OBVIOUS
    <3> HIDE DEF K
    <3> QED
      BY <3>1, <3>3, <3>4
  <2> HIDE DEF counted
  <2>4. PICK K \in SUBSET (Limiters \X Peers) :
          entries' = [k \in Limiters \X Peers |-> IF k \in K THEN Swept(counted[k]) ELSE counted[k]]
    BY <2>3
  <2>5. \A k \in Limiters \X Peers :
          entries'[k] = counted[k] \/ (~Open(counted[k]) /\ entries'[k] = None)
    BY <2>2, <2>4 DEF Swept
  <2>6. None \in Entries
    BY <1>1 DEF None, Entries
  <2>7. \A k \in Limiters \X Peers : entries'[k] \in Entries
    BY <2>2, <2>5, <2>6
  <2> QED
    BY <1>1, <2>1, <2>2, <2>4, <2>5, <2>7
<1> QED
  BY <1>1, <1>2, <1>3

LEMMA NotedType ==
  ASSUME TypeOK, NEW H \in SUBSET (Times \X Nat), IsFiniteSet(H)
  PROVE  Noted(H) \in SUBSET (Times \X Nat)
  BY FS_CardinalityType DEF Noted, TypeOK

----------------------------------------------------------------------------
(* The limits *)

LimiterFits ==
  \A l \in Limiters, p \in Peers : deployment.limit[l] > 0 =>
    Fits(admitted[<<l, p>>], entries[<<l, p>>], Window, deployment.limit[l], now)

ApprovalsFit ==
  \A p \in Peers : Fits(guesses[p], failures[p], ApprovalWindow, MaxFailures, now)

LEMMA NothingFits ==
  ASSUME NEW e \in [count : Nat, resetAt : Nat], NEW W \in Nat \ {0}, NEW L \in Nat \ {0},
         NEW n \in Nat, e.resetAt <= n
  PROVE  Fits({}, e, W, L, n)
<1>1. /\ IsFiniteSet({}) /\ Cardinality({}) = 0
      /\ \A t \in Times : Within({}, t, W) = 0 /\ Since({}, n - W) = {}
  BY FS_EmptySet DEF Within, Since
<1> QED
  BY <1>1 DEF Fits, Since

LEMMA EntryTypes ==
  ASSUME TypeOK
  PROVE  /\ \A k \in Limiters \X Peers : entries[k] \in [count : Nat, resetAt : Nat]
         /\ \A p \in Peers : failures[p] \in [count : Nat, resetAt : Nat]
         /\ \A k \in Limiters \X Peers : entries[k] \in Entries
         /\ None \in [count : Nat, resetAt : Nat] /\ None.resetAt = 0
  BY DeploymentFields DEF TypeOK, Entries, None

\* A request the limiter lets through, or turns down.
LEMMA LimiterStep ==
  ASSUME TypeOK, LimiterFits, NEW l \in Limiters, NEW p \in Peers, Consume(l, p),
         UNCHANGED <<deployment, now>>,
         \/ Admits(l, p) /\ admitted' = Admitted(l, p)
         \/ ~Admits(l, p) /\ UNCHANGED admitted
  PROVE  LimiterFits'
<1> SUFFICES ASSUME NEW m \in Limiters, NEW q \in Peers, deployment.limit[m] > 0
             PROVE  Fits(admitted'[<<m, q>>], entries'[<<m, q>>], Window, deployment.limit[m], now)
  BY DEF LimiterFits
<1> DEFINE e == entries[<<m, q>>]
           f == entries'[<<m, q>>]
           H == admitted[<<m, q>>]
           L == deployment.limit[m]
<1>1. /\ Fits(H, e, Window, L, now) /\ L \in Nat \ {0} /\ Window \in Nat \ {0} /\ now \in Nat
      /\ e \in [count : Nat, resetAt : Nat] /\ e \in Entries /\ <<m, q>> \in Limiters \X Peers
      /\ DOMAIN admitted = Limiters \X Peers
  BY DeploymentFields, EntryTypes DEF LimiterFits, TypeOK
<1>2. CASE <<m, q>> # <<l, p>>
  <2>1. f = e \/ (~Open(e) /\ f = None)
    BY <1>1, <1>2, ConsumeEntries
  <2>2. admitted'[<<m, q>>] = H
    BY <1>1, <1>2 DEF Admitted
  <2>3. None \in [count : Nat, resetAt : Nat] /\ ~(None.resetAt > now)
    BY <1>1, EntryTypes
  <2> HIDE DEF e, f, H, L
  <2>4. Fits(H, f, Window, L, now)
    BY <1>1, <2>1, <2>3, FitsUncounted DEF Open
  <2> QED
    BY <2>2, <2>4 DEF f, L
<1>3. CASE <<m, q>> = <<l, p>>
  <2>1. m = l /\ q = p /\ f = Counted(e, L)
    BY <1>3, ConsumeEntries
  <2>2. /\ f \in [count : Nat, resetAt : Nat]
        /\ Open(e) => f.resetAt = e.resetAt /\ f.count = IF e.count > L THEN e.count ELSE e.count + 1
        /\ ~Open(e) => f.resetAt = now + Window /\ f.count = 1
    <3>1. Counted(e, L) \in Entries
      BY <1>1, CountedFields
    <3>2. Counted(e, L) \in [count : Nat, resetAt : Nat]
      BY <3>1, DeploymentFields DEF Entries
    <3>3. /\ Open(e) => Counted(e, L).resetAt = e.resetAt
          /\ Open(e) => Counted(e, L).count = IF e.count > L THEN e.count ELSE e.count + 1
          /\ ~Open(e) => Counted(e, L).resetAt = now + Window /\ Counted(e, L).count = 1
      BY <1>1, CountedFields
    <3> HIDE DEF e, f, L
    <3> QED
      BY <2>1, <3>2, <3>3
  <2>3. Admits(l, p) <=> f.count <= L
    BY <1>1, <2>1 DEF Admits
  <2>4. CASE Admits(l, p) /\ admitted' = Admitted(l, p)
    <3>1. admitted'[<<m, q>>] = H \cup {<<now, Cardinality(H)>>}
      BY <1>1, <2>1, <2>4 DEF Admitted, Noted
    <3> HIDE DEF e, f, H, L
    <3>2. f = AfterEvent(e, Window, now) /\ f.count <= L
      BY <1>1, <2>2, <2>3, <2>4 DEF AfterEvent, Open
    <3>3. Fits(H \cup {<<now, Cardinality(H)>>}, f, Window, L, now)
      BY <1>1, <3>2, FitsEvent
    <3> QED
      BY <3>1, <3>3 DEF f, L
  <2>5. CASE ~Admits(l, p) /\ UNCHANGED admitted
    <3> HIDE DEF e, f, L
    <3>1. Open(e) /\ f.resetAt = e.resetAt /\ f.count >= e.count
      BY <1>1, <2>2, <2>3, <2>5
    <3>2. Fits(H, f, Window, L, now)
      BY <1>1, <2>2, <3>1, FitsUncounted DEF Open
    <3> QED
      BY <2>5, <3>2 DEF f, L
  <2> QED
    BY <2>4, <2>5
<1> QED
  BY <1>2, <1>3

\* A wrong password is counted, a right one ends the count.
LEMMA ApprovalStep ==
  ASSUME TypeOK, ApprovalsFit, NEW p \in Peers, NEW right \in BOOLEAN, ApprovalAttempt(p, right)
  PROVE  ApprovalsFit'
<1>1. UNCHANGED now
  BY DEF ApprovalAttempt
<1> SUFFICES ASSUME NEW q \in Peers
             PROVE  Fits(guesses'[q], failures'[q], ApprovalWindow, MaxFailures, now)
  BY <1>1 DEF ApprovalsFit
<1> DEFINE e == failures[q]
           H == guesses[q]
<1>2. /\ Fits(H, e, ApprovalWindow, MaxFailures, now) /\ MaxFailures \in Nat \ {0}
      /\ ApprovalWindow \in Nat \ {0} /\ now \in Nat /\ e \in [count : Nat, resetAt : Nat]
      /\ DOMAIN guesses = Peers /\ DOMAIN failures = Peers
  BY DeploymentFields, EntryTypes DEF ApprovalsFit, TypeOK
<1>3. CASE Blocked(p) \/ q # p
  <2>1. guesses'[q] = H /\ failures'[q] = e
    BY <1>2, <1>3 DEF ApprovalAttempt
  <2> QED
    BY <1>2, <2>1
<1>4. CASE ~Blocked(p) /\ q = p /\ right
  <2>1. guesses'[q] = {} /\ failures'[q] = None
    BY <1>2, <1>4 DEF ApprovalAttempt
  <2> QED
    BY <1>2, <2>1, EntryTypes, NothingFits
<1>5. CASE ~Blocked(p) /\ q = p /\ ~right
  <2>1. guesses'[q] = H \cup {<<now, Cardinality(H)>>} /\ failures'[q] = Failed(e)
    BY <1>2, <1>5 DEF ApprovalAttempt, Noted
  <2>2. Failed(e) = AfterEvent(e, ApprovalWindow, now) /\ AfterEvent(e, ApprovalWindow, now).count <= MaxFailures
    <3>1. PICK g \in [count : 0 .. MaxFailures, resetAt : 0 .. MaxTime + ApprovalWindow] :
            g = Failed(e)
      BY <1>5, FailedFields
    <3>2. /\ Open(e) => g.resetAt = e.resetAt /\ g.count = e.count + 1
          /\ ~Open(e) => g.resetAt = now + ApprovalWindow /\ g.count = 1
      BY <1>5, <3>1, FailedFields
    <3> HIDE DEF e
    <3>3. g = AfterEvent(e, ApprovalWindow, now) /\ g.count <= MaxFailures
      BY <1>2, <3>1, <3>2 DEF AfterEvent, Open
    <3> QED
      BY <3>1, <3>3
  <2> HIDE DEF e, H
  <2>3. Fits(H \cup {<<now, Cardinality(H)>>}, AfterEvent(e, ApprovalWindow, now), ApprovalWindow,
             MaxFailures, now)
    BY <1>2, <2>2, FitsEvent
  <2> QED
    BY <2>1, <2>2, <2>3
<1> QED
  BY <1>3, <1>4, <1>5

LEMMA TickFits ==
  ASSUME TypeOK, LimiterFits, ApprovalsFit, Tick
  PROVE  LimiterFits' /\ ApprovalsFit'
<1>1. /\ now' = now + 1 /\ UNCHANGED <<deployment, entries, failures, admitted, guesses>>
  BY DEF Tick, limits
<1>2. /\ now \in Nat /\ Window \in Nat /\ ApprovalWindow \in Nat /\ MaxFailures \in Nat
      /\ deployment.limit \in [Limiters -> Nat]
  BY DeploymentFields
<1>3. LimiterFits'
  BY <1>1, <1>2, EntryTypes, FitsLater DEF LimiterFits
<1>4. ApprovalsFit'
  BY <1>1, <1>2, EntryTypes, FitsLater DEF ApprovalsFit
<1> QED
  BY <1>3, <1>4
\* What the check of a restricted credential's call says of the call itself.
Authorized(q) ==
  /\ q.tool.kind # "global" /\ ~(Searches(q.tool) /\ q.tool.in = {})
  /\ Destinations(q.tool) \subseteq q.credential.allowed
DestinationsAllowed ==
  \A r \in Callers :
    requests[r].stage = "authorized" => requests[r].credential.all \/ Authorized(requests[r])

----------------------------------------------------------------------------
(* Steps of the requests and of the atoms *)

Spaces == {NotCreated, Removed} \cup {{n} : n \in Namespaces}

\* What came into its namespace, or was related, in a step.
Came(newSpaces, newRelations) ==
  {i \in Ids : newSpaces[i] # spaces[i]} \cup UNION (newRelations \ relations)

LEMMA StoredEffect ==
  ASSUME TypeOK, NEW r \in Callers, NEW S, NEW R \in SUBSET Pairs, Stored(r, S, R)
  PROVE  /\ spaces' = S /\ relations' = R /\ Came(S, R) \in SUBSET Ids
         /\ requests' \in [Callers -> Requests] /\ requests'[r] = Idle
         /\ \A s \in Callers : requests'[s].stage = "authorized" =>
              /\ s # r /\ requests[s].stage = "authorized"
              /\ requests'[s].tool = requests[s].tool
              /\ requests'[s].credential = requests[s].credential
              /\ requests'[s].changed = requests[s].changed \cup Came(S, R)
              /\ requests'[s].found = requests[s].found
              /\ requests'[s].searched = requests[s].searched
         /\ \A s \in Callers : s # r /\ requests[s].stage = "authorized" =>
              requests'[s].stage = "authorized"
         /\ UNCHANGED <<deployment, now, entries, failures, admitted, guesses, revoked>>
<1>1. Came(S, R) \in SUBSET Ids
  BY DEF Came, Pairs
<1>2. /\ spaces' = S /\ relations' = R
      /\ requests' = [s \in Callers |->
           IF s = r THEN Idle
           ELSE IF requests[s].stage = "authorized"
             THEN [requests[s] EXCEPT !.changed = @ \cup Came(S, R)]
           ELSE requests[s]]
      /\ UNCHANGED <<deployment, now, entries, failures, admitted, guesses, revoked>>
  BY DEF Stored, Came, limits
<1>3. requests'[r] = Idle
  BY <1>2
<1>4. ASSUME NEW s \in Callers
      PROVE  /\ requests'[s] \in Requests
             /\ requests'[s].stage = "authorized" =>
                  /\ s # r /\ requests[s].stage = "authorized"
                  /\ requests'[s].tool = requests[s].tool
                  /\ requests'[s].credential = requests[s].credential
                  /\ requests'[s].changed = requests[s].changed \cup Came(S, R)
              /\ requests'[s].found = requests[s].found
              /\ requests'[s].searched = requests[s].searched
             /\ s # r /\ requests[s].stage = "authorized" => requests'[s].stage = "authorized"
  <2>1. PICK q \in Requests : q = requests[s]
    BY DEF TypeOK
  <2>2. CASE s = r
    BY <1>2, <2>2 DEF Requests, Idle
  <2>3. CASE s # r /\ q.stage = "authorized"
    <3>1. requests'[s] = [q EXCEPT !.changed = @ \cup Came(S, R)]
      BY <1>2, <2>1, <2>3
    <3> QED
      BY <1>1, <2>1, <2>3, <3>1, ChangedRequest
  <2>4. CASE s # r /\ q.stage # "authorized"
    BY <1>2, <2>1, <2>4
  <2> QED
    BY <2>2, <2>3, <2>4
<1>5. requests' \in [Callers -> Requests]
  BY <1>2, <1>4
<1> QED
  BY <1>1, <1>2, <1>3, <1>4, <1>5

\* The atoms a call involves are atoms, and those another step brought are marked.
LEMMA InvolvedAtoms ==
  ASSUME NEW tool \in Tools
  PROVE  Involved(tool) \subseteq Ids
<1>1. CASE Searches(tool) \/ tool.kind \in {"create", "global", "neighbors"}
  <2>1. CASE Searches(tool)
    BY <2>1 DEF Involved, Searches
  <2>2. CASE tool.kind \in {"create", "global"}
    BY <2>2 DEF Involved, Searches
  <2>3. CASE tool.kind = "neighbors"
    <3>1. /\ Involved(tool) = UNION {{i} \cup Neighbors(i) : i \in tool.ids}
          /\ tool.ids \subseteq Ids
      BY <2>3, ToolFields DEF Involved, Searches
    <3>2. \A i \in tool.ids : {i} \cup Neighbors(i) \subseteq Ids
      BY <3>1 DEF Neighbors
    <3> QED
      BY <3>1, <3>2, Zenon
  <2> QED
    BY <1>1, <2>1, <2>2, <2>3
<1>2. CASE tool.kind = "merge"
  BY <1>2, ToolFields DEF Involved, Searches
<1>3. CASE tool.kind \in {"update", "supersede", "one", "remove", "similar", "link", "unlink"}
  <2>1. Involved(tool) = tool.ids
    BY <1>3 DEF Involved, Searches
  <2> QED
    BY <1>3, <2>1, ToolFields DEF Pairs
<1> QED
  BY <1>1, <1>2, <1>3, ToolFields DEF Searches

LEMMA InvolvedLater ==
  ASSUME NEW tool \in Tools, NEW i \in Ids, i \in Involved(tool)',
         i \notin Came(spaces', relations')
  PROVE  i \in Involved(tool) /\ spaces'[i] = spaces[i]
<1>1. spaces'[i] = spaces[i] /\ ~ \E e \in relations' \ relations : i \in e
  BY DEF Came
<1>2. CASE Searches(tool)
  BY <1>1, <1>2 DEF Involved, Exists, Searches
<1>3. CASE tool.kind \in {"create", "global"}
  BY <1>3 DEF Involved, Searches
<1>4. CASE tool.kind = "neighbors"
  <2>1. PICK k \in tool.ids : i = k \/ (i \in Ids \ {k} /\ {k, i} \in relations')
    BY <1>4 DEF Involved, Neighbors, Searches
  <2>2. i = k \/ (i \in Ids \ {k} /\ {k, i} \in relations)
    BY <1>1, <2>1
  <2>3. i \in {k} \cup Neighbors(k)
    BY <2>2 DEF Neighbors
  <2> QED
    BY <1>1, <1>4, <2>3 DEF Involved, Searches
<1>5. CASE tool.kind \in {"merge", "update", "supersede", "one", "remove", "similar", "link", "unlink"}
  BY <1>1, <1>5 DEF Involved, Searches
<1> QED
  BY <1>2, <1>3, <1>4, <1>5, ToolFields DEF Searches

\* InvolvesOnlyAllowed, call by call: for what a call names, then for what it found
\* and the namespace in which it looks for similar atoms.
CallsAllowed ==
  \A r \in Callers, tool \in Tools :
    requests[r].stage = "authorized" /\ requests[r].tool = tool =>
      requests[r].credential.all \/
        \A i \in Ids : i \in Involved(tool) /\ Exists(i) =>
          spaces[i] \subseteq requests[r].credential.allowed \/ i \in requests[r].changed

LeadsAllowed ==
  \A r \in Callers : requests[r].stage = "authorized" =>
    requests[r].credential.all \/
      /\ \A i \in requests[r].found :
           Exists(i) => spaces[i] \subseteq requests[r].credential.allowed \/ i \in requests[r].changed
      /\ requests[r].tool.kind = "similar" =>
           \/ requests[r].searched \subseteq requests[r].credential.allowed
           \/ requests[r].tool.ids \subseteq requests[r].changed

LEMMA CallByCall == TypeOK /\ CallsAllowed /\ LeadsAllowed => InvolvesOnlyAllowed
<1> SUFFICES ASSUME TypeOK, CallsAllowed, LeadsAllowed, NEW r \in Callers,
                    requests[r].stage = "authorized", ~requests[r].credential.all,
                    NEW reading \in Reads(requests[r]), Exists(reading[2])
             PROVE  \/ spaces[reading[2]] \subseteq requests[r].credential.allowed
                    \/ reading[1] \in requests[r].changed
  BY DEF InvolvesOnlyAllowed
<1>1. PICK tool \in Tools : tool = requests[r].tool
  BY RequestFields DEF TypeOK
<1>2. Involved(tool) \subseteq Ids
  BY InvolvedAtoms
<1>3. CASE \E i \in Involved(tool) : reading = <<i, i>>
  BY <1>1, <1>2, <1>3 DEF CallsAllowed
<1>4. CASE \E i \in requests[r].found : reading = <<i, i>>
  BY <1>4 DEF LeadsAllowed
<1>5. CASE \E s \in requests[r].found, i \in Ids : reading = <<s, i>> /\ spaces[i] = spaces[s]
  BY <1>5 DEF LeadsAllowed, Exists
<1>6. CASE /\ tool.kind = "similar"
           /\ \E s \in tool.ids, i \in Ids : reading = <<s, i>> /\ spaces[i] = requests[r].searched
  BY <1>1, <1>6 DEF LeadsAllowed
<1>7. \/ \E i \in Involved(tool) \cup requests[r].found : reading = <<i, i>>
      \/ \E s \in requests[r].found, i \in Ids : reading = <<s, i>> /\ spaces[i] = spaces[s]
      \/ /\ tool.kind = "similar"
         /\ \E s \in tool.ids, i \in Ids : reading = <<s, i>> /\ spaces[i] = requests[r].searched
  BY <1>1 DEF Reads
<1> QED
  BY <1>3, <1>4, <1>5, <1>6, <1>7

\* A tool runs: the calls that were checked before it stay within their
\* namespaces, up to what it brought.
LEMMA StoredAllowed ==
  ASSUME TypeOK, CallsAllowed, LeadsAllowed, DestinationsAllowed,
         NEW r \in Callers, NEW S, NEW R \in SUBSET Pairs, Stored(r, S, R)
  PROVE  CallsAllowed' /\ LeadsAllowed' /\ DestinationsAllowed'
<1>1. /\ spaces' = S /\ relations' = R
      /\ \A s \in Callers : requests'[s].stage = "authorized" =>
           /\ requests[s].stage = "authorized"
           /\ requests'[s].tool = requests[s].tool
           /\ requests'[s].credential = requests[s].credential
           /\ requests'[s].changed = requests[s].changed \cup Came(S, R)
           /\ requests'[s].found = requests[s].found
           /\ requests'[s].searched = requests[s].searched
  BY StoredEffect
<1>2. DestinationsAllowed'
  BY <1>1 DEF DestinationsAllowed, Authorized, Destinations
<1>3. CallsAllowed'
  <2> SUFFICES ASSUME NEW s \in Callers, NEW tool \in Tools, requests'[s].stage = "authorized",
                      requests'[s].tool = tool, ~requests'[s].credential.all,
                      NEW i \in Ids, i \in Involved(tool)', Exists(i)'
               PROVE  spaces'[i] \subseteq requests'[s].credential.allowed \/ i \in requests'[s].changed
    BY DEF CallsAllowed
  <2>1. CASE i \in Came(S, R)
    BY <1>1, <2>1
  <2>2. CASE i \notin Came(S, R)
    <3>1. Came(spaces', relations') = Came(S, R)
      BY <1>1
    <3>2. i \in Involved(tool) /\ spaces'[i] = spaces[i]
      BY <2>2, <3>1, InvolvedLater
    <3>3. Exists(i)
      BY <3>2 DEF Exists
    <3> QED
      BY <1>1, <3>2, <3>3 DEF CallsAllowed
  <2> QED
    BY <2>1, <2>2
<1>4. LeadsAllowed'
  <2>1. ASSUME NEW s \in Callers, requests'[s].stage = "authorized", ~requests'[s].credential.all,
               NEW i \in requests'[s].found, Exists(i)'
        PROVE  spaces'[i] \subseteq requests'[s].credential.allowed \/ i \in requests'[s].changed
    <3>1. i \in Ids /\ i \in requests[s].found
      BY <1>1, <2>1, RequestFields DEF TypeOK
    <3>2. CASE i \in Came(S, R)
      BY <1>1, <2>1, <3>2
    <3>3. CASE i \notin Came(S, R)
      <4>1. spaces'[i] = spaces[i] /\ Exists(i)
        BY <1>1, <2>1, <3>1, <3>3 DEF Came, Exists
      <4> QED
        BY <1>1, <2>1, <3>1, <4>1 DEF LeadsAllowed
    <3> QED
      BY <3>2, <3>3
  <2>2. ASSUME NEW s \in Callers, requests'[s].stage = "authorized", ~requests'[s].credential.all,
               requests'[s].tool.kind = "similar"
        PROVE  \/ requests'[s].searched \subseteq requests'[s].credential.allowed
               \/ requests'[s].tool.ids \subseteq requests'[s].changed
    BY <1>1, <2>2 DEF LeadsAllowed
  <2> QED
    BY <2>1, <2>2 DEF LeadsAllowed
<1> QED
  BY <1>2, <1>3, <1>4

\* A step that runs no tool and authorizes none.
LEMMA QuietAllowed ==
  ASSUME CallsAllowed, LeadsAllowed, DestinationsAllowed, UNCHANGED <<spaces, relations>>,
         \A r \in Callers : requests'[r].stage = "authorized" => requests'[r] = requests[r]
  PROVE  CallsAllowed' /\ LeadsAllowed' /\ DestinationsAllowed'
<1>1. \A tool : Involved(tool)' = Involved(tool)
  BY DEF Involved, Neighbors, Exists
<1>2. CallsAllowed'
  BY <1>1 DEF CallsAllowed, Exists
<1>3. DestinationsAllowed'
  BY DEF DestinationsAllowed, Authorized, Destinations
<1>4. LeadsAllowed'
  BY DEF LeadsAllowed, Exists
<1> QED
  BY <1>2, <1>3, <1>4

LEMMA AuthorizeAllowed ==
  ASSUME TypeOK, CallsAllowed, LeadsAllowed, DestinationsAllowed, NEW r \in Callers, Authorize(r)
  PROVE  TypeOK' /\ CallsAllowed' /\ LeadsAllowed' /\ DestinationsAllowed'
<1> DEFINE new == [stage |-> "authorized", credential |-> requests[r].credential,
                   tool |-> requests[r].tool, changed |-> {}, found |-> {}, searched |-> {}]
<1>1. PICK q \in Requests : q = requests[r] /\ q.stage = "authenticated"
  BY DEF TypeOK, Authorize
<1>2. PICK credential \in Credentials, tool \in Tools : credential = q.credential /\ tool = q.tool
  BY <1>1, RequestFields
<1>3. new \in Requests /\ new.stage = "authorized" /\ new.credential = credential /\ new.tool = tool
      /\ new.found = {} /\ new.searched = {}
  BY <1>1, <1>2 DEF Requests
<1>4. /\ requests' = [requests EXCEPT ![r] = new] /\ MayRun(credential, tool)
      /\ UNCHANGED <<deployment, now, entries, failures, admitted, guesses, spaces, relations, revoked>>
  BY <1>1, <1>2 DEF Authorize, Advance, limits, store
<1> HIDE DEF new
<1>5. requests'[r] = new /\ \A s \in Callers : s # r => requests'[s] = requests[s]
  BY <1>4 DEF TypeOK
<1>6. TypeOK'
  BY <1>3, <1>4 DEF TypeOK, Spaces
<1>7. credential.all \/ Authorized(new)
  BY <1>3, <1>4 DEF MayRun, NamespacesOf, Authorized
<1>8. DestinationsAllowed'
  BY <1>3, <1>5, <1>7 DEF DestinationsAllowed, Authorized, Destinations
<1>9. \A u : Involved(u)' = Involved(u)
  BY <1>4 DEF Involved, Neighbors, Exists
<1>10. credential.all \/ \A i \in Ids : i \in Involved(tool) /\ Exists(i) => spaces[i] \subseteq credential.allowed
  BY <1>4 DEF MayRun, NamespacesOf
<1>11. CallsAllowed'
  <2> SUFFICES ASSUME NEW s \in Callers, NEW u \in Tools, requests'[s].stage = "authorized",
                      requests'[s].tool = u, ~requests'[s].credential.all,
                      NEW i \in Ids, i \in Involved(u), Exists(i)
               PROVE  spaces[i] \subseteq requests'[s].credential.allowed \/ i \in requests'[s].changed
    BY <1>4, <1>9 DEF CallsAllowed, Exists
  <2>1. CASE s = r
    BY <1>3, <1>5, <1>10, <2>1
  <2>2. CASE s # r
    BY <1>5, <2>2 DEF CallsAllowed
  <2> QED
    BY <2>1, <2>2
<1>12. LeadsAllowed'
  <2> SUFFICES ASSUME NEW s \in Callers, requests'[s].stage = "authorized", ~requests'[s].credential.all
               PROVE  /\ \A i \in requests'[s].found : Exists(i) =>
                           spaces[i] \subseteq requests'[s].credential.allowed \/ i \in requests'[s].changed
                      /\ requests'[s].tool.kind = "similar" =>
                           \/ requests'[s].searched \subseteq requests'[s].credential.allowed
                           \/ requests'[s].tool.ids \subseteq requests'[s].changed
    BY <1>4 DEF LeadsAllowed, Exists
  <2>1. CASE s = r
    BY <1>3, <1>5, <2>1
  <2>2. CASE s # r
    BY <1>5, <2>2 DEF LeadsAllowed
  <2> QED
    BY <2>1, <2>2
<1> QED
  BY <1>6, <1>8, <1>11, <1>12

\* An authorized request goes on with what it knows of its search; the others and
\* the atoms stay.
LEMMA SearchAllowed ==
  ASSUME TypeOK, CallsAllowed, LeadsAllowed, DestinationsAllowed, NEW r \in Callers,
         NEW q \in Requests, q.stage = "authorized", requests[r].stage = "authorized",
         q.tool = requests[r].tool, q.credential = requests[r].credential,
         q.changed = requests[r].changed,
         requests' = [requests EXCEPT ![r] = q], UNCHANGED <<spaces, relations>>,
         \A i \in q.found : i \in requests[r].found \/ i \in Involved(q.tool),
         \/ q.searched = requests[r].searched
         \/ q.tool.kind = "similar" /\ \E i \in Ids : q.tool.ids = {i} /\ q.searched = spaces[i] /\ Exists(i)
  PROVE  CallsAllowed' /\ LeadsAllowed' /\ DestinationsAllowed'
<1>1. requests'[r] = q /\ \A s \in Callers : s # r => requests'[s] = requests[s]
  BY DEF TypeOK
<1>2. \A u : Involved(u)' = Involved(u)
  BY DEF Involved, Neighbors, Exists
<1>3. CallsAllowed'
  <2> SUFFICES ASSUME NEW s \in Callers, NEW u \in Tools, requests'[s].stage = "authorized",
                      requests'[s].tool = u, ~requests'[s].credential.all,
                      NEW i \in Ids, i \in Involved(u), Exists(i)
               PROVE  spaces[i] \subseteq requests'[s].credential.allowed \/ i \in requests'[s].changed
    BY <1>2 DEF CallsAllowed, Exists
  <2> QED
    BY <1>1 DEF CallsAllowed
<1>4. DestinationsAllowed'
  BY <1>1 DEF DestinationsAllowed, Authorized, Destinations
<1>5. PICK tool \in Tools : tool = q.tool
  BY RequestFields
<1>6. ASSUME NEW i, i \in Involved(tool), Exists(i), ~q.credential.all
      PROVE  spaces[i] \subseteq q.credential.allowed \/ i \in q.changed
  BY <1>5, <1>6, InvolvedAtoms DEF CallsAllowed
<1>7. ASSUME ~q.credential.all
      PROVE  /\ \A i \in q.found : Exists(i) => spaces[i] \subseteq q.credential.allowed \/ i \in q.changed
             /\ q.tool.kind = "similar" =>
                  q.searched \subseteq q.credential.allowed \/ q.tool.ids \subseteq q.changed
  <2>1. ASSUME NEW i \in q.found, Exists(i)
        PROVE  spaces[i] \subseteq q.credential.allowed \/ i \in q.changed
    BY <1>5, <1>6, <1>7, <2>1 DEF LeadsAllowed
  <2>2. ASSUME q.tool.kind = "similar"
        PROVE  q.searched \subseteq q.credential.allowed \/ q.tool.ids \subseteq q.changed
    <3>1. CASE q.searched = requests[r].searched
      BY <1>7, <2>2, <3>1 DEF LeadsAllowed
    <3>2. CASE \E i \in Ids : q.tool.ids = {i} /\ q.searched = spaces[i] /\ Exists(i)
      <4>1. PICK i \in Ids : q.tool.ids = {i} /\ q.searched = spaces[i] /\ Exists(i)
        BY <3>2
      <4>2. i \in Involved(tool)
        BY <1>5, <2>2, <4>1 DEF Involved, Searches
      <4> QED
        BY <1>6, <1>7, <4>1, <4>2
    <3> QED
      BY <3>1, <3>2
  <2> QED
    BY <2>1, <2>2
<1>8. LeadsAllowed'
  <2> SUFFICES ASSUME NEW s \in Callers, requests'[s].stage = "authorized", ~requests'[s].credential.all
               PROVE  /\ \A i \in requests'[s].found : Exists(i) =>
                           spaces[i] \subseteq requests'[s].credential.allowed \/ i \in requests'[s].changed
                      /\ requests'[s].tool.kind = "similar" =>
                           \/ requests'[s].searched \subseteq requests'[s].credential.allowed
                           \/ requests'[s].tool.ids \subseteq requests'[s].changed
    BY DEF LeadsAllowed, Exists
  <2>1. CASE s = r
    BY <1>1, <1>7, <2>1
  <2>2. CASE s # r
    BY <1>1, <2>2 DEF LeadsAllowed
  <2> QED
    BY <2>1, <2>2
<1> QED
  BY <1>3, <1>4, <1>8

----------------------------------------------------------------------------
(* The inductive invariant *)

AccessInv == TypeOK /\ LimiterFits /\ ApprovalsFit /\ CallsAllowed /\ LeadsAllowed /\ DestinationsAllowed

LEMMA AccessInit == Init => AccessInv
<1> SUFFICES ASSUME Init PROVE AccessInv
  OBVIOUS
<1>1. TypeOK
  BY LimitAssumption DEF Init, TypeOK, Times, None, NotCreated, Requests
<1>2. /\ now = 0 /\ 0 \in Nat /\ deployment.limit \in [Limiters -> Nat]
      /\ Window \in Nat \ {0} /\ ApprovalWindow \in Nat \ {0} /\ MaxFailures \in Nat \ {0}
      /\ None \in [count : Nat, resetAt : Nat] /\ None.resetAt = 0
  BY <1>1, DeploymentFields, EntryTypes DEF Init
<1>3. LimiterFits
  <2> SUFFICES ASSUME NEW l \in Limiters, NEW p \in Peers, deployment.limit[l] > 0
               PROVE  Fits(admitted[<<l, p>>], entries[<<l, p>>], Window, deployment.limit[l], now)
    BY DEF LimiterFits
  <2>1. admitted[<<l, p>>] = {} /\ entries[<<l, p>>] = None /\ deployment.limit[l] \in Nat \ {0}
    BY <1>2 DEF Init
  <2> QED
    BY <1>2, <2>1, NothingFits
<1>4. ApprovalsFit
  BY <1>2, NothingFits DEF Init, ApprovalsFit
<1>5. CallsAllowed /\ LeadsAllowed /\ DestinationsAllowed
  BY DEF Init, CallsAllowed, LeadsAllowed, DestinationsAllowed, Idle
<1> QED
  BY <1>1, <1>3, <1>4, <1>5 DEF AccessInv

\* The limits and histories do not depend on anything else.
LEMMA LimitsStay ==
  ASSUME LimiterFits, ApprovalsFit, UNCHANGED <<deployment, now, entries, failures, admitted, guesses>>
  PROVE  LimiterFits' /\ ApprovalsFit'
  BY DEF LimiterFits, ApprovalsFit

LEMMA StoredKeeps ==
  ASSUME AccessInv, NEW r \in Callers, NEW S \in [Ids -> Spaces], NEW R \in SUBSET Pairs,
         Stored(r, S, R)
  PROVE  AccessInv'
<1> USE DEF AccessInv
<1>1. /\ spaces' = S /\ relations' = R /\ requests' \in [Callers -> Requests]
      /\ UNCHANGED <<deployment, now, entries, failures, admitted, guesses, revoked>>
  BY StoredEffect
<1>2. TypeOK'
  BY <1>1 DEF TypeOK, Spaces
<1>3. CallsAllowed' /\ LeadsAllowed' /\ DestinationsAllowed'
  BY StoredAllowed
<1> QED
  BY <1>1, <1>2, <1>3, LimitsStay

\* The runs of a tool store what has its type.
LEMMA RunKeeps ==
  ASSUME AccessInv, NEW r \in Callers,
         \/ \E i \in Ids, n \in Namespaces : RunCreate(r, i, n)
         \/ \E i \in Ids : RunUpdate(r, i) \/ RunRemove(r, i)
         \/ \E i, j \in Ids : RunSupersede(r, i, j)
         \/ \E pairs \in SUBSET Pairs : RunConsolidate(r, pairs)
         \/ RunLink(r) \/ RunUnlink(r) \/ RunMerge(r)
  PROVE  AccessInv'
<1>1. PICK q \in Requests : q = requests[r] /\ q.stage = "authorized"
  BY DEF AccessInv, TypeOK, Runs, RunCreate, RunUpdate, RunSupersede, RunRemove, RunLink,
         RunUnlink, RunMerge, RunConsolidate, Replaces
<1>2. PICK tool \in Tools : tool = q.tool
  BY <1>1, RequestFields
<1>3. spaces \in [Ids -> Spaces] /\ relations \in SUBSET Pairs
  BY DEF AccessInv, TypeOK, Spaces
<1>4. ASSUME NEW i \in Ids, NEW n \in Namespaces, RunCreate(r, i, n) PROVE AccessInv'
  <2>1. [spaces EXCEPT ![i] = {n}] \in [Ids -> Spaces]
    BY <1>3 DEF Spaces
  <2> QED
    BY <1>3, <1>4, <2>1, StoredKeeps DEF RunCreate
<1>5. ASSUME NEW i \in Ids, RunUpdate(r, i) PROVE AccessInv'
  <2>1. tool.into = {} \/ tool.into \in Spaces
    BY <1>1, <1>2, <1>5, ToolFields DEF RunUpdate, Runs, Spaces
  <2>2. [spaces EXCEPT ![i] = IF tool.into = {} THEN @ ELSE tool.into] \in [Ids -> Spaces]
    BY <1>3, <2>1
  <2> QED
    BY <1>1, <1>2, <1>3, <1>5, <2>2, StoredKeeps DEF RunUpdate
<1>6. ASSUME NEW i \in Ids, NEW j \in Ids, RunSupersede(r, i, j) PROVE AccessInv'
  <2> DEFINE into == Into(q, i)
  <2>1. into \in Spaces
    <3>1. tool.kind = "remember" \/ tool.kind = "supersede"
      BY <1>1, <1>2, <1>6 DEF RunSupersede, Replaces, Runs
    <3> QED
      BY <1>1, <1>2, <1>3, <3>1, ToolFields DEF Into, Spaces
  <2>2. [spaces EXCEPT ![j] = into] \in [Ids -> Spaces]
    BY <1>3, <2>1
  <2>3. Cardinality({i, j}) = 2 /\ i # j
    <3>1. i # j /\ IsFiniteSet({i}) /\ Cardinality({i}) = 1
      BY <1>6, FS_Singleton DEF RunSupersede
    <3>2. {i, j} = {i} \cup {j} /\ j \notin {i}
      BY <3>1
    <3>3. Cardinality({i} \cup {j}) = Cardinality({i}) + 1
      BY <3>1, <3>2, FS_AddElement
    <3> QED
      BY <3>1, <3>2, <3>3
  <2>4. relations \cup {{i, j}} \in SUBSET Pairs
    BY <1>3, <2>3 DEF Pairs
  <2>5. Stored(r, [spaces EXCEPT ![j] = into], relations \cup {{i, j}})
    BY <1>1, <1>2, <1>6 DEF RunSupersede
  <2> HIDE DEF into
  <2> QED
    BY <2>2, <2>4, <2>5, StoredKeeps
<1>7. ASSUME NEW i \in Ids, RunRemove(r, i) PROVE AccessInv'
  <2>1. [spaces EXCEPT ![i] = Removed] \in [Ids -> Spaces]
    BY <1>3 DEF Spaces
  <2> QED
    BY <1>3, <1>7, <2>1, StoredKeeps DEF RunRemove
<1>8. CASE RunLink(r)
  <2>1. relations \cup {tool.ids} \in SUBSET Pairs
    BY <1>1, <1>2, <1>3, <1>8, ToolFields DEF RunLink, Runs
  <2> QED
    BY <1>1, <1>2, <1>3, <1>8, <2>1, StoredKeeps DEF RunLink
<1>9. CASE RunUnlink(r)
  BY <1>3, <1>9, StoredKeeps DEF RunUnlink
<1>10. CASE RunMerge(r)
  <2> DEFINE others == tool.ids \ {tool.target}
             moved == {(e \ others) \cup {tool.target} : e \in {x \in relations : x \cap others # {}}}
             R == {e \in relations : e \cap others = {}} \cup {e \in moved : Cardinality(e) = 2}
  <2>1. tool.target \in Ids
    BY <1>1, <1>2, <1>10, ToolFields DEF RunMerge, Runs
  <2>2. R \in SUBSET Pairs
    BY <1>3, <2>1 DEF Pairs
  <2>3. Stored(r, spaces, R)
    BY <1>1, <1>2, <1>10 DEF RunMerge
  <2> HIDE DEF R
  <2> QED
    BY <1>3, <2>2, <2>3, StoredKeeps
<1>11. ASSUME NEW pairs \in SUBSET Pairs, RunConsolidate(r, pairs) PROVE AccessInv'
  BY <1>3, <1>11, StoredKeeps DEF RunConsolidate
<1> QED
  BY <1>4, <1>5, <1>6, <1>7, <1>8, <1>9, <1>10, <1>11

\* A search finds an atom, or reads the one it starts from.
LEMMA SearchKeeps ==
  ASSUME AccessInv, NEW r \in Callers, NEW i \in Ids, Find(r, i) \/ ReadSimilar(r, i)
  PROVE  AccessInv'
<1> USE DEF AccessInv
<1>1. PICK q \in Requests : q = requests[r] /\ q.stage = "authorized"
  BY DEF TypeOK, Find, ReadSimilar, Runs
<1>2. PICK tool \in Tools : tool = q.tool
  BY <1>1, RequestFields
<1>3. UNCHANGED <<deployment, now, entries, failures, admitted, guesses, spaces, relations, revoked>>
  BY DEF Find, ReadSimilar, limits, store
<1>4. CASE Find(r, i)
  <2> DEFINE after == [q EXCEPT !.found = @ \cup {i}]
  <2>1. /\ after \in Requests /\ after.stage = "authorized" /\ after.tool = q.tool
        /\ after.credential = q.credential /\ after.changed = q.changed
        /\ after.found = q.found \cup {i} /\ after.searched = q.searched
    BY <1>1, FoundRequest
  <2>2. requests' = [requests EXCEPT ![r] = after] /\ i \in Involved(tool)
    BY <1>1, <1>2, <1>4 DEF Find, Advance
  <2> HIDE DEF after
  <2>3. TypeOK'
    BY <1>3, <2>1, <2>2 DEF TypeOK
  <2>4. \A j \in after.found : j \in requests[r].found \/ j \in Involved(after.tool)
    BY <1>1, <1>2, <2>1, <2>2
  <2>5. CallsAllowed' /\ LeadsAllowed' /\ DestinationsAllowed'
    BY <1>1, <1>3, <2>1, <2>2, <2>4, SearchAllowed
  <2> QED
    BY <1>3, <2>3, <2>5, LimitsStay
<1>5. CASE ReadSimilar(r, i)
  <2>1. /\ tool.kind = "similar" /\ i \in tool.ids /\ Exists(i)
        /\ requests' = [requests EXCEPT ![r] = [q EXCEPT !.searched = spaces[i]]]
    BY <1>1, <1>2, <1>5 DEF ReadSimilar, Runs, Advance
  <2>2. PICK n \in Namespaces : spaces[i] = {n}
    BY <2>1 DEF Exists, TypeOK
  <2>3. tool.ids = {i}
    BY <2>1, ToolFields
  <2> DEFINE after == [q EXCEPT !.searched = {n}]
  <2>4. /\ after \in Requests /\ after.stage = "authorized" /\ after.tool = q.tool
        /\ after.credential = q.credential /\ after.changed = q.changed
        /\ after.found = q.found /\ after.searched = {n}
    BY <1>1, SearchedRequest
  <2>5. requests' = [requests EXCEPT ![r] = after]
    BY <2>1, <2>2
  <2> HIDE DEF after
  <2>6. TypeOK'
    BY <1>3, <2>4, <2>5 DEF TypeOK
  <2>7. /\ after.tool.kind = "similar" /\ after.tool.ids = {i} /\ after.searched = spaces[i]
        /\ \A j \in after.found : j \in requests[r].found
    BY <1>1, <1>2, <2>1, <2>2, <2>3, <2>4
  <2>8. CallsAllowed' /\ LeadsAllowed' /\ DestinationsAllowed'
    BY <1>1, <1>3, <2>1, <2>4, <2>5, <2>7, SearchAllowed
  <2> QED
    BY <1>3, <2>6, <2>8, LimitsStay
<1> QED
  BY <1>4, <1>5

\* A step of a request that neither is authorized nor runs a tool.
LEMMA QuietKeeps ==
  ASSUME AccessInv, NEW r \in Callers, NEW q \in Requests, q.stage # "authorized",
         requests' = [requests EXCEPT ![r] = q],
         UNCHANGED <<deployment, now, failures, spaces, relations, revoked, guesses>>
  PROVE  /\ requests' \in [Callers -> Requests]
         /\ CallsAllowed' /\ LeadsAllowed' /\ DestinationsAllowed'
         /\ UNCHANGED <<entries, admitted>> => AccessInv'
<1> USE DEF AccessInv
<1>1. requests' \in [Callers -> Requests]
  BY DEF TypeOK
<1>2. \A s \in Callers : requests'[s].stage = "authorized" => requests'[s] = requests[s]
  BY DEF TypeOK
<1>3. CallsAllowed' /\ LeadsAllowed' /\ DestinationsAllowed'
  BY <1>2, QuietAllowed
<1>4. ASSUME UNCHANGED <<entries, admitted>> PROVE AccessInv'
  <2>1. TypeOK'
    BY <1>1, <1>4 DEF TypeOK
  <2> QED
    BY <1>3, <1>4, <2>1, LimitsStay
<1> QED
  BY <1>1, <1>3, <1>4

LEMMA NotedTypes ==
  ASSUME AccessInv
  PROVE  /\ \A l \in Limiters, p \in Peers :
              Admitted(l, p) \in [Limiters \X Peers -> SUBSET (Times \X Nat)]
         /\ \A p \in Peers : Noted(guesses[p]) \in SUBSET (Times \X Nat)
<1> USE DEF AccessInv
<1>1. ASSUME NEW l \in Limiters, NEW p \in Peers
      PROVE  Admitted(l, p) \in [Limiters \X Peers -> SUBSET (Times \X Nat)]
  <2>1. admitted \in [Limiters \X Peers -> SUBSET (Times \X Nat)] /\ <<l, p>> \in Limiters \X Peers
    BY DEF TypeOK
  <2>2. CASE deployment.limit[l] = 0
    BY <2>1, <2>2 DEF Admitted
  <2>3. CASE deployment.limit[l] # 0
    <3>1. deployment.limit[l] > 0
      BY <2>3, DeploymentFields
    <3>2. IsFiniteSet(admitted[<<l, p>>])
      BY <3>1 DEF LimiterFits, Fits
    <3>3. Noted(admitted[<<l, p>>]) \in SUBSET (Times \X Nat)
      BY <2>1, <3>2, NotedType
    <3> QED
      BY <2>1, <2>3, <3>3 DEF Admitted
  <2> QED
    BY <2>2, <2>3
<1>2. ASSUME NEW p \in Peers PROVE Noted(guesses[p]) \in SUBSET (Times \X Nat)
  <2>1. IsFiniteSet(guesses[p]) /\ guesses[p] \in SUBSET (Times \X Nat)
    BY DEF ApprovalsFit, Fits, TypeOK
  <2> QED
    BY <2>1, NotedType
<1> QED
  BY <1>1, <1>2

LEMMA RejectedKeeps ==
  ASSUME AccessInv, NEW l \in Limiters, NEW p \in Peers, Rejected(l, p)
  PROVE  AccessInv'
<1> USE DEF AccessInv
<1>1. /\ Consume(l, p) /\ ~Admits(l, p)
      /\ UNCHANGED <<deployment, now, failures, spaces, relations, revoked, requests, admitted, guesses>>
  BY DEF Rejected, store
<1>2. TypeOK'
  BY <1>1, ConsumeEntries DEF TypeOK, Entries
<1>3. LimiterFits' /\ ApprovalsFit'
  BY <1>1, LimiterStep DEF ApprovalsFit
<1>4. CallsAllowed' /\ LeadsAllowed' /\ DestinationsAllowed'
  BY <1>1, QuietAllowed
<1> QED
  BY <1>2, <1>3, <1>4

LEMMA ApprovalAttemptKeeps ==
  ASSUME AccessInv, NEW p \in Peers, NEW right \in BOOLEAN, ApprovalAttempt(p, right)
  PROVE  AccessInv'
<1> USE DEF AccessInv
<1>1. /\ Consume("oauth", p) /\ Admits("oauth", p) /\ admitted' = Admitted("oauth", p)
      /\ "oauth" \in Limiters
      /\ UNCHANGED <<deployment, now, spaces, relations, revoked, requests>>
  BY DEF ApprovalAttempt, store, Limiters
<1>2. TypeOK'
  <2>1. failures' \in [Peers -> [count : 0 .. MaxFailures, resetAt : 0 .. MaxTime + ApprovalWindow]]
        /\ guesses' \in [Peers -> SUBSET (Times \X Nat)]
    <3>1. /\ failures \in [Peers -> [count : 0 .. MaxFailures, resetAt : 0 .. MaxTime + ApprovalWindow]]
          /\ guesses \in [Peers -> SUBSET (Times \X Nat)]
      BY DEF TypeOK
    <3>2. CASE Blocked(p)
      BY <3>1, <3>2 DEF ApprovalAttempt
    <3>3. CASE ~Blocked(p) /\ right
      <4>1. None \in [count : 0 .. MaxFailures, resetAt : 0 .. MaxTime + ApprovalWindow]
        BY DeploymentFields DEF None
      <4> QED
        BY <3>1, <3>3, <4>1 DEF ApprovalAttempt
    <3>4. CASE ~Blocked(p) /\ ~right
      <4>1. Failed(failures[p]) \in [count : 0 .. MaxFailures, resetAt : 0 .. MaxTime + ApprovalWindow]
        BY <3>4, FailedFields
      <4>2. Noted(guesses[p]) \in SUBSET (Times \X Nat)
        BY NotedTypes
      <4>3. /\ failures' = [failures EXCEPT ![p] = Failed(failures[p])]
            /\ guesses' = [guesses EXCEPT ![p] = Noted(guesses[p])]
        BY <3>4 DEF ApprovalAttempt
      <4> QED
        BY <3>1, <4>1, <4>2, <4>3
    <3> QED
      BY <3>2, <3>3, <3>4
  <2>2. entries' \in [Limiters \X Peers -> Entries]
        /\ admitted' \in [Limiters \X Peers -> SUBSET (Times \X Nat)]
    BY <1>1, ConsumeEntries, NotedTypes
  <2> QED
    BY <1>1, <2>1, <2>2 DEF TypeOK, Entries
<1>3. LimiterFits' /\ ApprovalsFit'
  BY <1>1, LimiterStep, ApprovalStep
<1>4. CallsAllowed' /\ LeadsAllowed' /\ DestinationsAllowed'
  BY <1>1, QuietAllowed
<1> QED
  BY <1>2, <1>3, <1>4

LEMMA ReceiveKeeps ==
  ASSUME AccessInv, NEW r \in Callers, NEW p \in Peers, NEW credential \in Credentials,
         NEW tool \in deployment.tools, Receive(r, p, credential, tool)
  PROVE  AccessInv'
<1> USE DEF AccessInv
<1> DEFINE q == [stage |-> "received", credential |-> credential, tool |-> tool]
<1>1. /\ Consume("mcp", p) /\ Admits("mcp", p) /\ admitted' = Admitted("mcp", p)
      /\ "mcp" \in Limiters /\ requests' = [requests EXCEPT ![r] = q]
      /\ UNCHANGED <<deployment, now, failures, spaces, relations, revoked, guesses>>
  BY DEF Receive, Advance, store, Limiters
<1>2. q \in Requests /\ q.stage # "authorized"
  BY DeploymentFields DEF Requests
<1> HIDE DEF q
<1>3. requests' \in [Callers -> Requests] /\ CallsAllowed' /\ LeadsAllowed' /\ DestinationsAllowed'
  BY <1>1, <1>2, QuietKeeps
<1>4. /\ entries' \in [Limiters \X Peers -> Entries]
      /\ admitted' \in [Limiters \X Peers -> SUBSET (Times \X Nat)]
  BY <1>1, ConsumeEntries, NotedTypes
<1>5. TypeOK'
  BY <1>1, <1>3, <1>4 DEF TypeOK, Entries
<1>6. LimiterFits' /\ ApprovalsFit'
  BY <1>1, LimiterStep DEF ApprovalsFit
<1> QED
  BY <1>3, <1>5, <1>6

LEMMA AccessNext == AccessInv /\ [Next]_vars => AccessInv'
<1> SUFFICES ASSUME AccessInv, [Next]_vars
             PROVE  AccessInv'
  OBVIOUS
<1> USE DEF AccessInv
<1>1. CASE Tick
  <2>1. /\ now' = now + 1 /\ now < MaxTime
        /\ UNCHANGED <<deployment, entries, failures, admitted, guesses, spaces, relations, revoked, requests>>
    BY <1>1 DEF Tick, limits, store
  <2>2. TypeOK'
    BY <2>1, DeploymentFields DEF TypeOK, Times
  <2>3. LimiterFits' /\ ApprovalsFit'
    BY <1>1, TickFits
  <2>4. CallsAllowed' /\ LeadsAllowed' /\ DestinationsAllowed'
    BY <2>1, QuietAllowed
  <2> QED
    BY <2>2, <2>3, <2>4
<1>2. CASE \E l \in Limiters, p \in Peers : Rejected(l, p)
  BY <1>2, RejectedKeeps
<1>3. CASE \E p \in Peers, right \in BOOLEAN : ApprovalAttempt(p, right)
  BY <1>3, ApprovalAttemptKeeps
<1>4. CASE \E r \in Callers, p \in Peers, credential \in Credentials, tool \in deployment.tools :
             Receive(r, p, credential, tool)
  BY <1>4, ReceiveKeeps
<1>5. ASSUME NEW r \in Callers, Authenticate(r) PROVE AccessInv'
  <2>1. PICK q \in Requests : q = requests[r] /\ q.stage = "received"
    BY <1>5 DEF Authenticate, TypeOK
  <2>2. /\ [q EXCEPT !.stage = "authenticated"] \in Requests
        /\ [q EXCEPT !.stage = "authenticated"].stage # "authorized"
    BY <2>1, AuthenticatedRequest
  <2>3. /\ requests' = [requests EXCEPT ![r] = [q EXCEPT !.stage = "authenticated"]]
        /\ UNCHANGED <<deployment, now, entries, failures, admitted, guesses, spaces, relations, revoked>>
    BY <1>5, <2>1 DEF Authenticate, Advance, limits, store
  <2> QED
    BY <2>2, <2>3, QuietKeeps
<1>6. ASSUME NEW r \in Callers, Authorize(r) PROVE AccessInv'
  <2>1. TypeOK' /\ CallsAllowed' /\ LeadsAllowed' /\ DestinationsAllowed'
    BY <1>6, AuthorizeAllowed
  <2> QED
    BY <1>6, <2>1, LimitsStay DEF Authorize, limits
<1>7. ASSUME NEW r \in Callers, RequestEnds(r) PROVE AccessInv'
  <2>1. Idle \in Requests /\ Idle.stage # "authorized"
    BY DEF Requests, Idle
  <2>2. /\ requests' = [requests EXCEPT ![r] = Idle]
        /\ UNCHANGED <<deployment, now, entries, failures, admitted, guesses, spaces, relations, revoked>>
    BY <1>7 DEF RequestEnds, Advance, limits, store
  <2> QED
    BY <2>1, <2>2, QuietKeeps
<1>8. CASE \E r \in Callers, i \in Ids : RunUpdate(r, i) \/ RunRemove(r, i)
  BY <1>8, RunKeeps
<1>9. CASE \E r \in Callers, i \in Ids, n \in Namespaces : RunCreate(r, i, n)
  BY <1>9, RunKeeps
<1>10. CASE \E r \in Callers, i, j \in Ids : RunSupersede(r, i, j)
  BY <1>10, RunKeeps
<1>11. CASE \E r \in Callers : RunLink(r) \/ RunUnlink(r) \/ RunMerge(r)
  BY <1>11, RunKeeps
<1>12. ASSUME NEW credential \in Credentials, Revoke(credential) PROVE AccessInv'
  <2>1. UNCHANGED <<deployment, now, entries, failures, admitted, guesses, spaces, relations, requests>>
    BY <1>12 DEF Revoke, limits, store
  <2>2. TypeOK'
    BY <1>12, <2>1 DEF Revoke, TypeOK
  <2> QED
    BY <2>1, <2>2, LimitsStay, QuietAllowed
<1>13. CASE UNCHANGED vars
  <2>1. UNCHANGED <<deployment, now, entries, failures, admitted, guesses, spaces, relations, revoked, requests>>
    BY <1>13 DEF vars
  <2>2. TypeOK'
    BY <2>1 DEF TypeOK
  <2> QED
    BY <2>1, <2>2, LimitsStay, QuietAllowed
<1>14. CASE \E r \in Callers, i \in Ids : Find(r, i) \/ ReadSimilar(r, i)
  BY <1>14, SearchKeeps
<1>15. CASE \E r \in Callers, pairs \in SUBSET Pairs : RunConsolidate(r, pairs)
  BY <1>15, RunKeeps
<1> QED
  BY <1>1, <1>2, <1>3, <1>4, <1>5, <1>6, <1>7, <1>8, <1>9, <1>10, <1>11, <1>12, <1>13, <1>14, <1>15
     DEF Next

\* The inductive invariant holds in every state.
THEOREM AccessInvariant == Spec => []AccessInv
  BY AccessInit, AccessNext, PTL DEF Spec

\* Every variable has its type, whatever clients call and however often.
THEOREM AccessTypes == Spec => []TypeOK
<1>1. AccessInv => TypeOK
  BY DEF AccessInv
<1> QED
  BY <1>1, AccessInvariant, PTL

\* A peer gets at most twice its limit through in any interval of a minute,
\* whatever the limits, and however the entries of idle peers are swept.
THEOREM AtMostTwiceTheLimitHolds == Spec => []AtMostTwiceTheLimit
<1>1. AccessInv => AtMostTwiceTheLimit
  BY DEF AccessInv, LimiterFits, Fits, AtMostTwiceTheLimit
<1> QED
  BY <1>1, AccessInvariant, PTL

\* Between two right ones, at most twice ten passwords of a peer are looked at
\* in any ten minutes.
THEOREM GuessesAreLimitedHolds == Spec => []GuessesAreLimited
<1>1. AccessInv => GuessesAreLimited
  BY DEF AccessInv, ApprovalsFit, Fits, GuessesAreLimited
<1> QED
  BY <1>1, AccessInvariant, PTL

\* A tool that runs for a restricted credential reads and writes atoms of its
\* namespaces only, with what its searches and relations lead it to, unless
\* another request moved, created or related the atom that leads there.
THEOREM InvolvesOnlyAllowedHolds == Spec => []InvolvesOnlyAllowed
<1>1. AccessInv => InvolvesOnlyAllowed
  BY CallByCall DEF AccessInv
<1> QED
  BY <1>1, AccessInvariant, PTL

----------------------------------------------------------------------------
(* Moves *)

\* What r may do to the namespace of atom i in a step that ends its request.
MoveAllowed(r, i) ==
  LET q == requests[r]
  IN  \/ /\ spaces'[i] \subseteq q.credential.allowed \cup Removed
         /\ spaces[i] \subseteq q.credential.allowed
      \/ q.tool.ids \cap q.changed # {}

\* A tool that runs ends its own request only.
LEMMA OwnRequestEnds ==
  ASSUME TypeOK, NEW r \in Callers, NEW s \in Callers, NEW S, NEW R, Stored(s, S, R),
         requests[r].stage = "authorized", requests'[r] = Idle
  PROVE  s = r
<1> SUFFICES ASSUME s # r PROVE FALSE
  OBVIOUS
<1>1. PICK q \in Requests : q = requests[r]
  BY DEF TypeOK
<1>2. \E came : requests'[r] = [q EXCEPT !.changed = came]
  BY <1>1 DEF Stored
<1>3. ASSUME NEW came PROVE [q EXCEPT !.changed = came].stage = "authorized"
  BY <1>1 DEF Requests, Idle
<1> QED
  BY <1>2, <1>3 DEF Idle

\* The atoms a restricted call names are in its namespaces, or were changed.
LEMMA NamedAllowed ==
  ASSUME AccessInv, NEW r \in Callers, requests[r].stage = "authorized",
         ~requests[r].credential.all, NEW i \in Ids, i \in requests[r].tool.ids, Exists(i),
         requests[r].tool.kind \in {"update", "supersede", "remove"}
  PROVE  spaces[i] \subseteq requests[r].credential.allowed \/ i \in requests[r].changed
<1>1. PICK tool \in Tools : tool = requests[r].tool
  BY RequestFields DEF AccessInv, TypeOK
<1>2. i \in Involved(tool)
  BY <1>1 DEF Involved, Searches
<1> QED
  BY <1>1, <1>2 DEF AccessInv, CallsAllowed

LEMMA RunsWithin ==
  ASSUME AccessInv, NEW r \in Callers, requests[r].stage = "authorized",
         ~requests[r].credential.all, NEW i \in Ids, spaces'[i] # spaces[i],
         \/ \E j \in Ids, n \in Namespaces : RunCreate(r, j, n)
         \/ \E j \in Ids : RunUpdate(r, j) \/ RunRemove(r, j)
         \/ \E old, j \in Ids : RunSupersede(r, old, j)
         \/ \E pairs \in SUBSET Pairs : RunConsolidate(r, pairs)
         \/ RunLink(r) \/ RunUnlink(r) \/ RunMerge(r)
  PROVE  MoveAllowed(r, i)
<1> DEFINE q == requests[r]
<1>1. spaces \in [Ids -> Spaces] /\ Authorized(q)
  BY DEF AccessInv, TypeOK, Spaces, DestinationsAllowed
<1>2. q.tool.kind \in {"create", "update", "supersede"} => q.tool.into \subseteq q.credential.allowed
  BY <1>1 DEF Authorized, Destinations
<1>3. ASSUME NEW j \in Ids, NEW n \in Namespaces, RunCreate(r, j, n) PROVE MoveAllowed(r, i)
  <2>1. /\ n \in q.credential.allowed /\ spaces[j] = NotCreated
        /\ spaces' = [spaces EXCEPT ![j] = {n}]
    BY <1>1, <1>2, <1>3 DEF RunCreate, Runs, Stored, Authorized, Destinations, Searches
  <2>2. i = j /\ spaces'[i] = {n} /\ spaces[i] = {}
    BY <1>1, <2>1 DEF NotCreated
  <2> QED
    BY <1>2, <2>1, <2>2 DEF MoveAllowed
<1>4. ASSUME NEW j \in Ids, RunUpdate(r, j) PROVE MoveAllowed(r, i)
  <2>1. /\ q.tool.kind = "update" /\ j \in q.tool.ids /\ Exists(j)
        /\ spaces' = [spaces EXCEPT ![j] = IF q.tool.into = {} THEN @ ELSE q.tool.into]
    BY <1>4 DEF RunUpdate, Runs, Stored
  <2>2. i = j /\ spaces'[i] = q.tool.into
    BY <1>1, <2>1
  <2>3. spaces[i] \subseteq q.credential.allowed \/ i \in q.changed
    BY <2>1, <2>2, NamedAllowed
  <2> QED
    BY <1>2, <2>1, <2>2, <2>3 DEF MoveAllowed
<1>5. ASSUME NEW j \in Ids, RunRemove(r, j) PROVE MoveAllowed(r, i)
  <2>1. /\ q.tool.kind = "remove" /\ j \in q.tool.ids /\ Exists(j)
        /\ spaces' = [spaces EXCEPT ![j] = Removed]
    BY <1>5 DEF RunRemove, Runs, Stored
  <2>2. i = j /\ spaces'[i] = Removed
    BY <1>1, <2>1
  <2>3. spaces[i] \subseteq q.credential.allowed \/ i \in q.changed
    BY <2>1, <2>2, NamedAllowed
  <2> QED
    BY <2>1, <2>2, <2>3 DEF MoveAllowed
<1>6. ASSUME NEW old \in Ids, NEW j \in Ids, RunSupersede(r, old, j) PROVE MoveAllowed(r, i)
  <2> DEFINE into == Into(q, old)
  <2>1. /\ Replaces(r, old) /\ Exists(old)
        /\ spaces[j] = NotCreated \/ spaces[j] = into
        /\ spaces' = [spaces EXCEPT ![j] = into]
    BY <1>6 DEF RunSupersede, Stored
  <2>2. into \subseteq q.credential.allowed \/ (old \in q.changed /\ old \in q.tool.ids)
    <3>1. CASE q.tool.kind = "remember"
      BY <1>1, <3>1 DEF Into, Authorized, Destinations, Searches
    <3>2. CASE q.tool.kind = "supersede" /\ old \in q.tool.ids
      BY <1>2, <2>1, <3>2, NamedAllowed DEF Into
    <3> QED
      BY <2>1, <3>1, <3>2 DEF Replaces, Runs
  <2> HIDE DEF into
  <2>3. i = j /\ spaces'[i] = into /\ spaces[i] = {}
    BY <1>1, <2>1 DEF NotCreated
  <2> QED
    BY <2>2, <2>3 DEF MoveAllowed
<1>7. CASE (\E pairs \in SUBSET Pairs : RunConsolidate(r, pairs)) \/ RunLink(r) \/ RunUnlink(r) \/ RunMerge(r)
  BY <1>7 DEF RunConsolidate, RunLink, RunUnlink, RunMerge, Stored
<1> QED
  BY <1>3, <1>4, <1>5, <1>6, <1>7

\* A restricted credential moves no atom into or out of the namespaces of
\* others, nor creates one there, unless another request moved the atom, or
\* the one it replaces, since the check.
THEOREM MovesOnlyWithinHolds == Spec => MovesOnlyWithin
<1> DEFINE Moves ==
      \A r \in Callers, i \in Ids :
        /\ requests[r].stage = "authorized" /\ requests'[r] = Idle
        /\ ~requests[r].credential.all
        /\ spaces'[i] # spaces[i]
        => LET q == requests[r]
           IN  \/ /\ spaces'[i] \subseteq q.credential.allowed \cup Removed
                  /\ spaces[i] \subseteq q.credential.allowed
               \/ q.tool.ids \cap q.changed # {}
<1>1. ASSUME AccessInv, [Next]_vars PROVE Moves
  <2> SUFFICES ASSUME NEW r \in Callers, NEW i \in Ids, requests[r].stage = "authorized",
                      requests'[r] = Idle, ~requests[r].credential.all, spaces'[i] # spaces[i]
               PROVE  MoveAllowed(r, i)
    BY DEF MoveAllowed
  <2>1. \E s \in Callers :
          \/ \E j \in Ids, n \in Namespaces : RunCreate(s, j, n)
          \/ \E j \in Ids : RunUpdate(s, j) \/ RunRemove(s, j)
          \/ \E old, j \in Ids : RunSupersede(s, old, j)
    BY <1>1 DEF Next, vars, Tick, Rejected, ApprovalAttempt, Receive, Authenticate, Authorize,
                RequestEnds, RunLink, RunUnlink, RunMerge, RunConsolidate, Find, ReadSimilar, Stored,
                Revoke, store
  <2>2. PICK s \in Callers :
          \/ \E j \in Ids, n \in Namespaces : RunCreate(s, j, n)
          \/ \E j \in Ids : RunUpdate(s, j) \/ RunRemove(s, j)
          \/ \E old, j \in Ids : RunSupersede(s, old, j)
    BY <2>1
  <2>3. \E S, R : Stored(s, S, R)
    BY <2>2 DEF RunCreate, RunUpdate, RunRemove, RunSupersede
  <2>4. s = r
    BY <1>1, <2>3, OwnRequestEnds DEF AccessInv
  <2> QED
    BY <1>1, <2>2, <2>4, RunsWithin
<1>2. AccessInv /\ [Next]_vars => [Moves]_vars
  BY <1>1
<1> HIDE DEF Moves
<1>3. Spec => [][Moves]_vars
  BY <1>2, AccessInvariant, PTL DEF Spec
<1> QED
  BY <1>3 DEF MovesOnlyWithin, Moves
=============================================================================
