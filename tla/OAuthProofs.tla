----------------------------- MODULE OAuthProofs -----------------------------
(***************************************************************************)
(* Theorems about OAuth, for any clients, credentials, requests, grants    *)
(* and changes of grants.                                                  *)
(***************************************************************************)
EXTENDS OAuth, TLAPS

----------------------------------------------------------------------------
(* Types *)

\* The kinds of requests between their statements, and what each carries.
LEMMA RequestFields ==
  ASSUME NEW q \in Requests, q.op # "idle"
  PROVE  /\ q.op \in {"approve", "exchange", "refresh"}
         /\ q.client \in Clients /\ q.scopes \in SUBSET Scopes /\ q.ns \in Grants
         /\ q.overtaken \in BOOLEAN
         /\ q.op # "approve" => q.id \in Credentials
  BY DEF Requests, Idle

\* The commit of a change marks a request and leaves the rest of it as it is.
LEMMA OvertakenRequest ==
  ASSUME NEW q \in Requests, q.op \in {"approve", "exchange", "refresh"}
  PROVE  LET marked == [q EXCEPT !.overtaken = TRUE]
         IN  /\ marked \in Requests /\ marked.op = q.op /\ marked.overtaken = TRUE
             /\ marked.client = q.client /\ marked.scopes = q.scopes /\ marked.ns = q.ns
             /\ q.op # "approve" => marked.id = q.id
<1> DEFINE marked == [q EXCEPT !.overtaken = TRUE]
           A == [op : {"approve"}, client : Clients, scopes : SUBSET Scopes, ns : Grants,
                 overtaken : BOOLEAN]
           H == [op : {"exchange", "refresh"}, id : Credentials, client : Clients,
                 scopes : SUBSET Scopes, ns : Grants, overtaken : BOOLEAN]
<1>1. A \subseteq Requests /\ H \subseteq Requests
  BY DEF Requests
<1>2. CASE q \in A
  <2>1. /\ marked \in A /\ marked.op = q.op /\ marked.overtaken = TRUE
        /\ marked.client = q.client /\ marked.scopes = q.scopes /\ marked.ns = q.ns
    BY <1>2
  <2> HIDE DEF marked
  <2> QED
    BY <1>1, <1>2, <2>1
<1>3. CASE q \in H
  <2>1. /\ marked \in H /\ marked.op = q.op /\ marked.overtaken = TRUE /\ marked.id = q.id
        /\ marked.client = q.client /\ marked.scopes = q.scopes /\ marked.ns = q.ns
    BY <1>3
  <2> HIDE DEF marked
  <2> QED
    BY <1>1, <1>3, <2>1
<1> QED
  BY <1>2, <1>3 DEF Requests, Idle

LEMMA ChangeFields ==
  ASSUME NEW h \in Changes, h.op # "idle"
  PROVE  /\ h.op \in {"revoking", "deleting"}
         /\ h.grant \in Grants /\ h.tokens \in SUBSET Credentials
         /\ h.op = "deleting" => h.codes \in SUBSET Credentials
  BY DEF Changes, Idle

\* A row that exists is a row, and its fields have their types.
LEMMA RowFields ==
  ASSUME TypeOK, NEW x \in Credentials, Exists(x)
  PROVE  /\ rows[x] \in Rows
         /\ rows[x].type \in Types /\ rows[x].client \in Clients
         /\ rows[x].scopes \in SUBSET Scopes /\ rows[x].ns \in Grants
         /\ rows[x].state \in {"live", "lapsed", "spent"}
  BY DEF TypeOK, Exists, Rows, Types, Unissued, Deleted

LEMMA LineageFields ==
  ASSUME TypeOK, NEW x \in Credentials, lineage[x] # Unissued
  PROVE  /\ lineage[x] \in Lineages
         /\ lineage[x].type \in Types
         /\ lineage[x].parent \in Credentials /\ lineage[x].root \in Credentials
         /\ lineage[x].client \in Clients /\ lineage[x].scopes \in SUBSET Scopes
         /\ lineage[x].overtaken \in BOOLEAN
  BY DEF TypeOK, Lineages

LEMMA NormalizedScopes ==
  ASSUME NEW s \in SUBSET Scopes
  PROVE  NormalizeScopes(s) \in SUBSET Scopes
  BY DEF NormalizeScopes, Scopes

\* What ends a row leaves the rest of it as it is.
SpentFrom(x) ==
  [type |-> rows[x].type, client |-> rows[x].client, scopes |-> rows[x].scopes,
   ns |-> rows[x].ns, state |-> "spent"]
LapsedFrom(x) == [SpentFrom(x) EXCEPT !.state = "lapsed"]

LEMMA SpentRow ==
  ASSUME TypeOK, NEW x \in Credentials, Exists(x)
  PROVE  /\ Spent(x) = SpentFrom(x) /\ Spent(x) \in Rows
         /\ [rows[x] EXCEPT !.state = "lapsed"] = LapsedFrom(x) /\ LapsedFrom(x) \in Rows
  BY RowFields DEF Spent, SpentFrom, LapsedFrom, Rows

LEMMA NewRowFields ==
  ASSUME NEW q \in Requests, q.op # "idle", NEW type \in Types
  PROVE  /\ NewRow(type, q) \in Rows
         /\ NewRow(type, q).type = type /\ NewRow(type, q).client = q.client
         /\ NewRow(type, q).scopes = q.scopes /\ NewRow(type, q).ns = q.ns
         /\ NewRow(type, q).state = "live"
  BY RequestFields DEF NewRow, Rows

LEMMA HoldingFields ==
  ASSUME TypeOK, NEW op \in {"exchange", "refresh"}, NEW x \in Credentials, NEW c \in Clients,
         NEW s \in SUBSET Scopes, Exists(x)
  PROVE  LET q == Holding(op, x, c, s)
         IN  /\ q \in Requests /\ q.op = op /\ q.id = x /\ q.client = c /\ q.scopes = s
             /\ q.ns = rows[x].ns /\ q.overtaken = FALSE
  BY RowFields DEF Holding, Requests

\* Steps that begin or end a request.
LEMMA RequestsType ==
  ASSUME TypeOK, NEW r \in Callers, NEW q \in Requests, requests' = [requests EXCEPT ![r] = q]
  PROVE  requests' \in [Callers -> Requests]
  BY DEF TypeOK

LEMMA ReturnType ==
  ASSUME TypeOK, NEW r \in Callers, Return(r)
  PROVE  requests' \in [Callers -> Requests] /\ requests' = [requests EXCEPT ![r] = Idle]
  BY DEF TypeOK, Return, Requests

LEMMA TypeInit == Init => TypeOK
  BY GrantAssumption DEF Init, TypeOK, Requests, Changes

LEMMA TypeApproval ==
  ASSUME TypeOK, NEW r \in Callers, NEW c \in Clients
  PROVE  /\ Register(c) => TypeOK'
         /\ \A s \in ScopeRequests : Approve(r, c, s) => TypeOK'
         /\ \A k \in Credentials : CodeInsert(r, k) => TypeOK'
<1>1. ASSUME Register(c) PROVE TypeOK'
  BY <1>1, GrantAssumption DEF Register, TypeOK
<1>2. ASSUME NEW s \in ScopeRequests, Approve(r, c, s) PROVE TypeOK'
  <2> DEFINE q == [op |-> "approve", client |-> c, scopes |-> NormalizeScopes(s),
                   ns |-> grant[c], overtaken |-> FALSE]
  <2>1. NormalizeScopes(s) \in SUBSET Scopes
    BY ScopeAssumption, NormalizedScopes
  <2>2. q \in Requests
    BY <1>2, <2>1 DEF Approve, TypeOK, Requests
  <2>3. requests' = [requests EXCEPT ![r] = q] /\ UNCHANGED <<grant, rows, change, lineage>>
    BY <1>2 DEF Approve, Begin
  <2> HIDE DEF q
  <2> QED
    BY <2>2, <2>3, RequestsType DEF TypeOK
<1>3. ASSUME NEW k \in Credentials, CodeInsert(r, k) PROVE TypeOK'
  <2> DEFINE q == requests[r]
             l == [type |-> "code", parent |-> k, root |-> k, client |-> q.client,
                   scopes |-> q.scopes, overtaken |-> Overtaken(q)]
  <2>1. q \in Requests /\ q.op = "approve"
    BY <1>3 DEF CodeInsert, TypeOK
  <2>2. NewRow("code", q) \in Rows
    BY <2>1, NewRowFields DEF Types
  <2>3. l \in Lineages
    BY <2>1, RequestFields DEF Lineages, Types, Overtaken
  <2>4. /\ rows' = [rows EXCEPT ![k] = NewRow("code", q)]
        /\ lineage' = [lineage EXCEPT ![k] = l] /\ Return(r) /\ UNCHANGED <<grant, change>>
    BY <1>3 DEF CodeInsert
  <2> HIDE DEF q, l
  <2> QED
    BY <2>2, <2>3, <2>4, ReturnType DEF TypeOK
<1> QED
  BY <1>1, <1>2, <1>3

LEMMA TypeHolding ==
  ASSUME TypeOK, NEW r \in Callers, NEW c \in Clients
  PROVE  /\ \A k \in Credentials : ExchangeLock(r, k, c) => TypeOK'
         /\ \A t \in Credentials, s \in SUBSET Scopes : RefreshLock(r, t, c, s) => TypeOK'
<1>1. ASSUME NEW op \in {"exchange", "refresh"}, NEW x \in Credentials, NEW s \in SUBSET Scopes,
             Live(x), Begin(r, Holding(op, x, c, s)), UNCHANGED <<grant, rows, change, lineage>>
      PROVE  TypeOK'
  <2>1. Holding(op, x, c, s) \in Requests
    BY <1>1, HoldingFields DEF Live
  <2> QED
    BY <1>1, <2>1, RequestsType DEF Begin, TypeOK
<1>2. ASSUME NEW k \in Credentials, ExchangeLock(r, k, c) PROVE TypeOK'
  BY <1>1, <1>2, RowFields DEF ExchangeLock, Presents, Live
<1> QED
  BY <1>1, <1>2 DEF RefreshLock, Presents

LEMMA IssueFields ==
  ASSUME TypeOK, NEW r \in Callers, NEW a \in Credentials, NEW b \in Credentials, Issue(r, a, b),
         lineage[requests[r].id] # Unissued
  PROVE  LET q == requests[r]
             new == Pair(q, a, b)
             origin == lineage[q.id]
         IN  /\ q \in Requests /\ q.op \in {"exchange", "refresh"} /\ q.id \in Credentials
             /\ origin \in Lineages
             /\ a # b /\ DOMAIN new \subseteq {a, b}
             /\ \A x \in DOMAIN new : lineage[x] = Unissued /\ new[x] = (IF x = a THEN "access" ELSE "refresh")
             /\ \A x \in Credentials :
                  /\ x \in DOMAIN new =>
                       /\ rows'[x] = NewRow(new[x], q)
                       /\ lineage'[x] \in Lineages
                       /\ lineage'[x].type = new[x] /\ lineage'[x].parent = q.id
                       /\ lineage'[x].root = origin.root /\ lineage'[x].scopes = q.scopes
                       /\ lineage'[x].overtaken = (origin.overtaken \/ Overtaken(q))
                  /\ x \notin DOMAIN new =>
                       /\ rows'[x] = IF x = q.id THEN Spent(x) ELSE rows[x]
                       /\ lineage'[x] = lineage[x]
             /\ requests' = [requests EXCEPT ![r] = Idle]
             /\ UNCHANGED <<grant, change>>
<1> DEFINE q == requests[r]
           new == Pair(q, a, b)
           origin == lineage[q.id]
<1>1. q \in Requests /\ q.op \in {"exchange", "refresh"} /\ q.id \in Credentials
      /\ q.client \in Clients /\ q.scopes \in SUBSET Scopes
  BY RequestFields DEF Issue, TypeOK
<1>2. origin \in Lineages
  BY <1>1, LineageFields
<1>3. DOMAIN new \subseteq {a, b} /\ \A x \in DOMAIN new : new[x] = (IF x = a THEN "access" ELSE "refresh")
  BY DEF Pair
<1>4. a # b /\ \A x \in DOMAIN new : lineage[x] = Unissued
  BY DEF Issue
<1>5. ASSUME NEW x \in Credentials, x \in DOMAIN new
      PROVE  /\ rows'[x] = NewRow(new[x], q)
             /\ lineage'[x] \in Lineages
             /\ lineage'[x].type = new[x] /\ lineage'[x].parent = q.id
             /\ lineage'[x].root = origin.root /\ lineage'[x].scopes = q.scopes
             /\ lineage'[x].overtaken = (origin.overtaken \/ Overtaken(q))
  <2> DEFINE l == [type |-> new[x], parent |-> q.id, root |-> origin.root, client |-> q.client,
                   scopes |-> q.scopes, overtaken |-> origin.overtaken \/ Overtaken(q)]
  <2>1. new[x] \in Types
    BY <1>3, <1>5 DEF Types
  <2>2. l \in Lineages
    BY <1>1, <1>2, <2>1, RequestFields DEF Lineages, Overtaken
  <2>3. lineage'[x] = l /\ rows'[x] = NewRow(new[x], q)
    BY <1>5 DEF Issue
  <2> HIDE DEF q, new, origin
  <2> QED
    BY <2>2, <2>3
<1>6. ASSUME NEW x \in Credentials, x \notin DOMAIN new
      PROVE  /\ rows'[x] = IF x = q.id THEN Spent(x) ELSE rows[x]
             /\ lineage'[x] = lineage[x]
  BY <1>6 DEF Issue
<1>7. requests' = [requests EXCEPT ![r] = Idle] /\ UNCHANGED <<grant, change>>
  BY DEF Issue, Return
<1> HIDE DEF q, new, origin
<1>8. /\ q \in Requests /\ q.op \in {"exchange", "refresh"} /\ q.id \in Credentials
      /\ origin \in Lineages
      /\ a # b /\ DOMAIN new \subseteq {a, b}
      /\ \A x \in DOMAIN new : lineage[x] = Unissued /\ new[x] = (IF x = a THEN "access" ELSE "refresh")
  BY <1>1, <1>2, <1>3, <1>4
<1> QED
  BY <1>5, <1>6, <1>7, <1>8 DEF q, new, origin

----------------------------------------------------------------------------
(* The inductive invariant *)

Holds(r) == requests[r].op \in {"exchange", "refresh"}

\* A credential has a row, or had one, exactly if it has a history.
Issued == \A x \in Credentials : rows[x] = Unissued <=> lineage[x] = Unissued

\* What a request read under its lock is still so, and nobody else works with it.
ReadStays(r) ==
  LET q == requests[r]
  IN  /\ Unspent(q.id)
      /\ rows[q.id].client = q.client /\ rows[q.id].ns = q.ns
      /\ q.scopes \subseteq rows[q.id].scopes
      /\ \A s \in Callers : Holds(s) /\ requests[s].id = q.id => s = r
      /\ \A c \in Clients : change[c].op = "deleting" => q.id \notin change[c].tokens
HeldStays == \A r \in Callers : Holds(r) => ReadStays(r)

\* The tokens a change has locked are its client's, and nobody spends them first;
\* the codes it will delete are its client's.
DoomedStay ==
  \A c \in Clients : change[c].op = "deleting" =>
    /\ \A x \in change[c].tokens : Unspent(x) /\ rows[x].type # "code" /\ rows[x].client = c
    /\ \A x \in change[c].codes :
         rows[x] # Unissued /\ (Exists(x) => rows[x].type = "code" /\ rows[x].client = c)

\* Nothing is issued from a credential without spending it.
ParentsSpent ==
  \A x \in Credentials : lineage[x].type \in {"access", "refresh"} =>
    /\ lineage[x].parent \in Credentials
    /\ lineage[lineage[x].parent] # Unissued /\ ~Unspent(lineage[x].parent)

\* The tokens a change is about to revoke are its client's.
TargetsStay ==
  \A c \in Clients : change[c].op # "idle" =>
    \A x \in change[c].tokens :
      rows[x] # Unissued /\ (Exists(x) => rows[x].type # "code" /\ rows[x].client = c)

\* A credential stays its client's and within what the owner approved.
ConsentKept ==
  \A x \in Credentials :
    Exists(x) => LET consent == lineage[lineage[x].root]
                 IN  /\ consent.type = "code"
                     /\ rows[x].client = consent.client
                     /\ rows[x].scopes \subseteq consent.scopes

CredentialInv ==
  /\ TypeOK /\ Issued /\ HeldStays /\ DoomedStay /\ TargetsStay
  /\ ParentsSpent /\ SingleUse /\ ConsentKept

\* What may become of a row other than by being issued.
RowEnds(x) ==
  /\ rows'[x] = Unissued <=> rows[x] = Unissued
  /\ Exists(x)' =>
       /\ Exists(x)
       /\ rows'[x].type = rows[x].type /\ rows'[x].client = rows[x].client
       /\ rows'[x].scopes = rows[x].scopes /\ rows'[x].ns = rows[x].ns
  /\ Unspent(x)' => Unspent(x)
  /\ Live(x)' => Live(x)
RowsOnlyEnd == \A x \in Credentials : RowEnds(x)
OldRowsEnd == \A x \in Credentials : rows[x] # Unissued => RowEnds(x)

LEMMA CredentialInit == Init => CredentialInv
<1> SUFFICES ASSUME Init PROVE CredentialInv
  OBVIOUS
<1>1. Issued /\ ParentsSpent /\ SingleUse /\ ConsentKept
  BY DEF Init, Issued, ParentsSpent, SingleUse, ConsentKept, Exists, Unissued, Types
<1>2. HeldStays /\ DoomedStay /\ TargetsStay
  BY DEF Init, HeldStays, DoomedStay, TargetsStay, Holds, Idle
<1> QED
  BY <1>1, <1>2, TypeInit DEF CredentialInv

\* Rows that end keep what is known of credentials and where they came from.
LEMMA EndsKeepHistory ==
  ASSUME TypeOK, Issued, ParentsSpent, SingleUse, ConsentKept, UNCHANGED lineage, RowsOnlyEnd
  PROVE  Issued' /\ ParentsSpent' /\ SingleUse' /\ ConsentKept'
<1>1. Issued'
  BY DEF Issued, RowsOnlyEnd, RowEnds
<1>2. ParentsSpent'
  BY DEF ParentsSpent, RowsOnlyEnd, RowEnds
<1>3. SingleUse'
  BY DEF SingleUse
<1>4. ConsentKept'
  BY DEF ConsentKept, RowsOnlyEnd, RowEnds
<1> QED
  BY <1>1, <1>2, <1>3, <1>4

LEMMA RowsStay == UNCHANGED rows => RowsOnlyEnd
  BY DEF RowsOnlyEnd, RowEnds, Exists, Unspent, Live

LEMMA EndingAll == RowsOnlyEnd => OldRowsEnd
  BY DEF RowsOnlyEnd, OldRowsEnd

\* One row is spent, or lapses.
LEMMA OneEnds ==
  ASSUME TypeOK, NEW x \in Credentials, Exists(x),
         \/ rows' = [rows EXCEPT ![x] = Spent(x)]
         \/ Live(x) /\ rows' = [rows EXCEPT ![x] = LapsedFrom(x)]
  PROVE  /\ RowsOnlyEnd /\ rows' \in [Credentials -> Rows \cup {Unissued, Deleted}]
         /\ \A y \in Credentials : y # x => rows'[y] = rows[y]
<1>1. \/ rows' = [rows EXCEPT ![x] = SpentFrom(x)]
      \/ Live(x) /\ rows' = [rows EXCEPT ![x] = LapsedFrom(x)]
  BY SpentRow
<1>2. rows' \in [Credentials -> Rows \cup {Unissued, Deleted}]
  BY <1>1, SpentRow DEF TypeOK
<1>3. \A y \in Credentials : y # x => rows'[y] = rows[y]
  BY <1>1 DEF TypeOK
<1>4. /\ rows'[x].type = rows[x].type /\ rows'[x].client = rows[x].client
      /\ rows'[x].scopes = rows[x].scopes /\ rows'[x].ns = rows[x].ns
      /\ rows'[x].state \in {"spent", "lapsed"} /\ (rows'[x].state = "lapsed" => Live(x))
  BY <1>1 DEF TypeOK, SpentFrom, LapsedFrom
<1>5. rows'[x] # Unissued /\ rows[x] # Unissued
  BY <1>4 DEF Exists, Unissued, Types
<1> QED
  BY <1>2, <1>3, <1>4, <1>5 DEF RowsOnlyEnd, RowEnds, Exists, Unspent, Live

\* Somebody works with the row of x.
Held(x) == \E r \in Callers : Holds(r) /\ requests[r].id = x

LEMMA HeldAreCredentials ==
  ASSUME TypeOK, NEW r \in Callers, Holds(r)
  PROVE  requests[r].id \in Credentials /\ Held(requests[r].id)
  BY RequestFields DEF TypeOK, Holds, Held

\* HeldStays survives a step that takes up no row and leaves those in use alone.
LEMMA HeldKeeps ==
  ASSUME TypeOK, HeldStays,
         \A r \in Callers : Holds(r)' =>
           /\ Holds(r) /\ requests'[r].id = requests[r].id
           /\ requests'[r].client = requests[r].client /\ requests'[r].ns = requests[r].ns
           /\ requests'[r].scopes = requests[r].scopes,
         \A x \in Credentials : Held(x) =>
           /\ Unspent(x)' /\ rows'[x].client = rows[x].client /\ rows'[x].ns = rows[x].ns
           /\ rows'[x].scopes = rows[x].scopes,
         \A x \in Credentials, c \in Clients :
           Held(x) /\ change'[c].op = "deleting" => x \notin change'[c].tokens
  PROVE  HeldStays'
<1> SUFFICES ASSUME NEW r \in Callers, Holds(r)'
             PROVE  ReadStays(r)'
  BY DEF HeldStays
<1>1. /\ Holds(r) /\ requests'[r].id = requests[r].id
      /\ requests'[r].client = requests[r].client /\ requests'[r].ns = requests[r].ns
      /\ requests'[r].scopes = requests[r].scopes
  OBVIOUS
<1>2. PICK x \in Credentials : x = requests[r].id /\ Held(x)
  BY <1>1, HeldAreCredentials
<1>3. /\ rows[x].client = requests[r].client /\ rows[x].ns = requests[r].ns
      /\ requests[r].scopes \subseteq rows[x].scopes
      /\ \A s \in Callers : Holds(s) /\ requests[s].id = x => s = r
  BY <1>1, <1>2 DEF HeldStays, ReadStays
<1>4. Unspent(x)' /\ rows'[x].client = requests'[r].client /\ rows'[x].ns = requests'[r].ns
      /\ requests'[r].scopes \subseteq rows'[x].scopes
  BY <1>1, <1>2, <1>3
<1>5. \A s \in Callers : Holds(s)' /\ requests'[s].id = x => s = r
  BY <1>3
<1>6. \A c \in Clients : change'[c].op = "deleting" => x \notin change'[c].tokens
  BY <1>2
<1> QED
  BY <1>1, <1>2, <1>4, <1>5, <1>6 DEF ReadStays, Unspent, Exists

\* DoomedStay survives a step that leaves the changes and their rows alone.
LEMMA DoomedKeeps ==
  ASSUME TypeOK, DoomedStay, OldRowsEnd,
         \A c \in Clients : change'[c].op = "deleting" => change'[c] = change[c],
         \A c \in Clients : \A x \in Credentials :
           change'[c].op = "deleting" /\ x \in change[c].tokens => Unspent(x)'
  PROVE  DoomedStay'
<1> SUFFICES ASSUME NEW c \in Clients, change'[c].op = "deleting"
             PROVE  /\ \A x \in change'[c].tokens :
                         Unspent(x)' /\ rows'[x].type # "code" /\ rows'[x].client = c
                    /\ \A x \in change'[c].codes :
                         /\ rows'[x] # Unissued
                         /\ Exists(x)' => rows'[x].type = "code" /\ rows'[x].client = c
  BY DEF DoomedStay
<1>1. change'[c] = change[c] /\ change[c].op = "deleting"
  OBVIOUS
<1>2. change[c].tokens \subseteq Credentials /\ change[c].codes \subseteq Credentials
  BY <1>1, ChangeFields DEF TypeOK
<1>3. ASSUME NEW x \in change[c].tokens
      PROVE  Unspent(x)' /\ rows'[x].type # "code" /\ rows'[x].client = c
  <2>1. Unspent(x)' /\ rows[x].type # "code" /\ rows[x].client = c
    BY <1>1, <1>2, <1>3 DEF DoomedStay
  <2>2. Exists(x)' /\ rows[x] # Unissued
    BY <1>1, <1>3, <2>1 DEF DoomedStay, Unspent, Exists, Unissued, Types
  <2> QED
    BY <1>2, <2>1, <2>2 DEF OldRowsEnd, RowEnds
<1>4. ASSUME NEW x \in change[c].codes
      PROVE  /\ rows'[x] # Unissued
             /\ Exists(x)' => rows'[x].type = "code" /\ rows'[x].client = c
  BY <1>1, <1>2 DEF DoomedStay, OldRowsEnd, RowEnds
<1> QED
  BY <1>1, <1>3, <1>4

\* TargetsStay survives a step that leaves the changes alone, or ends one, or narrows it.
LEMMA TargetsKeep ==
  ASSUME TypeOK, TargetsStay, OldRowsEnd,
         \A c \in Clients : change'[c].op # "idle" =>
           change[c].op # "idle" /\ change'[c].tokens \subseteq change[c].tokens
  PROVE  TargetsStay'
<1> SUFFICES ASSUME NEW c \in Clients, change'[c].op # "idle", NEW x \in change'[c].tokens
             PROVE  /\ rows'[x] # Unissued
                    /\ Exists(x)' => rows'[x].type # "code" /\ rows'[x].client = c
  BY DEF TargetsStay
<1>1. x \in change[c].tokens /\ x \in Credentials /\ change[c].op # "idle"
  BY ChangeFields DEF TypeOK
<1>2. rows[x] # Unissued /\ (Exists(x) => rows[x].type # "code" /\ rows[x].client = c)
  BY <1>1 DEF TargetsStay
<1>3. RowEnds(x)
  BY <1>1, <1>2 DEF OldRowsEnd
<1> QED
  BY <1>2, <1>3 DEF RowEnds

----------------------------------------------------------------------------
(* Steps that leave the rows alone *)

LEMMA QuietStep ==
  ASSUME CredentialInv, TypeOK', UNCHANGED <<rows, lineage>>,
         \A r \in Callers : Holds(r)' => requests'[r] = requests[r],
         \A c \in Clients : change'[c].op # "idle" => change'[c] = change[c]
  PROVE  CredentialInv'
<1> USE DEF CredentialInv
<1>1. RowsOnlyEnd
  BY RowsStay
<1>2. Issued' /\ ParentsSpent' /\ SingleUse' /\ ConsentKept'
  BY <1>1, EndsKeepHistory
<1>3. HeldStays'
  <2>1. \A r \in Callers : Holds(r)' => Holds(r)
    BY DEF Holds
  <2>2. ASSUME NEW x \in Credentials, Held(x)
        PROVE  /\ Unspent(x)' /\ Unspent(x)
               /\ \A c \in Clients : change[c].op = "deleting" => x \notin change[c].tokens
    BY <2>2 DEF Held, HeldStays, ReadStays, Unspent, Exists
  <2> QED
    BY <2>1, <2>2, HeldKeeps
<1>4. DoomedStay'
  <2>1. \A c \in Clients, x \in Credentials :
          change'[c].op = "deleting" /\ x \in change[c].tokens => Unspent(x)'
    BY DEF DoomedStay, Unspent, Exists
  <2> QED
    BY <1>1, <2>1, EndingAll, DoomedKeeps
<1>5. TargetsStay'
  BY <1>1, EndingAll, TargetsKeep
<1> QED
  BY <1>2, <1>3, <1>4, <1>5

LEMMA RegisterKeeps ==
  ASSUME CredentialInv, NEW c \in Clients, Register(c)
  PROVE  CredentialInv'
<1>1. TypeOK'
  BY GrantAssumption DEF CredentialInv, Register, TypeOK
<1> QED
  BY <1>1, QuietStep DEF Register

LEMMA ApproveKeeps ==
  ASSUME CredentialInv, NEW r \in Callers, NEW c \in Clients, NEW s \in ScopeRequests,
         Approve(r, c, s)
  PROVE  CredentialInv'
<1>1. TypeOK'
  BY TypeApproval DEF CredentialInv
<1>2. \A t \in Callers : Holds(t)' => requests'[t] = requests[t]
  BY DEF CredentialInv, Approve, Begin, Holds, TypeOK
<1> QED
  BY <1>1, <1>2, QuietStep DEF Approve

LEMMA AbortKeeps ==
  ASSUME CredentialInv, NEW r \in Callers, Abort(r)
  PROVE  CredentialInv'
<1>1. TypeOK'
  BY ReturnType DEF CredentialInv, Abort, TypeOK
<1>2. \A t \in Callers : Holds(t)' => requests'[t] = requests[t]
  BY DEF CredentialInv, Abort, Return, Holds, TypeOK, Idle
<1> QED
  BY <1>1, <1>2, QuietStep DEF Abort

LEMMA GrantChangeAbortKeeps ==
  ASSUME CredentialInv, NEW c \in Clients, GrantChangeAbort(c)
  PROVE  CredentialInv'
<1>1. TypeOK'
  BY DEF CredentialInv, GrantChangeAbort, TypeOK, Changes
<1>2. \A d \in Clients : change'[d].op # "idle" => change'[d] = change[d]
  BY DEF CredentialInv, GrantChangeAbort, TypeOK, Idle
<1> QED
  BY <1>1, <1>2, QuietStep DEF GrantChangeAbort, Holds

LEMMA GrantChangeBeginKeeps ==
  ASSUME CredentialInv, NEW c \in Clients, NEW g \in Grants, GrantChangeBegin(c, g)
  PROVE  CredentialInv'
<1> USE DEF CredentialInv
<1> DEFINE h == [op |-> "revoking", grant |-> g, tokens |-> TokensOf(c)]
<1>1. h \in Changes /\ h.op = "revoking" /\ h.tokens = TokensOf(c)
  BY DEF Changes, TokensOf
<1>2. change' = [change EXCEPT ![c] = h] /\ UNCHANGED <<grant, rows, requests, lineage>>
  BY DEF GrantChangeBegin
<1> HIDE DEF h
<1>3. change'[c] = h /\ \A d \in Clients : d # c => change'[d] = change[d]
  BY <1>2 DEF TypeOK
<1>4. TypeOK'
  BY <1>1, <1>2 DEF TypeOK
<1>5. Issued' /\ ParentsSpent' /\ SingleUse' /\ ConsentKept'
  BY <1>2, RowsStay, EndsKeepHistory
<1>6. HeldStays'
  BY <1>1, <1>2, <1>3 DEF HeldStays, ReadStays, Holds, Unspent, Exists
<1>7. DoomedStay'
  BY <1>1, <1>2, <1>3 DEF DoomedStay, Unspent, Exists
<1>8. TargetsStay'
  BY <1>1, <1>2, <1>3 DEF TargetsStay, TokensOf, Unspent, Exists, Unissued, Types
<1> QED
  BY <1>4, <1>5, <1>6, <1>7, <1>8

\* A request takes up a row that nobody works with.
LEMMA LockKeeps ==
  ASSUME CredentialInv, NEW r \in Callers, NEW c \in Clients, NEW op \in {"exchange", "refresh"},
         NEW x \in Credentials, NEW s \in SUBSET Scopes,
         Live(x), rows[x].client = c, ~Locked(x), s \subseteq rows[x].scopes,
         Begin(r, Holding(op, x, c, s)), UNCHANGED <<grant, rows, change, lineage>>
  PROVE  CredentialInv'
<1> USE DEF CredentialInv
<1> DEFINE q == Holding(op, x, c, s)
<1>1. /\ q \in Requests /\ q.op \in {"exchange", "refresh"} /\ q.id = x /\ q.client = c
      /\ q.scopes = s /\ q.ns = rows[x].ns
  <2>1. Exists(x) /\ TypeOK
    BY DEF Live
  <2>2. rows[x].ns \in Grants
    BY <2>1, RowFields
  <2>3. q = [op |-> op, id |-> x, client |-> c, scopes |-> s, ns |-> rows[x].ns,
             overtaken |-> FALSE]
    BY DEF Holding
  <2> HIDE DEF q
  <2> QED
    BY <2>2, <2>3 DEF Requests
<1>2. requests' = [requests EXCEPT ![r] = q]
  BY DEF Begin
<1> HIDE DEF q
<1>3. TypeOK'
  BY <1>1, <1>2, RequestsType DEF TypeOK
<1>4. Issued' /\ ParentsSpent' /\ SingleUse' /\ ConsentKept'
  BY RowsStay, EndsKeepHistory
<1>5. DoomedStay' /\ TargetsStay'
  BY DEF DoomedStay, TargetsStay, Unspent, Exists
<1>6. /\ \A t \in Callers : t # r => requests'[t] = requests[t]
      /\ requests'[r] = q
  BY <1>2 DEF TypeOK
<1>7. \A t \in Callers : t # r /\ Holds(t) => requests[t].id # x
  BY DEF Locked, Holds
<1>8. HeldStays'
  <2> SUFFICES ASSUME NEW t \in Callers, Holds(t)'
               PROVE  ReadStays(t)'
    BY DEF HeldStays
  <2>1. CASE t = r
    <3>1. Unspent(x) /\ \A d \in Clients : change[d].op = "deleting" => x \notin change[d].tokens
      BY DEF Live, Unspent, Locked
    <3>2. \A u \in Callers : Holds(u)' /\ requests'[u].id = x => u = r
      BY <1>6, <1>7 DEF Holds
    <3>3. /\ rows[x].client = q.client /\ rows[x].ns = q.ns /\ q.scopes \subseteq rows[x].scopes
          /\ requests'[t] = q /\ q.id = x
      BY <1>1, <1>6, <2>1
    <3> QED
      BY <2>1, <3>1, <3>2, <3>3 DEF ReadStays, Unspent, Exists
  <2>2. CASE t # r
    <3>1. Holds(t) /\ requests'[t] = requests[t]
      BY <1>6, <2>2 DEF Holds
    <3>2. ReadStays(t)
      BY <3>1 DEF HeldStays
    <3>3. \A u \in Callers : Holds(u)' /\ requests'[u].id = requests[t].id => u = t
      <4>1. requests[t].id # x
        BY <1>7, <2>2, <3>1
      <4>2. ASSUME NEW u \in Callers, Holds(u)', requests'[u].id = requests[t].id
            PROVE  u = t
        <5>1. u # r
          BY <1>1, <1>6, <4>1, <4>2
        <5> QED
          BY <1>6, <3>2, <4>2, <5>1 DEF Holds, ReadStays
      <4> QED
        BY <4>2
    <3> QED
      BY <3>1, <3>2, <3>3 DEF ReadStays, Unspent, Exists
  <2> QED
    BY <2>1, <2>2
<1> QED
  BY <1>3, <1>4, <1>5, <1>8

LEMMA ExchangeLockKeeps ==
  ASSUME CredentialInv, NEW r \in Callers, NEW k \in Credentials, NEW c \in Clients,
         ExchangeLock(r, k, c)
  PROVE  CredentialInv'
<1>1. Live(k) /\ rows[k].client = c /\ ~Locked(k)
  BY DEF ExchangeLock, Presents
<1>2. rows[k].scopes \in SUBSET Scopes
  BY <1>1, RowFields DEF Live, CredentialInv
<1> QED
  BY <1>1, <1>2, LockKeeps DEF ExchangeLock

LEMMA RefreshLockKeeps ==
  ASSUME CredentialInv, NEW r \in Callers, NEW t \in Credentials, NEW c \in Clients,
         NEW s \in SUBSET Scopes, RefreshLock(r, t, c, s)
  PROVE  CredentialInv'
<1>1. Live(t) /\ rows[t].client = c /\ ~Locked(t)
  BY DEF RefreshLock, Presents
<1>2. s \subseteq rows[t].scopes
  BY DEF RefreshLock, RefreshScopes
<1> QED
  BY <1>1, <1>2, LockKeeps DEF RefreshLock

\* The UPDATE of a change has its locks: only on rows nobody works with.
LEMMA GrantChangeRevokeKeeps ==
  ASSUME CredentialInv, NEW c \in Clients, GrantChangeRevoke(c)
  PROVE  CredentialInv'
<1> USE DEF CredentialInv
<1> DEFINE h == [op |-> "deleting", grant |-> change[c].grant,
                 tokens |-> {x \in change[c].tokens : Unspent(x)}, codes |-> CodesOf(c)]
<1>1. change[c].op = "revoking" /\ change[c].tokens \subseteq Credentials /\ change[c].grant \in Grants
  BY ChangeFields DEF GrantChangeRevoke, TypeOK
<1>2. h \in Changes
  BY <1>1 DEF Changes, CodesOf
<1>3. change' = [change EXCEPT ![c] = h] /\ UNCHANGED <<grant, rows, requests, lineage>>
  BY DEF GrantChangeRevoke
<1>4. TypeOK'
  BY <1>2, <1>3 DEF TypeOK
<1>5. Issued' /\ ParentsSpent' /\ SingleUse' /\ ConsentKept'
  BY <1>3, RowsStay, EndsKeepHistory
<1>6. change'[c] = h /\ \A d \in Clients : d # c => change'[d] = change[d]
  BY <1>3 DEF TypeOK
<1>7. \A x \in Credentials : Held(x) => x \notin change[c].tokens
  BY DEF GrantChangeRevoke, Locked, Held, Holds
<1>8. HeldStays'
  <2>1. ASSUME NEW x \in Credentials, Held(x)
        PROVE  /\ Unspent(x)' /\ Unspent(x)
               /\ \A d \in Clients : change[d].op = "deleting" => x \notin change[d].tokens
    BY <1>3, <2>1 DEF Held, HeldStays, ReadStays, Unspent, Exists
  <2>2. \A x \in Credentials, d \in Clients :
          Held(x) /\ change'[d].op = "deleting" => x \notin change'[d].tokens
    BY <1>6, <1>7, <2>1
  <2>3. \A r \in Callers : Holds(r)' => Holds(r)
    BY <1>3 DEF Holds
  <2> QED
    BY <1>3, <2>1, <2>2, <2>3, HeldKeeps
<1>9. DoomedStay'
  <2> SUFFICES ASSUME NEW d \in Clients, change'[d].op = "deleting"
               PROVE  /\ \A x \in change'[d].tokens :
                           Unspent(x)' /\ rows'[x].type # "code" /\ rows'[x].client = d
                      /\ \A x \in change'[d].codes :
                           /\ rows'[x] # Unissued
                           /\ Exists(x)' => rows'[x].type = "code" /\ rows'[x].client = d
    BY DEF DoomedStay
  <2>1. CASE d # c
    BY <1>3, <1>6, <2>1 DEF DoomedStay, Unspent, Exists
  <2>2. CASE d = c
    <3>1. ASSUME NEW x \in change[c].tokens, Unspent(x)
          PROVE  rows[x].type # "code" /\ rows[x].client = c
      BY <1>1, <3>1 DEF TargetsStay, Unspent
    <3>2. ASSUME NEW x \in CodesOf(c)
          PROVE  rows[x] # Unissued /\ rows[x].type = "code" /\ rows[x].client = c
      BY <3>2 DEF CodesOf, Unspent, Exists, Unissued, Types
    <3> QED
      BY <1>3, <1>6, <2>2, <3>1, <3>2 DEF Unspent, Exists
  <2> QED
    BY <2>1, <2>2
<1>10. TargetsStay'
  BY <1>1, <1>3, <1>6, RowsStay, EndingAll, TargetsKeep
<1> QED
  BY <1>4, <1>5, <1>8, <1>9, <1>10

----------------------------------------------------------------------------
(* Steps that end rows *)

\* Rows end that nobody has locked, or they lapse.
LEMMA EndStep ==
  ASSUME CredentialInv, TypeOK', RowsOnlyEnd, UNCHANGED <<grant, requests, change, lineage>>,
         \A x \in Credentials : Locked(x) /\ Unspent(x) => Unspent(x)'
  PROVE  CredentialInv'
<1> USE DEF CredentialInv
<1>1. Issued' /\ ParentsSpent' /\ SingleUse' /\ ConsentKept'
  BY EndsKeepHistory
<1>2. HeldStays'
  <2>1. ASSUME NEW x \in Credentials, Held(x)
        PROVE  /\ Locked(x) /\ Unspent(x)
               /\ \A c \in Clients : change[c].op = "deleting" => x \notin change[c].tokens
    BY <2>1 DEF Held, Holds, HeldStays, ReadStays, Locked
  <2>2. ASSUME NEW x \in Credentials, Held(x)
        PROVE  /\ Unspent(x)' /\ rows'[x].client = rows[x].client /\ rows'[x].ns = rows[x].ns
               /\ rows'[x].scopes = rows[x].scopes
    <3>1. Unspent(x)'
      BY <2>1, <2>2
    <3> QED
      BY <3>1 DEF Unspent, RowsOnlyEnd, RowEnds
  <2>3. \A r \in Callers : Holds(r)' => Holds(r)
    BY DEF Holds
  <2> QED
    BY <2>1, <2>2, <2>3, HeldKeeps
<1>3. DoomedStay'
  <2>1. ASSUME NEW c \in Clients, NEW x \in Credentials, change[c].op = "deleting",
               x \in change[c].tokens
        PROVE  Unspent(x)'
    BY <2>1 DEF Locked, DoomedStay
  <2> QED
    BY <2>1, EndingAll, DoomedKeeps
<1>4. TargetsStay'
  BY EndingAll, TargetsKeep
<1> QED
  BY <1>1, <1>2, <1>3, <1>4

LEMMA RevokeEnds ==
  ASSUME TypeOK, NEW t \in Credentials, Revoke(t)
  PROVE  RowsOnlyEnd
  BY OneEnds DEF Revoke, MayRevoke

LEMMA ExpireEnds ==
  ASSUME TypeOK, NEW x \in Credentials, Expire(x)
  PROVE  RowsOnlyEnd
<1>1. Live(x) /\ Exists(x)
  BY DEF Expire, Live
<1>2. rows' = [rows EXCEPT ![x] = LapsedFrom(x)]
  BY <1>1, SpentRow DEF Expire
<1> QED
  BY <1>1, <1>2, OneEnds

LEMMA CleanupEnds ==
  ASSUME TypeOK, NEW dead \in SUBSET Credentials, Cleanup(dead)
  PROVE  RowsOnlyEnd
<1>1. \A x \in Credentials : rows'[x] = IF x \in dead THEN Deleted ELSE rows[x]
  BY DEF Cleanup
<1>2. \A x \in dead : Exists(x)
  BY DEF Cleanup
<1>3. Deleted.type \notin Types /\ Deleted # Unissued /\ \A x \in Credentials : Exists(x) => rows[x] # Unissued
  BY DEF Deleted, Unissued, Types, Exists
<1> QED
  BY <1>1, <1>2, <1>3 DEF RowsOnlyEnd, RowEnds, Exists, Unspent, Live

LEMMA RevokeKeeps ==
  ASSUME CredentialInv, NEW t \in Credentials, Revoke(t)
  PROVE  CredentialInv'
<1>1. Exists(t) /\ ~Locked(t) /\ rows' = [rows EXCEPT ![t] = Spent(t)]
  BY DEF Revoke, MayRevoke
<1>2. /\ RowsOnlyEnd /\ rows' \in [Credentials -> Rows \cup {Unissued, Deleted}]
      /\ \A y \in Credentials : y # t => rows'[y] = rows[y]
  BY <1>1, OneEnds DEF CredentialInv
<1>3. \A x \in Credentials : Locked(x) /\ Unspent(x) => Unspent(x)'
  BY <1>1, <1>2 DEF Unspent, Exists
<1>4. TypeOK'
  BY <1>2 DEF CredentialInv, Revoke, TypeOK
<1> QED
  BY <1>2, <1>3, <1>4, EndStep DEF Revoke

LEMMA ExpireKeeps ==
  ASSUME CredentialInv, NEW x \in Credentials, Expire(x)
  PROVE  CredentialInv'
<1>1. Live(x) /\ Exists(x)
  BY DEF Expire, Live
<1>2. rows' = [rows EXCEPT ![x] = LapsedFrom(x)]
  BY <1>1, SpentRow DEF Expire, CredentialInv
<1>3. /\ RowsOnlyEnd /\ rows' \in [Credentials -> Rows \cup {Unissued, Deleted}]
      /\ \A y \in Credentials : y # x => rows'[y] = rows[y]
  BY <1>1, <1>2, OneEnds DEF CredentialInv
<1>4. rows'[x].type = rows[x].type /\ rows'[x].state = "lapsed"
  BY <1>2 DEF CredentialInv, TypeOK, LapsedFrom, SpentFrom
<1>5. \A y \in Credentials : Locked(y) /\ Unspent(y) => Unspent(y)'
  BY <1>3, <1>4 DEF Unspent, Exists
<1>6. TypeOK'
  BY <1>3 DEF CredentialInv, Expire, TypeOK
<1> QED
  BY <1>3, <1>5, <1>6, EndStep DEF Expire

LEMMA CleanupKeeps ==
  ASSUME CredentialInv, NEW dead \in SUBSET Credentials, Cleanup(dead)
  PROVE  CredentialInv'
<1>1. RowsOnlyEnd
  BY CleanupEnds DEF CredentialInv
<1>2. \A x \in Credentials : Locked(x) /\ Unspent(x) => Unspent(x)'
  BY DEF Cleanup, Unspent, Exists
<1>3. TypeOK'
  BY DEF CredentialInv, Cleanup, TypeOK
<1> QED
  BY <1>1, <1>2, <1>3, EndStep DEF Cleanup

\* What the commit of a change does to each row.
LEMMA CommitRows ==
  ASSUME CredentialInv, NEW c \in Clients, GrantChangeCommit(c)
  PROVE  /\ change[c].op = "deleting" /\ change[c] \in Changes
         /\ change[c].tokens \subseteq Credentials /\ change[c].codes \subseteq Credentials
         /\ \A x \in change[c].tokens : Unspent(x) /\ rows[x].client = c /\ ~Held(x)
         /\ \A x \in Credentials :
              /\ x \in change[c].tokens => rows'[x] = SpentFrom(x)
              /\ x \notin change[c].tokens /\ x \in change[c].codes /\ Unspent(x) => rows'[x] = Deleted
              /\ x \notin change[c].tokens /\ ~(x \in change[c].codes /\ Unspent(x)) => rows'[x] = rows[x]
         /\ RowsOnlyEnd
<1> USE DEF CredentialInv
<1>1. /\ change[c].op = "deleting" /\ change[c] \in Changes
      /\ change[c].tokens \subseteq Credentials /\ change[c].codes \subseteq Credentials
  BY ChangeFields DEF GrantChangeCommit, TypeOK
<1>2. \A x \in change[c].tokens : Unspent(x) /\ rows[x].client = c
  BY <1>1 DEF DoomedStay
<1>3. \A x \in change[c].tokens : ~Held(x)
  BY <1>1 DEF Held, HeldStays, ReadStays
<1>4. \A x \in Credentials :
        rows'[x] = IF x \in change[c].tokens THEN Spent(x)
                   ELSE IF x \in change[c].codes /\ Unspent(x) THEN Deleted
                   ELSE rows[x]
  BY DEF GrantChangeCommit
<1>5. \A x \in change[c].tokens : Spent(x) = SpentFrom(x)
  BY <1>1, <1>2, SpentRow DEF Unspent
<1>6. \A x \in Credentials :
        /\ x \in change[c].tokens => rows'[x] = SpentFrom(x)
        /\ x \notin change[c].tokens /\ x \in change[c].codes /\ Unspent(x) => rows'[x] = Deleted
        /\ x \notin change[c].tokens /\ ~(x \in change[c].codes /\ Unspent(x)) => rows'[x] = rows[x]
  BY <1>4, <1>5
<1>7. RowsOnlyEnd
  <2> SUFFICES ASSUME NEW x \in Credentials
               PROVE  RowEnds(x)
    BY DEF RowsOnlyEnd
  <2>1. CASE x \in change[c].tokens
    <3>0. rows'[x] = SpentFrom(x)
      BY <1>6, <2>1
    <3>1. /\ rows'[x].type = rows[x].type /\ rows'[x].client = rows[x].client
          /\ rows'[x].scopes = rows[x].scopes /\ rows'[x].ns = rows[x].ns
          /\ rows'[x].state = "spent"
      BY <3>0 DEF SpentFrom
    <3>2. Exists(x) /\ rows[x] # Unissued /\ rows'[x] # Unissued
      BY <1>2, <2>1, <3>1 DEF Unspent, Exists, Unissued, Types
    <3> QED
      BY <3>1, <3>2 DEF RowEnds, Unspent, Exists, Live
  <2>2. CASE x \notin change[c].tokens /\ x \in change[c].codes /\ Unspent(x)
    <3>1. rows'[x] = Deleted /\ rows[x] # Unissued
      BY <1>6, <2>2 DEF Unspent, Exists, Unissued, Types
    <3>2. Deleted.type \notin Types /\ Deleted # Unissued
      BY DEF Deleted, Unissued, Types
    <3> QED
      BY <3>1, <3>2 DEF RowEnds, Unspent, Exists, Live
  <2>3. CASE x \notin change[c].tokens /\ ~(x \in change[c].codes /\ Unspent(x))
    BY <1>6, <2>3 DEF RowEnds, Unspent, Exists, Live
  <2> QED
    BY <2>1, <2>2, <2>3
<1> QED
  BY <1>1, <1>2, <1>3, <1>6, <1>7

LEMMA GrantChangeCommitKeeps ==
  ASSUME CredentialInv, NEW c \in Clients, GrantChangeCommit(c)
  PROVE  CredentialInv'
<1> USE DEF CredentialInv
<1>1. /\ change[c].op = "deleting" /\ change[c] \in Changes
      /\ change[c].tokens \subseteq Credentials /\ change[c].codes \subseteq Credentials
      /\ \A x \in change[c].tokens : Unspent(x) /\ rows[x].client = c /\ ~Held(x)
      /\ RowsOnlyEnd
  BY CommitRows
<1>2. \A x \in Credentials :
        /\ x \in change[c].tokens => rows'[x] = SpentFrom(x)
        /\ x \notin change[c].tokens /\ x \in change[c].codes /\ Unspent(x) => rows'[x] = Deleted
        /\ x \notin change[c].tokens /\ ~(x \in change[c].codes /\ Unspent(x)) => rows'[x] = rows[x]
  BY CommitRows
<1>3. /\ change' = [change EXCEPT ![c] = Idle] /\ UNCHANGED lineage
      /\ grant' = [grant EXCEPT ![c] = change[c].grant] /\ requests' = MarkOvertaken(c)
      /\ \A x \in change[c].codes : ~Locked(x)
  BY DEF GrantChangeCommit
<1>4. \A r \in Callers :
        /\ Holds(r)' <=> Holds(r)
        /\ requests'[r] \in Requests
        /\ Holds(r) =>
             /\ requests'[r].id = requests[r].id /\ requests'[r].client = requests[r].client
             /\ requests'[r].ns = requests[r].ns /\ requests'[r].scopes = requests[r].scopes
  <2> SUFFICES ASSUME NEW r \in Callers
               PROVE  /\ Holds(r)' <=> Holds(r)
                      /\ requests'[r] \in Requests
                      /\ Holds(r) =>
                           /\ requests'[r].id = requests[r].id
                           /\ requests'[r].client = requests[r].client
                           /\ requests'[r].ns = requests[r].ns
                           /\ requests'[r].scopes = requests[r].scopes
    OBVIOUS
  <2>1. CASE requests[r].op \in {"approve", "exchange", "refresh"} /\ requests[r].client = c
    <3>1. requests'[r] = [requests[r] EXCEPT !.overtaken = TRUE]
      BY <1>3, <2>1 DEF MarkOvertaken
    <3>2. PICK q \in Requests : q = requests[r]
      BY DEF TypeOK
    <3> QED
      BY <2>1, <3>1, <3>2, OvertakenRequest DEF Holds
  <2>2. CASE ~(requests[r].op \in {"approve", "exchange", "refresh"} /\ requests[r].client = c)
    <3>1. requests'[r] = requests[r]
      BY <1>3, <2>2 DEF MarkOvertaken
    <3> QED
      BY <3>1 DEF Holds, TypeOK
  <2> QED
    BY <2>1, <2>2
<1>5. TypeOK'
  <2>1. requests' \in [Callers -> Requests]
    BY <1>3, <1>4 DEF TypeOK, MarkOvertaken
  <2>2. rows' \in [Credentials -> Rows \cup {Unissued, Deleted}]
    <3>1. \A x \in change[c].tokens : SpentFrom(x) \in Rows
      BY <1>1, SpentRow DEF Unspent
    <3> QED
      BY <1>2, <3>1 DEF TypeOK, GrantChangeCommit
  <2>3. change[c].grant \in Grants
    BY <1>1, ChangeFields
  <2>4. Idle \in Changes
    BY DEF Changes
  <2> QED
    BY <1>3, <2>1, <2>2, <2>3, <2>4 DEF TypeOK
<1>6. Issued' /\ ParentsSpent' /\ SingleUse' /\ ConsentKept'
  BY <1>1, <1>3, EndsKeepHistory
<1>7. \A d \in Clients : change'[d].op # "idle" => change'[d] = change[d] /\ d # c
  BY <1>3 DEF TypeOK, Idle
<1>8. HeldStays'
  <2>1. ASSUME NEW x \in Credentials, Held(x)
        PROVE  /\ Unspent(x) /\ rows'[x] = rows[x]
               /\ \A d \in Clients : change[d].op = "deleting" => x \notin change[d].tokens
    BY <1>1, <1>2, <1>3, <2>1 DEF Held, Holds, HeldStays, ReadStays, Locked
  <2>2. \A x \in Credentials : Held(x) => Unspent(x)'
    BY <2>1 DEF Unspent, Exists
  <2> QED
    BY <1>4, <1>7, <2>1, <2>2, HeldKeeps
<1>9. DoomedStay'
  <2>1. ASSUME NEW d \in Clients, NEW x \in Credentials, change'[d].op = "deleting",
               x \in change[d].tokens
        PROVE  Unspent(x)'
    <3>1. /\ change[d].op = "deleting" /\ d # c
          /\ Unspent(x) /\ rows[x].type # "code" /\ rows[x].client = d
      BY <1>7, <2>1 DEF DoomedStay
    <3>2. x \notin change[c].tokens /\ x \notin change[c].codes
      BY <1>1, <3>1 DEF DoomedStay, Unspent
    <3> QED
      BY <1>2, <3>1, <3>2 DEF Unspent, Exists
  <2> QED
    BY <1>1, <1>7, <2>1, EndingAll, DoomedKeeps
<1>10. TargetsStay'
  BY <1>1, <1>7, EndingAll, TargetsKeep
<1> QED
  BY <1>5, <1>6, <1>8, <1>9, <1>10

----------------------------------------------------------------------------
(* Steps that issue credentials *)

\* A credential that was not issued has no row, and nobody works with it.
LEMMA UnissuedAreIdle ==
  ASSUME CredentialInv, NEW x \in Credentials, lineage[x] = Unissued
  PROVE  rows[x] = Unissued /\ ~Exists(x) /\ ~Held(x)
<1> USE DEF CredentialInv
<1>1. rows[x] = Unissued /\ ~Exists(x)
  BY DEF Issued, Exists, Unissued, Types
<1>2. ~Held(x)
  BY <1>1 DEF Held, HeldStays, ReadStays, Unspent
<1> QED
  BY <1>1, <1>2

LEMMA CodeInsertKeeps ==
  ASSUME CredentialInv, NEW r \in Callers, NEW k \in Credentials, CodeInsert(r, k)
  PROVE  CredentialInv'
<1> USE DEF CredentialInv
<1>1. PICK q \in Requests : q = requests[r] /\ q.op = "approve"
  BY DEF TypeOK, CodeInsert
<1>2. /\ rows'[k] = NewRow("code", q)
      /\ lineage'[k] = [type |-> "code", parent |-> k, root |-> k, client |-> q.client,
                        scopes |-> q.scopes, overtaken |-> Overtaken(q)]
      /\ \A x \in Credentials : x # k => rows'[x] = rows[x] /\ lineage'[x] = lineage[x]
      /\ requests' = [requests EXCEPT ![r] = Idle] /\ UNCHANGED <<grant, change>>
      /\ lineage[k] = Unissued
  BY <1>1 DEF CodeInsert, TypeOK, Return
<1>3. /\ rows'[k].type = "code" /\ rows'[k].client = q.client /\ rows'[k].scopes = q.scopes
      /\ rows'[k] # Unissued
  BY <1>2 DEF NewRow, Unissued
<1>4. /\ lineage'[k].type = "code" /\ lineage'[k].root = k
      /\ lineage'[k].client = q.client /\ lineage'[k].scopes = q.scopes
      /\ lineage'[k] # Unissued
  BY <1>2 DEF Unissued
<1>5. rows[k] = Unissued /\ ~Exists(k) /\ ~Held(k)
  BY <1>2, UnissuedAreIdle
<1>6. TypeOK'
  <2>1. q.client \in Clients
    BY <1>1, RequestFields
  <2> QED
    BY <2>1, TypeApproval
<1>7. OldRowsEnd
  BY <1>2, <1>5 DEF OldRowsEnd, RowEnds, Exists, Unspent, Live
<1>8. Issued'
  BY <1>2, <1>3, <1>4 DEF Issued
<1>9. HeldStays'
  <2>1. \A t \in Callers : Holds(t)' => Holds(t) /\ requests'[t] = requests[t]
    BY <1>2 DEF Holds, TypeOK, Idle
  <2>2. ASSUME NEW x \in Credentials, Held(x)
        PROVE  /\ Unspent(x)' /\ rows'[x] = rows[x]
               /\ \A c \in Clients : change[c].op = "deleting" => x \notin change[c].tokens
    BY <1>2, <1>5, <2>2 DEF Held, HeldStays, ReadStays, Unspent, Exists
  <2> QED
    BY <1>2, <2>1, <2>2, HeldKeeps
<1>10. DoomedStay'
  <2>1. ASSUME NEW c \in Clients, NEW x \in Credentials, change'[c].op = "deleting",
               x \in change[c].tokens
        PROVE  Unspent(x)'
    BY <1>2, <1>5, <2>1 DEF DoomedStay, Unspent, Exists
  <2> QED
    BY <1>2, <1>7, <2>1, DoomedKeeps
<1>11. TargetsStay'
  BY <1>2, <1>7, TargetsKeep
<1>12. ParentsSpent'
  BY <1>2, <1>4, <1>5 DEF ParentsSpent, Unspent, Exists
<1>13. SingleUse'
  BY <1>2, <1>4 DEF SingleUse
<1>14. ConsentKept'
  <2> SUFFICES ASSUME NEW x \in Credentials, Exists(x)'
               PROVE  /\ lineage'[lineage'[x].root].type = "code"
                      /\ rows'[x].client = lineage'[lineage'[x].root].client
                      /\ rows'[x].scopes \subseteq lineage'[lineage'[x].root].scopes
    BY DEF ConsentKept
  <2>1. CASE x = k
    BY <1>3, <1>4, <2>1
  <2>2. CASE x # k
    <3>1. Exists(x) /\ rows'[x] = rows[x] /\ lineage'[x] = lineage[x]
      BY <1>2, <2>2 DEF Exists
    <3>2. PICK y \in Credentials : y = lineage[x].root
      BY <3>1, LineageFields, UnissuedAreIdle
    <3>3. /\ lineage[y].type = "code" /\ rows[x].client = lineage[y].client
          /\ rows[x].scopes \subseteq lineage[y].scopes
      BY <3>1, <3>2 DEF ConsentKept
    <3>4. y # k
      BY <1>2, <3>3 DEF Unissued
    <3> QED
      BY <1>2, <3>1, <3>2, <3>3, <3>4
  <2> QED
    BY <2>1, <2>2
<1> QED
  BY <1>6, <1>8, <1>9, <1>10, <1>11, <1>12, <1>13, <1>14

\* What an issuing request holds, and what was issued from: an unspent row.
LEMMA IssueOrigin ==
  ASSUME CredentialInv, NEW r \in Callers, NEW a \in Credentials, NEW b \in Credentials,
         Issue(r, a, b)
  PROVE  /\ Holds(r) /\ ReadStays(r) /\ requests[r].id \in Credentials
         /\ Unspent(requests[r].id) /\ lineage[requests[r].id] # Unissued
<1> USE DEF CredentialInv
<1>1. Holds(r) /\ ReadStays(r) /\ requests[r].id \in Credentials
  BY HeldAreCredentials DEF Issue, Holds, HeldStays
<1>2. PICK x \in Credentials : x = requests[r].id /\ Exists(x) /\ Unspent(x)
  BY <1>1 DEF ReadStays, Unspent
<1>3. lineage[x] # Unissued
  BY <1>2, UnissuedAreIdle
<1> QED
  BY <1>1, <1>2, <1>3

LEMMA IssueKeeps ==
  ASSUME CredentialInv, NEW r \in Callers, NEW a \in Credentials, NEW b \in Credentials,
         Issue(r, a, b)
  PROVE  CredentialInv'
<1> USE DEF CredentialInv
<1>1. PICK q \in Requests, x \in Credentials :
        /\ q = requests[r] /\ x = q.id /\ q.op \in {"exchange", "refresh"}
        /\ Holds(r) /\ ReadStays(r) /\ Unspent(x) /\ Exists(x) /\ lineage[x] # Unissued
  BY IssueOrigin DEF TypeOK, Holds, Unspent
<1>2. PICK new : new = Pair(q, a, b)
  OBVIOUS
<1>3. /\ a # b /\ DOMAIN new \subseteq {a, b} /\ DOMAIN new \subseteq Credentials
      /\ \A y \in DOMAIN new : lineage[y] = Unissued
      /\ \A y \in DOMAIN new : new[y] = (IF y = a THEN "access" ELSE "refresh")
  <2>1. DOMAIN new \subseteq {a, b} /\ \A y \in DOMAIN new : new[y] = (IF y = a THEN "access" ELSE "refresh")
    BY <1>2 DEF Pair
  <2>2. a # b /\ \A y \in DOMAIN new : lineage[y] = Unissued
    BY <1>1, <1>2 DEF Issue
  <2> QED
    BY <2>1, <2>2
<1>4. /\ requests' = [requests EXCEPT ![r] = Idle] /\ UNCHANGED <<grant, change>>
  BY <1>1, IssueFields
<1>5. \A y \in Credentials :
        /\ y \in DOMAIN new =>
             /\ rows'[y] = NewRow(new[y], q)
             /\ lineage'[y] \in Lineages
             /\ lineage'[y].type = new[y] /\ lineage'[y].parent = x
             /\ lineage'[y].root = lineage[x].root
        /\ y \notin DOMAIN new =>
             /\ rows'[y] = IF y = x THEN Spent(x) ELSE rows[y]
             /\ lineage'[y] = lineage[y]
  BY <1>1, <1>2, IssueFields
<1>6. \A y \in DOMAIN new :
        /\ rows'[y] \in Rows /\ rows'[y] # Unissued
        /\ rows'[y].client = q.client /\ rows'[y].scopes = q.scopes
        /\ lineage'[y] # Unissued /\ lineage'[y].type \in {"access", "refresh"}
  <2> SUFFICES ASSUME NEW y \in DOMAIN new
               PROVE  /\ rows'[y] \in Rows /\ rows'[y] # Unissued
                      /\ rows'[y].client = q.client /\ rows'[y].scopes = q.scopes
                      /\ lineage'[y] # Unissued /\ lineage'[y].type \in {"access", "refresh"}
    OBVIOUS
  <2>1. new[y] \in {"access", "refresh"} /\ y \in Credentials
    BY <1>3
  <2>2. rows'[y] = NewRow(new[y], q) /\ lineage'[y].type = new[y]
    BY <1>5, <2>1
  <2>3. /\ NewRow(new[y], q) \in Rows /\ NewRow(new[y], q).type = new[y]
        /\ NewRow(new[y], q).client = q.client /\ NewRow(new[y], q).scopes = q.scopes
    BY <1>1, <2>1, NewRowFields DEF Types
  <2> QED
    BY <2>1, <2>2, <2>3 DEF Unissued
<1>7. \A y \in DOMAIN new : rows[y] = Unissued /\ ~Exists(y) /\ ~Held(y)
  BY <1>3, UnissuedAreIdle
<1>8. x \notin DOMAIN new
  BY <1>1, <1>7
<1>9. /\ rows'[x] = SpentFrom(x) /\ SpentFrom(x) \in Rows
      /\ rows'[x].type = rows[x].type /\ rows'[x].client = rows[x].client
      /\ rows'[x].scopes = rows[x].scopes /\ rows'[x].ns = rows[x].ns
      /\ rows'[x].state = "spent" /\ rows'[x] # Unissued /\ rows[x] # Unissued
  <2>1. rows'[x] = SpentFrom(x) /\ SpentFrom(x) \in Rows
    BY <1>1, <1>5, <1>8, SpentRow
  <2>2. /\ rows'[x].type = rows[x].type /\ rows'[x].client = rows[x].client
        /\ rows'[x].scopes = rows[x].scopes /\ rows'[x].ns = rows[x].ns
        /\ rows'[x].state = "spent"
    BY <2>1 DEF SpentFrom
  <2> QED
    BY <1>1, <2>1, <2>2 DEF Exists, Unissued, Types
<1>10. \A y \in Credentials : y \notin DOMAIN new /\ y # x => rows'[y] = rows[y]
  BY <1>5
<1>11. OldRowsEnd /\ \A y \in Credentials : y # x /\ Unspent(y) => Unspent(y)' /\ rows'[y] = rows[y]
  <2> SUFFICES ASSUME NEW y \in Credentials, rows[y] # Unissued
               PROVE  RowEnds(y) /\ (y # x /\ Unspent(y) => Unspent(y)' /\ rows'[y] = rows[y])
    BY DEF OldRowsEnd, Unspent, Exists, Unissued, Types
  <2>1. CASE y = x
    BY <1>1, <1>9, <2>1 DEF RowEnds, Exists, Unspent, Live
  <2>2. CASE y # x
    BY <1>7, <1>10, <2>2 DEF RowEnds, Exists, Unspent, Live
  <2> QED
    BY <2>1, <2>2
<1>12. TypeOK'
  <2>1. requests' \in [Callers -> Requests]
    BY <1>4 DEF TypeOK, Requests
  <2>2. rows' \in [Credentials -> Rows \cup {Unissued, Deleted}]
    <3>1. \A y \in Credentials : rows'[y] \in Rows \cup {Unissued, Deleted}
      BY <1>6, <1>9, <1>10 DEF TypeOK
    <3> QED
      BY <3>1 DEF Issue
  <2>3. lineage' \in [Credentials -> Lineages \cup {Unissued}]
    <3>1. \A y \in Credentials : lineage'[y] \in Lineages \cup {Unissued}
      BY <1>5 DEF TypeOK
    <3> QED
      BY <3>1 DEF Issue
  <2> QED
    BY <1>4, <2>1, <2>2, <2>3 DEF TypeOK
<1>13. Issued'
  BY <1>5, <1>6, <1>9, <1>10 DEF Issued
<1>14. HeldStays'
  <2>1. \A t \in Callers : Holds(t)' => Holds(t) /\ requests'[t] = requests[t] /\ t # r
    BY <1>4 DEF Holds, TypeOK, Idle
  <2> SUFFICES ASSUME NEW t \in Callers, Holds(t)'
               PROVE  ReadStays(t)'
    BY DEF HeldStays
  <2>2. PICK y \in Credentials :
          /\ y = requests[t].id /\ y = requests'[t].id /\ Unspent(y) /\ ReadStays(t)
          /\ requests'[t] = requests[t] /\ t # r
    BY <2>1, HeldAreCredentials DEF HeldStays, ReadStays
  <2>3. y # x
    BY <1>1, <2>1, <2>2 DEF ReadStays
  <2>4. Unspent(y)' /\ rows'[y] = rows[y]
    BY <1>11, <2>2, <2>3
  <2>5. \A u \in Callers : Holds(u)' /\ requests'[u].id = y => u = t
    BY <2>1, <2>2 DEF ReadStays
  <2> QED
    BY <1>4, <2>2, <2>4, <2>5 DEF ReadStays, Unspent, Exists
<1>15. DoomedStay'
  <2>1. ASSUME NEW c \in Clients, NEW y \in Credentials, change'[c].op = "deleting",
               y \in change[c].tokens
        PROVE  Unspent(y)'
    BY <1>1, <1>4, <1>11, <2>1 DEF DoomedStay, ReadStays
  <2> QED
    BY <1>4, <1>11, <2>1, DoomedKeeps
<1>16. TargetsStay'
  BY <1>4, <1>11, TargetsKeep
<1>17. ParentsSpent'
  <2> SUFFICES ASSUME NEW y \in Credentials, lineage'[y].type \in {"access", "refresh"}
               PROVE  \E p \in Credentials :
                        p = lineage'[y].parent /\ lineage'[p] # Unissued /\ ~Unspent(p)'
    BY DEF ParentsSpent, Unspent, Exists
  <2>1. CASE y \in DOMAIN new
    <3>1. lineage'[y].parent = x
      BY <1>5, <2>1
    <3>2. lineage'[x] # Unissued /\ ~Unspent(x)'
      BY <1>1, <1>5, <1>8, <1>9 DEF Unspent
    <3> QED
      BY <3>1, <3>2
  <2>2. CASE y \notin DOMAIN new
    <3>1. PICK p \in Credentials :
            p = lineage[y].parent /\ lineage'[y] = lineage[y] /\ lineage[p] # Unissued /\ ~Unspent(p)
      BY <1>5, <2>2 DEF ParentsSpent
    <3>2. p \notin DOMAIN new /\ rows[p] # Unissued
      BY <1>3, <3>1 DEF Issued
    <3>3. ~Unspent(p)'
      BY <1>11, <3>1, <3>2 DEF OldRowsEnd, RowEnds
    <3> QED
      BY <1>5, <3>1, <3>2, <3>3
  <2> QED
    BY <2>1, <2>2
<1>18. SingleUse'
  <2>1. \A y \in Credentials :
          y \notin DOMAIN new /\ lineage'[y].type \in {"access", "refresh"} => lineage'[y].parent # x
    BY <1>1, <1>5 DEF ParentsSpent
  <2>2. ASSUME NEW y \in Credentials, NEW z \in Credentials,
               lineage'[y].type \in {"access", "refresh"}, lineage'[z].type = lineage'[y].type,
               lineage'[y].parent = lineage'[z].parent
        PROVE  y = z
    <3>1. CASE y \in DOMAIN new /\ z \in DOMAIN new
      <4>1. new[y] = new[z]
        BY <1>5, <2>2, <3>1
      <4> QED
        BY <1>3, <3>1, <4>1
    <3>2. CASE y \notin DOMAIN new /\ z \notin DOMAIN new
      BY <1>5, <2>2, <3>2 DEF SingleUse
    <3>3. CASE (y \in DOMAIN new) # (z \in DOMAIN new)
      BY <1>5, <2>1, <2>2, <3>3
    <3> QED
      BY <3>1, <3>2, <3>3
  <2> QED
    BY <2>2 DEF SingleUse
<1>19. ConsentKept'
  <2> SUFFICES ASSUME NEW y \in Credentials, Exists(y)'
               PROVE  /\ lineage'[lineage'[y].root].type = "code"
                      /\ rows'[y].client = lineage'[lineage'[y].root].client
                      /\ rows'[y].scopes \subseteq lineage'[lineage'[y].root].scopes
    BY DEF ConsentKept
  <2>1. PICK o \in Credentials :
          /\ Exists(o) /\ lineage'[y].root = lineage[o].root
          /\ rows'[y].client = rows[o].client /\ rows'[y].scopes \subseteq rows[o].scopes
    <3>1. CASE y \in DOMAIN new
      <4>1. rows'[y].client = rows[x].client /\ rows'[y].scopes \subseteq rows[x].scopes
        BY <1>1, <1>6, <3>1 DEF ReadStays
      <4> QED
        BY <1>1, <1>5, <3>1, <4>1
    <3>2. CASE y \notin DOMAIN new
      <4>1. Exists(y) /\ rows'[y].client = rows[y].client /\ rows'[y].scopes = rows[y].scopes
        BY <1>1, <1>9, <1>10, <3>2 DEF Exists
      <4> QED
        BY <1>5, <3>2, <4>1
    <3> QED
      BY <3>1, <3>2
  <2>2. PICK z \in Credentials : z = lineage[o].root
    BY <2>1, LineageFields, UnissuedAreIdle
  <2>3. /\ lineage[z].type = "code" /\ rows[o].client = lineage[z].client
        /\ rows[o].scopes \subseteq lineage[z].scopes
    BY <2>1, <2>2 DEF ConsentKept
  <2>4. lineage'[z] = lineage[z]
    BY <1>3, <1>5, <2>3 DEF Unissued
  <2> QED
    BY <2>1, <2>2, <2>3, <2>4
<1> QED
  BY <1>12, <1>13, <1>14, <1>15, <1>16, <1>17, <1>18, <1>19

LEMMA CredentialNext == CredentialInv /\ [Next]_vars => CredentialInv'
<1> SUFFICES ASSUME CredentialInv, [Next]_vars
             PROVE  CredentialInv'
  OBVIOUS
<1>1. CASE \E c \in Clients : Register(c)
  BY <1>1, RegisterKeeps
<1>2. CASE \E r \in Callers, c \in Clients, s \in ScopeRequests : Approve(r, c, s)
  BY <1>2, ApproveKeeps
<1>3. CASE \E r \in Callers, k \in Credentials : CodeInsert(r, k)
  BY <1>3, CodeInsertKeeps
<1>4. CASE \E r \in Callers, k \in Credentials, c \in Clients : ExchangeLock(r, k, c)
  BY <1>4, ExchangeLockKeeps
<1>5. CASE \E r \in Callers, t \in Credentials, c \in Clients, s \in SUBSET Scopes :
             RefreshLock(r, t, c, s)
  BY <1>5, RefreshLockKeeps
<1>6. CASE \E r \in Callers, a, b \in Credentials : Issue(r, a, b)
  BY <1>6, IssueKeeps
<1>7. CASE \E r \in Callers : Abort(r)
  BY <1>7, AbortKeeps
<1>8. CASE \E t \in Credentials : Revoke(t)
  BY <1>8, RevokeKeeps
<1>9. CASE \E x \in Credentials : Expire(x)
  BY <1>9, ExpireKeeps
<1>10. CASE \E dead \in SUBSET Credentials : Cleanup(dead)
  BY <1>10, CleanupKeeps
<1>11. CASE \E c \in Clients, g \in Grants : GrantChangeBegin(c, g)
  BY <1>11, GrantChangeBeginKeeps
<1>12. CASE \E c \in Clients : GrantChangeRevoke(c)
  BY <1>12, GrantChangeRevokeKeeps
<1>13. CASE \E c \in Clients : GrantChangeCommit(c)
  BY <1>13, GrantChangeCommitKeeps
<1>14. CASE \E c \in Clients : GrantChangeAbort(c)
  BY <1>14, GrantChangeAbortKeeps
<1>15. CASE UNCHANGED vars
  <2>1. CredentialInv' <=> CredentialInv
    BY <1>15 DEF vars, CredentialInv, TypeOK, Issued, HeldStays, ReadStays, Holds, DoomedStay,
                 TargetsStay, ParentsSpent, SingleUse, ConsentKept, Unspent, Exists
  <2> QED
    BY <2>1
<1> QED
  BY <1>1, <1>2, <1>3, <1>4, <1>5, <1>6, <1>7, <1>8, <1>9, <1>10, <1>11, <1>12, <1>13, <1>14,
     <1>15 DEF Next

\* The inductive invariant holds in every state.
THEOREM CredentialInvariant == Spec => []CredentialInv
  BY CredentialInit, CredentialNext, PTL DEF Spec

\* Every variable has its type, whatever the callers and administrators do.
THEOREM OAuthTypes == Spec => []TypeOK
<1>1. CredentialInv => TypeOK
  BY DEF CredentialInv
<1> QED
  BY <1>1, CredentialInvariant, PTL

\* No code is exchanged twice and no refresh token redeemed twice, however many
\* requests present it at the same time.
THEOREM SingleUseHolds == Spec => []SingleUse
<1>1. CredentialInv => SingleUse
  BY DEF CredentialInv
<1> QED
  BY <1>1, CredentialInvariant, PTL

----------------------------------------------------------------------------
(* What an issue makes, and what every other step leaves *)

\* A token that an issue makes carries what the request had read; every other
\* row is left as it is, or spent.
LEMMA IssuedOrEnds ==
  ASSUME CredentialInv, NEW r \in Callers, NEW a \in Credentials, NEW b \in Credentials,
         Issue(r, a, b), NEW y \in Credentials
  PROVE  LET q == requests[r]
         IN  \/ /\ lineage[y] = Unissued /\ lineage'[y].parent = q.id
                /\ lineage'[y].overtaken = (lineage[q.id].overtaken \/ Overtaken(q))
                /\ rows'[y].client = q.client /\ rows'[y].ns = q.ns
                /\ rows'[y].scopes = q.scopes /\ lineage'[y].scopes = q.scopes
             \/ lineage'[y] = lineage[y] /\ RowEnds(y)
<1> USE DEF CredentialInv
<1>1. PICK q \in Requests, x \in Credentials :
        /\ q = requests[r] /\ x = q.id /\ q.op \in {"exchange", "refresh"}
        /\ Unspent(x) /\ Exists(x) /\ lineage[x] # Unissued
  BY IssueOrigin DEF TypeOK, Holds, Unspent
<1>2. PICK new : new = Pair(q, a, b)
  OBVIOUS
<1>3. CASE y \in DOMAIN new
  <2>1. lineage[y] = Unissued
    BY <1>1, <1>2, <1>3 DEF Issue
  <2>2. rows'[y] = NewRow(new[y], q)
    BY <1>1, <1>2, <1>3, IssueFields
  <2>3. lineage'[y].parent = x /\ lineage'[y].overtaken = (lineage[x].overtaken \/ Overtaken(q))
    BY <1>1, <1>2, <1>3, IssueFields
  <2>4. rows'[y].client = q.client /\ rows'[y].ns = q.ns /\ rows'[y].scopes = q.scopes
    BY <2>2 DEF NewRow
  <2>5. lineage'[y].scopes = q.scopes
    BY <1>1, <1>2, <1>3, IssueFields
  <2> QED
    BY <1>1, <2>1, <2>3, <2>4, <2>5
<1>4. CASE y \notin DOMAIN new
  <2>1. lineage'[y] = lineage[y] /\ rows'[y] = IF y = x THEN Spent(x) ELSE rows[y]
    BY <1>1, <1>2, <1>4, IssueFields
  <2>2. CASE y = x
    <3>1. rows'[x] = SpentFrom(x)
      BY <1>1, <2>1, <2>2, SpentRow
    <3>2. /\ rows'[x].type = rows[x].type /\ rows'[x].client = rows[x].client
          /\ rows'[x].scopes = rows[x].scopes /\ rows'[x].ns = rows[x].ns
          /\ rows'[x].state = "spent"
      BY <3>1 DEF SpentFrom
    <3>3. rows[x] # Unissued /\ rows'[x] # Unissued
      BY <1>1, <3>2 DEF Exists, Unissued, Types
    <3> QED
      BY <1>1, <2>1, <2>2, <3>2, <3>3 DEF RowEnds, Exists, Unspent, Live
  <2>3. CASE y # x
    BY <2>1, <2>3 DEF RowEnds, Exists, Unspent, Live
  <2> QED
    BY <2>2, <2>3
<1> QED
  BY <1>3, <1>4

\* Only an approved request or an issue makes a credential.
LEMMA OthersOnlyEnd ==
  ASSUME CredentialInv, [Next]_vars,
         ~ \E r \in Callers, k \in Credentials : CodeInsert(r, k),
         ~ \E r \in Callers, a, b \in Credentials : Issue(r, a, b)
  PROVE  RowsOnlyEnd /\ UNCHANGED lineage
<1> USE DEF CredentialInv
<1>1. ASSUME NEW t \in Credentials, Revoke(t) PROVE RowsOnlyEnd /\ UNCHANGED lineage
  BY <1>1, RevokeEnds DEF Revoke
<1>2. ASSUME NEW x \in Credentials, Expire(x) PROVE RowsOnlyEnd /\ UNCHANGED lineage
  BY <1>2, ExpireEnds DEF Expire
<1>3. ASSUME NEW dead \in SUBSET Credentials, Cleanup(dead) PROVE RowsOnlyEnd /\ UNCHANGED lineage
  BY <1>3, CleanupEnds DEF Cleanup
<1>4. ASSUME NEW c \in Clients, GrantChangeCommit(c) PROVE RowsOnlyEnd /\ UNCHANGED lineage
  BY <1>4, CommitRows DEF GrantChangeCommit
<1>5. ASSUME UNCHANGED <<rows, lineage>> PROVE RowsOnlyEnd /\ UNCHANGED lineage
  BY <1>5, RowsStay
<1>6. \/ UNCHANGED <<rows, lineage>>
      \/ \E t \in Credentials : Revoke(t)
      \/ \E x \in Credentials : Expire(x)
      \/ \E dead \in SUBSET Credentials : Cleanup(dead)
      \/ \E c \in Clients : GrantChangeCommit(c)
  BY DEF Next, vars, Register, Approve, ExchangeLock, RefreshLock, Abort, GrantChangeBegin,
         GrantChangeRevoke, GrantChangeAbort
<1> QED
  BY <1>1, <1>2, <1>3, <1>4, <1>5, <1>6

\* A credential that was revoked, used or deleted issues nothing afterwards,
\* not even to a request that had read it before.
THEOREM SpentIssuesNothingHolds == Spec => SpentIssuesNothing
<1> DEFINE Quiet ==
      \A x \in Credentials :
        lineage[x] = Unissued /\ lineage'[x].type \in {"access", "refresh"}
          => Unspent(lineage'[x].parent)
<1>1. ASSUME CredentialInv, [Next]_vars PROVE Quiet
  <2> SUFFICES ASSUME NEW x \in Credentials, lineage[x] = Unissued,
                      lineage'[x].type \in {"access", "refresh"}
               PROVE  Unspent(lineage'[x].parent)
    OBVIOUS
  <2>1. ASSUME NEW r \in Callers, NEW k \in Credentials, CodeInsert(r, k) PROVE FALSE
    BY <1>1, <2>1 DEF CodeInsert, CredentialInv, TypeOK, Unissued
  <2>2. ASSUME NEW r \in Callers, NEW a \in Credentials, NEW b \in Credentials, Issue(r, a, b)
        PROVE  Unspent(lineage'[x].parent)
    <3>1. lineage'[x].parent = requests[r].id
      BY <1>1, <2>2, IssuedOrEnds DEF Unissued
    <3> QED
      BY <1>1, <2>2, <3>1, IssueOrigin
  <2>3. CASE UNCHANGED lineage
    BY <2>3 DEF Unissued
  <2> QED
    BY <1>1, <2>1, <2>2, <2>3, OthersOnlyEnd
<1>2. CredentialInv /\ [Next]_vars => [Quiet]_vars
  BY <1>1
<1> HIDE DEF Quiet
<1>3. Spec => [][Quiet]_vars
  BY <1>2, CredentialInvariant, PTL DEF Spec
<1> QED
  BY <1>3 DEF SpentIssuesNothing, Quiet

----------------------------------------------------------------------------
(* A refresh gives up scopes for good *)

\* A credential has the scopes it was issued with, and its parent, which was
\* issued before, had them too.
Narrows(x) ==
  /\ lineage[x].parent \in Credentials /\ lineage[lineage[x].parent] # Unissued
  /\ rows[x].scopes = lineage[x].scopes
  /\ rows[x].scopes \subseteq lineage[lineage[x].parent].scopes
ScopesNarrow == \A x \in Credentials : Exists(x) => Narrows(x)

\* What was issued before the step keeps its scopes and its origin.
LEMMA OldNarrows ==
  ASSUME ScopesNarrow, NEW x \in Credentials, Exists(x)', RowEnds(x),
         lineage'[x] = lineage[x],
         \A y \in Credentials : lineage[y] # Unissued => lineage'[y] = lineage[y]
  PROVE  Narrows(x)'
<1>1. PICK p \in Credentials : p = lineage[x].parent /\ lineage[p] # Unissued
  BY DEF ScopesNarrow, Narrows, RowEnds
<1>2. /\ rows[x].scopes = lineage[x].scopes /\ rows[x].scopes \subseteq lineage[p].scopes
      /\ rows'[x].scopes = rows[x].scopes
  BY <1>1 DEF ScopesNarrow, Narrows, RowEnds
<1>3. lineage'[p] = lineage[p]
  BY <1>1
<1> QED
  BY <1>1, <1>2, <1>3 DEF Narrows

LEMMA CodeInsertNarrows ==
  ASSUME CredentialInv, ScopesNarrow, NEW r \in Callers, NEW k \in Credentials, CodeInsert(r, k)
  PROVE  ScopesNarrow'
<1>1. PICK q : q = requests[r]
  OBVIOUS
<1>2. /\ rows'[k] = NewRow("code", q)
      /\ lineage'[k] = [type |-> "code", parent |-> k, root |-> k, client |-> q.client,
                        scopes |-> q.scopes, overtaken |-> Overtaken(q)]
      /\ \A x \in Credentials : x # k => rows'[x] = rows[x] /\ lineage'[x] = lineage[x]
      /\ lineage[k] = Unissued
  BY <1>1 DEF CodeInsert, CredentialInv, TypeOK
<1>3. /\ rows'[k].scopes = q.scopes /\ lineage'[k].scopes = q.scopes
      /\ lineage'[k].parent = k /\ lineage'[k] # Unissued
  BY <1>2 DEF NewRow, Unissued
<1>4. Narrows(k)'
  BY <1>3 DEF Narrows
<1>5. ASSUME NEW x \in Credentials, x # k, Exists(x)'
      PROVE  Narrows(x)'
  <2>1. RowEnds(x) /\ lineage'[x] = lineage[x]
    BY <1>2, <1>5 DEF RowEnds, Exists, Unspent, Live
  <2>2. \A y \in Credentials : lineage[y] # Unissued => lineage'[y] = lineage[y]
    BY <1>2
  <2> QED
    BY <1>5, <2>1, <2>2, OldNarrows
<1> QED
  BY <1>4, <1>5 DEF ScopesNarrow

LEMMA IssueNarrows ==
  ASSUME CredentialInv, ScopesNarrow, NEW r \in Callers, NEW a \in Credentials,
         NEW b \in Credentials, Issue(r, a, b)
  PROVE  ScopesNarrow'
<1>1. PICK q \in Requests, o \in Credentials :
        /\ q = requests[r] /\ o = q.id /\ Exists(o) /\ lineage[o] # Unissued
        /\ q.scopes \subseteq rows[o].scopes
  BY IssueOrigin DEF CredentialInv, TypeOK, Holds, ReadStays, Unspent
<1>2. \A y \in Credentials :
        \/ /\ lineage[y] = Unissued /\ lineage'[y].parent = o
           /\ rows'[y].scopes = q.scopes /\ lineage'[y].scopes = q.scopes
        \/ lineage'[y] = lineage[y] /\ RowEnds(y)
  BY <1>1, IssuedOrEnds
<1>3. \A y \in Credentials : lineage[y] # Unissued => lineage'[y] = lineage[y]
  BY <1>2
<1>4. ASSUME NEW x \in Credentials, Exists(x)'
      PROVE  Narrows(x)'
  <2>1. CASE lineage'[x] = lineage[x] /\ RowEnds(x)
    BY <1>3, <1>4, <2>1, OldNarrows
  <2>2. CASE /\ lineage[x] = Unissued /\ lineage'[x].parent = o
             /\ rows'[x].scopes = q.scopes /\ lineage'[x].scopes = q.scopes
    <3>1. lineage'[o] = lineage[o] /\ rows[o].scopes = lineage[o].scopes
      BY <1>1, <1>3 DEF ScopesNarrow, Narrows
    <3> QED
      BY <1>1, <2>2, <3>1 DEF Narrows
  <2> QED
    BY <1>2, <2>1, <2>2
<1> QED
  BY <1>4 DEF ScopesNarrow

LEMMA NarrowNext == CredentialInv /\ ScopesNarrow /\ [Next]_vars => ScopesNarrow'
<1> SUFFICES ASSUME CredentialInv, ScopesNarrow, [Next]_vars
             PROVE  ScopesNarrow'
  OBVIOUS
<1>1. CASE RowsOnlyEnd /\ UNCHANGED lineage
  <2> SUFFICES ASSUME NEW x \in Credentials, Exists(x)'
               PROVE  Narrows(x)'
    BY DEF ScopesNarrow
  <2> QED
    BY <1>1, OldNarrows DEF RowsOnlyEnd
<1> QED
  BY <1>1, CodeInsertNarrows, IssueNarrows, OthersOnlyEnd

\* However often a session is refreshed, its tokens belong to the client and
\* stay within the scopes the owner approved; what a refresh gave up, no later
\* one gets back.
THEOREM WithinConsentHolds == Spec => []WithinConsent
<1>1. Init => ScopesNarrow
  BY DEF Init, ScopesNarrow, Exists, Unissued, Types
<1>2. Spec => []ScopesNarrow
  BY <1>1, NarrowNext, CredentialInvariant, PTL DEF Spec
<1>3. CredentialInv /\ ScopesNarrow => WithinConsent
  <2> SUFFICES ASSUME CredentialInv, ScopesNarrow, NEW x \in Credentials, Exists(x)
               PROVE  LET consent == lineage[lineage[x].root]
                          from == lineage[lineage[x].parent]
                      IN  /\ consent.type = "code"
                          /\ rows[x].client = consent.client
                          /\ rows[x].scopes \subseteq consent.scopes \cap from.scopes
    BY DEF WithinConsent
  <2> QED
    BY DEF CredentialInv, ConsentKept, ScopesNarrow, Narrows
<1> QED
  BY <1>2, <1>3, CredentialInvariant, PTL

----------------------------------------------------------------------------
(* A change of the grant reaches every credential *)

\* What was issued outside any change carries the grant of now ...
GrantCarried ==
  \A x \in Credentials :
    Unspent(x) /\ ~lineage[x].overtaken => rows[x].ns = grant[rows[x].client]

\* ... as does what an approval read ...
ApprovalsCurrent ==
  \A r \in Callers :
    requests[r].op = "approve" /\ ~requests[r].overtaken
      => requests[r].ns = grant[requests[r].client]

\* ... and a change under way has selected all of it.
ChangeCovers ==
  \A c \in Clients, x \in Credentials :
    /\ change[c].op # "idle"
    /\ Unspent(x) /\ rows[x].client = c /\ ~lineage[x].overtaken
    => /\ rows[x].type # "code" => x \in change[c].tokens
       /\ rows[x].type = "code" /\ change[c].op = "deleting" => x \in change[c].codes

GrantInv == GrantCarried /\ ApprovalsCurrent /\ ChangeCovers

\* The requests of a step that begins or ends one, or none.
ApprovalsStay ==
  \A r \in Callers : requests'[r].op = "approve" => requests'[r] = requests[r]

LEMMA CarriedKeeps ==
  ASSUME TypeOK, GrantCarried, RowsOnlyEnd, UNCHANGED <<grant, lineage>>
  PROVE  GrantCarried'
  BY DEF GrantCarried, RowsOnlyEnd, RowEnds, Unspent

LEMMA CoversKeeps ==
  ASSUME TypeOK, ChangeCovers, RowsOnlyEnd, UNCHANGED lineage,
         \A c \in Clients : change'[c].op # "idle" => change'[c] = change[c]
  PROVE  ChangeCovers'
  BY DEF ChangeCovers, RowsOnlyEnd, RowEnds, Unspent

LEMMA ApprovalsKeep ==
  ASSUME ApprovalsCurrent, ApprovalsStay, UNCHANGED grant
  PROVE  ApprovalsCurrent'
  BY DEF ApprovalsCurrent, ApprovalsStay

LEMMA OneRequestStays ==
  ASSUME TypeOK, NEW r \in Callers, requests'[r].op # "approve",
         \A t \in Callers : t # r => requests'[t] = requests[t]
  PROVE  ApprovalsStay
  BY DEF ApprovalsStay

LEMMA ReturnStays ==
  ASSUME TypeOK, NEW r \in Callers, requests' = [requests EXCEPT ![r] = Idle]
  PROVE  ApprovalsStay
<1>1. requests'[r] = Idle /\ \A t \in Callers : t # r => requests'[t] = requests[t]
  BY DEF TypeOK
<1> QED
  BY <1>1, OneRequestStays DEF Idle

\* A client without a row has nothing: nobody was approved, nothing was issued.
LEMMA RegisterReaches ==
  ASSUME CredentialInv, GrantInv, NEW c \in Clients, Register(c)
  PROVE  GrantInv'
<1> USE DEF CredentialInv, GrantInv
<1>1. /\ grant[c] = Nothing /\ grant' = [grant EXCEPT ![c] = DefaultGrant]
      /\ UNCHANGED <<rows, requests, change, lineage>>
  BY DEF Register
<1>2. \A d \in Clients : d # c => grant'[d] = grant[d]
  BY <1>1 DEF TypeOK
<1>3. GrantCarried'
  <2> SUFFICES ASSUME NEW x \in Credentials, Unspent(x), ~lineage[x].overtaken
               PROVE  rows[x].ns = grant'[rows[x].client]
    BY <1>1 DEF GrantCarried, Unspent, Exists
  <2>1. rows[x].ns = grant[rows[x].client] /\ rows[x].ns \in Grants /\ rows[x].client \in Clients
    BY RowFields DEF GrantCarried, Unspent
  <2> QED
    BY <1>1, <1>2, <2>1, GrantAssumption
<1>4. ApprovalsCurrent'
  <2> SUFFICES ASSUME NEW r \in Callers, requests[r].op = "approve", ~requests[r].overtaken
               PROVE  requests[r].ns = grant'[requests[r].client]
    BY <1>1 DEF ApprovalsCurrent
  <2>1. PICK q \in Requests : q = requests[r]
    BY DEF TypeOK
  <2>2. q.ns = grant[q.client] /\ q.ns \in Grants /\ q.client \in Clients
    BY <2>1, RequestFields DEF ApprovalsCurrent
  <2> QED
    BY <1>1, <1>2, <2>1, <2>2, GrantAssumption
<1>5. ChangeCovers'
  BY <1>1, RowsStay, CoversKeeps
<1> QED
  BY <1>3, <1>4, <1>5

LEMMA ApproveReaches ==
  ASSUME CredentialInv, GrantInv, NEW r \in Callers, NEW c \in Clients, NEW s \in ScopeRequests,
         Approve(r, c, s)
  PROVE  GrantInv'
<1> USE DEF CredentialInv, GrantInv
<1>1. UNCHANGED <<grant, rows, change, lineage>>
  BY DEF Approve
<1>2. ApprovalsCurrent'
  <2>1. /\ requests'[r].ns = grant[c] /\ requests'[r].client = c
        /\ \A t \in Callers : t # r => requests'[t] = requests[t]
    BY DEF Approve, Begin, TypeOK
  <2> QED
    BY <1>1, <2>1 DEF ApprovalsCurrent
<1> QED
  BY <1>1, <1>2, RowsStay, CarriedKeeps, CoversKeeps

\* Nothing is overtaken that was issued while no change was under way.
LEMMA NotOvertaken ==
  ASSUME TypeOK, NEW q \in Requests, q.op # "idle", ~Overtaken(q)
  PROVE  ~q.overtaken /\ q.client \in Clients /\ change[q.client].op = "idle"
  BY RequestFields DEF Overtaken, Idle

LEMMA CodeInsertReaches ==
  ASSUME CredentialInv, GrantInv, NEW r \in Callers, NEW k \in Credentials, CodeInsert(r, k)
  PROVE  GrantInv'
<1> USE DEF CredentialInv, GrantInv
<1>1. PICK q \in Requests : q = requests[r] /\ q.op = "approve"
  BY DEF TypeOK, CodeInsert
<1>2. /\ rows'[k] = NewRow("code", q) /\ lineage'[k].overtaken = Overtaken(q)
      /\ \A x \in Credentials : x # k => rows'[x] = rows[x] /\ lineage'[x] = lineage[x]
      /\ requests' = [requests EXCEPT ![r] = Idle] /\ UNCHANGED <<grant, change>>
  BY <1>1 DEF CodeInsert, TypeOK, Return
<1>3. rows'[k].client = q.client /\ rows'[k].ns = q.ns
  BY <1>2 DEF NewRow
<1>4. ~lineage'[k].overtaken => q.ns = grant[q.client] /\ change[q.client].op = "idle"
  BY <1>1, <1>2, NotOvertaken DEF ApprovalsCurrent
<1>5. GrantCarried'
  BY <1>2, <1>3, <1>4 DEF GrantCarried, Unspent, Exists
<1>6. ApprovalsCurrent'
  BY <1>2, ReturnStays, ApprovalsKeep
<1>7. ChangeCovers'
  BY <1>2, <1>3, <1>4 DEF ChangeCovers, Unspent, Exists
<1> QED
  BY <1>5, <1>6, <1>7

LEMMA IssueReaches ==
  ASSUME CredentialInv, GrantInv, NEW r \in Callers, NEW a \in Credentials, NEW b \in Credentials,
         Issue(r, a, b)
  PROVE  GrantInv'
<1> USE DEF CredentialInv, GrantInv
<1>1. PICK q \in Requests, x \in Credentials :
        /\ q = requests[r] /\ x = q.id /\ q.op # "idle" /\ Unspent(x)
        /\ rows[x].client = q.client /\ rows[x].ns = q.ns
        /\ lineage[x] # Unissued /\ lineage[x].overtaken \in BOOLEAN
  BY IssueOrigin, LineageFields DEF TypeOK, Holds, ReadStays
<1>2. \A y \in Credentials :
        \/ /\ lineage'[y].overtaken = (lineage[x].overtaken \/ Overtaken(q))
           /\ rows'[y].client = q.client /\ rows'[y].ns = q.ns
        \/ lineage'[y] = lineage[y] /\ RowEnds(y)
  BY <1>1, IssuedOrEnds
<1>3. ~(lineage[x].overtaken \/ Overtaken(q)) => q.ns = grant[q.client] /\ change[q.client].op = "idle"
  BY <1>1, NotOvertaken DEF GrantCarried
<1>4. requests' = [requests EXCEPT ![r] = Idle] /\ UNCHANGED <<grant, change>>
  BY DEF Issue, Return
<1>5. \A y \in Credentials : Unspent(y)' /\ ~lineage'[y].overtaken =>
        \/ rows'[y].ns = grant[rows'[y].client] /\ change[rows'[y].client].op = "idle"
        \/ /\ Unspent(y) /\ ~lineage[y].overtaken /\ lineage'[y] = lineage[y]
           /\ rows'[y].type = rows[y].type /\ rows'[y].client = rows[y].client
           /\ rows'[y].ns = rows[y].ns
  <2> SUFFICES ASSUME NEW y \in Credentials, Unspent(y)', ~lineage'[y].overtaken
               PROVE  \/ /\ rows'[y].ns = grant[rows'[y].client]
                         /\ change[rows'[y].client].op = "idle"
                      \/ /\ Unspent(y) /\ ~lineage[y].overtaken /\ lineage'[y] = lineage[y]
                         /\ rows'[y].type = rows[y].type /\ rows'[y].client = rows[y].client
                         /\ rows'[y].ns = rows[y].ns
    OBVIOUS
  <2>1. CASE /\ lineage'[y].overtaken = (lineage[x].overtaken \/ Overtaken(q))
             /\ rows'[y].client = q.client /\ rows'[y].ns = q.ns
    BY <1>3, <2>1
  <2>2. CASE lineage'[y] = lineage[y] /\ RowEnds(y)
    BY <2>2 DEF RowEnds, Unspent
  <2> QED
    BY <1>2, <2>1, <2>2
<1>6. GrantCarried'
  BY <1>4, <1>5 DEF GrantCarried, Unspent, Exists
<1>7. ApprovalsCurrent'
  BY <1>4, ReturnStays, ApprovalsKeep
<1>8. ChangeCovers'
  BY <1>4, <1>5 DEF ChangeCovers, Unspent, Exists
<1> QED
  BY <1>6, <1>7, <1>8

LEMMA GrantChangeBeginReaches ==
  ASSUME CredentialInv, GrantInv, NEW c \in Clients, NEW g \in Grants, GrantChangeBegin(c, g)
  PROVE  GrantInv'
<1> USE DEF CredentialInv, GrantInv
<1>1. UNCHANGED <<grant, rows, requests, lineage>>
  BY DEF GrantChangeBegin
<1>2. /\ change'[c].op = "revoking" /\ change'[c].tokens = TokensOf(c)
      /\ \A d \in Clients : d # c => change'[d] = change[d]
  BY DEF GrantChangeBegin, TypeOK
<1>3. ChangeCovers'
  BY <1>1, <1>2 DEF ChangeCovers, TokensOf, Unspent, Exists
<1> QED
  BY <1>1, <1>3, RowsStay, CarriedKeeps, ApprovalsKeep DEF ApprovalsStay

LEMMA GrantChangeRevokeReaches ==
  ASSUME CredentialInv, GrantInv, NEW c \in Clients, GrantChangeRevoke(c)
  PROVE  GrantInv'
<1> USE DEF CredentialInv, GrantInv
<1>1. UNCHANGED <<grant, rows, requests, lineage>> /\ change[c].op # "idle"
  BY DEF GrantChangeRevoke
<1>2. /\ change'[c].tokens = {x \in change[c].tokens : Unspent(x)} /\ change'[c].codes = CodesOf(c)
      /\ \A d \in Clients : d # c => change'[d] = change[d]
  BY DEF GrantChangeRevoke, TypeOK
<1>3. ChangeCovers'
  BY <1>1, <1>2 DEF ChangeCovers, CodesOf, Unspent, Exists
<1> QED
  BY <1>1, <1>3, RowsStay, CarriedKeeps, ApprovalsKeep DEF ApprovalsStay

\* The change is committed: what it has not ended was overtaken.
LEMMA GrantChangeCommitReaches ==
  ASSUME CredentialInv, GrantInv, NEW c \in Clients, GrantChangeCommit(c)
  PROVE  GrantInv'
<1> USE DEF CredentialInv, GrantInv
<1>1. /\ change[c].op = "deleting" /\ RowsOnlyEnd
      /\ \A x \in change[c].tokens : x \in Credentials
  BY CommitRows
<1>2. \A x \in Credentials :
        /\ x \in change[c].tokens => rows'[x] = SpentFrom(x)
        /\ x \notin change[c].tokens /\ x \in change[c].codes /\ Unspent(x) => rows'[x] = Deleted
  BY CommitRows
<1>3. /\ change' = [change EXCEPT ![c] = Idle] /\ UNCHANGED lineage
      /\ grant' = [grant EXCEPT ![c] = change[c].grant] /\ requests' = MarkOvertaken(c)
  BY DEF GrantChangeCommit
<1>4. \A d \in Clients : d # c => grant'[d] = grant[d]
  BY <1>3 DEF TypeOK
<1>5. \A x \in Credentials : Unspent(x)' /\ ~lineage[x].overtaken => rows[x].client # c
  <2> SUFFICES ASSUME NEW x \in Credentials, Unspent(x)', ~lineage[x].overtaken, rows[x].client = c
               PROVE  FALSE
    OBVIOUS
  <2>1. Unspent(x)
    BY <1>1 DEF RowsOnlyEnd, RowEnds
  <2>2. x \in change[c].tokens \/ x \in change[c].codes
    BY <1>1, <2>1 DEF ChangeCovers
  <2>3. rows'[x] = SpentFrom(x) \/ rows'[x] = Deleted
    BY <1>2, <2>1, <2>2
  <2> QED
    BY <2>3 DEF SpentFrom, Deleted, Unspent, Exists, Types
<1>6. GrantCarried'
  <2> SUFFICES ASSUME NEW x \in Credentials, Unspent(x)', ~lineage[x].overtaken
               PROVE  rows'[x].ns = grant'[rows'[x].client]
    BY <1>3 DEF GrantCarried, Unspent, Exists
  <2>1. Unspent(x) /\ rows'[x].ns = rows[x].ns /\ rows'[x].client = rows[x].client
    BY <1>1 DEF RowsOnlyEnd, RowEnds, Unspent
  <2>2. rows[x].client \in Clients /\ rows[x].client # c
    BY <1>5, <2>1, RowFields DEF Unspent
  <2> QED
    BY <1>4, <2>1, <2>2 DEF GrantCarried
<1>7. ApprovalsCurrent'
  <2> SUFFICES ASSUME NEW r \in Callers, requests'[r].op = "approve", ~requests'[r].overtaken
               PROVE  requests'[r].ns = grant'[requests'[r].client]
    BY DEF ApprovalsCurrent
  <2>1. PICK q \in Requests : q = requests[r]
    BY DEF TypeOK
  <2>2. requests'[r] = IF q.op \in {"approve", "exchange", "refresh"} /\ q.client = c
                       THEN [q EXCEPT !.overtaken = TRUE] ELSE q
    BY <1>3, <2>1 DEF MarkOvertaken
  <2>3. q.op = "approve" /\ q.client # c /\ requests'[r] = q
    BY <2>2, OvertakenRequest
  <2>4. q.client \in Clients
    BY <2>3, RequestFields
  <2> QED
    BY <1>4, <2>1, <2>3, <2>4 DEF ApprovalsCurrent
<1>8. ChangeCovers'
  BY <1>1, <1>3, CoversKeeps DEF TypeOK, Idle
<1> QED
  BY <1>6, <1>7, <1>8

LEMMA GrantNext == CredentialInv /\ GrantInv /\ [Next]_vars => GrantInv'
<1> SUFFICES ASSUME CredentialInv, GrantInv, [Next]_vars
             PROVE  GrantInv'
  OBVIOUS
<1> USE DEF CredentialInv
<1>1. CASE \E c \in Clients : Register(c)
  BY <1>1, RegisterReaches
<1>2. CASE \E r \in Callers, c \in Clients, s \in ScopeRequests : Approve(r, c, s)
  BY <1>2, ApproveReaches
<1>3. CASE \E r \in Callers, k \in Credentials : CodeInsert(r, k)
  BY <1>3, CodeInsertReaches
<1>4. CASE \E r \in Callers, a, b \in Credentials : Issue(r, a, b)
  BY <1>4, IssueReaches
<1>5. CASE \E c \in Clients, g \in Grants : GrantChangeBegin(c, g)
  BY <1>5, GrantChangeBeginReaches
<1>6. CASE \E c \in Clients : GrantChangeRevoke(c)
  BY <1>6, GrantChangeRevokeReaches
<1>7. CASE \E c \in Clients : GrantChangeCommit(c)
  BY <1>7, GrantChangeCommitReaches
<1>8. ASSUME RowsOnlyEnd, UNCHANGED <<grant, lineage>>, ApprovalsStay,
             \A c \in Clients : change'[c].op # "idle" => change'[c] = change[c]
      PROVE  GrantInv'
  BY <1>8, CarriedKeeps, CoversKeeps, ApprovalsKeep DEF GrantInv
<1>9. ASSUME NEW r \in Callers, NEW op \in {"exchange", "refresh"}, NEW x \in Credentials,
              NEW c \in Clients, NEW s, Begin(r, Holding(op, x, c, s)) PROVE ApprovalsStay
  <2>1. requests'[r].op = op /\ \A t \in Callers : t # r => requests'[t] = requests[t]
    BY <1>9 DEF Begin, Holding, TypeOK
  <2> QED
    BY <2>1, OneRequestStays
<1>10. ASSUME UNCHANGED <<grant, change>>,
              \/ \E r \in Callers, k \in Credentials, c \in Clients : ExchangeLock(r, k, c)
              \/ \E r \in Callers, t \in Credentials, c \in Clients, s \in SUBSET Scopes :
                   RefreshLock(r, t, c, s)
       PROVE  GrantInv'
  <2>1. ApprovalsStay
    BY <1>9, <1>10 DEF ExchangeLock, RefreshLock
  <2>2. RowsOnlyEnd /\ UNCHANGED <<grant, lineage>>
    BY <1>10, RowsStay DEF ExchangeLock, RefreshLock
  <2> QED
    BY <1>8, <1>10, <2>1, <2>2
<1>11. ASSUME NEW r \in Callers, Abort(r) PROVE GrantInv'
  <2>1. ApprovalsStay
    BY <1>11, ReturnType, ReturnStays DEF Abort
  <2> QED
    BY <1>8, <1>11, <2>1, RowsStay DEF Abort
<1>12. ASSUME UNCHANGED <<grant, requests, change>>,
              \/ \E t \in Credentials : Revoke(t)
              \/ \E x \in Credentials : Expire(x)
              \/ \E dead \in SUBSET Credentials : Cleanup(dead)
       PROVE  GrantInv'
  <2>1. ApprovalsStay
    BY <1>12 DEF ApprovalsStay
  <2>2. UNCHANGED lineage
    BY <1>12 DEF Revoke, Expire, Cleanup
  <2>3. RowsOnlyEnd
    BY <1>12, RevokeEnds, ExpireEnds, CleanupEnds
  <2> QED
    BY <1>8, <1>12, <2>1, <2>2, <2>3
<1>13. ASSUME NEW c \in Clients, GrantChangeAbort(c) PROVE GrantInv'
  <2>1. \A d \in Clients : change'[d].op # "idle" => change'[d] = change[d]
    BY <1>13 DEF GrantChangeAbort, TypeOK, Idle
  <2> QED
    BY <1>8, <1>13, <2>1, RowsStay DEF GrantChangeAbort, ApprovalsStay
<1>14. ASSUME UNCHANGED vars PROVE GrantInv'
  BY <1>8, <1>14, RowsStay DEF vars, ApprovalsStay
<1> QED
  BY <1>1, <1>2, <1>3, <1>4, <1>5, <1>6, <1>7, <1>10, <1>11, <1>12, <1>13, <1>14
     DEF Next, Revoke, Expire, Cleanup, ExchangeLock, RefreshLock

LEMMA GrantInit == Init => GrantInv
  BY DEF Init, GrantInv, GrantCarried, ApprovalsCurrent, ChangeCovers, Unspent, Exists, Unissued,
         Types, Idle

\* A usable credential carries the current grant of its client, unless its
\* issue, or that of an ancestor, overlapped a change of the grant: a change
\* reaches all but what requests under way get.
THEOREM GrantReachesHolds == Spec => []GrantReaches
<1> DEFINE IInv == CredentialInv /\ GrantInv
<1>1. Init => IInv
  BY CredentialInit, GrantInit
<1>2. IInv /\ [Next]_vars => IInv'
  BY CredentialNext, GrantNext
<1>3. IInv => GrantReaches
  BY DEF GrantInv, GrantCarried, GrantReaches, Live, Unspent
<1> QED
  BY <1>1, <1>2, <1>3, PTL DEF Spec
=============================================================================
